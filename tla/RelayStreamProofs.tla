-------------------------- MODULE RelayStreamProofs --------------------------
(***************************************************************************)
(* Proofs about RelayStream for any log length, any number of forwarders   *)
(* and subscribers and either store, with or without fragments of failed   *)
(* writes. StreamInv is inductive; the other results follow from it.       *)
(***************************************************************************)
EXTENDS RelayStream, FiniteSetTheorems, TLAPS

USE StreamAssumption

-----------------------------------------------------------------------------
(* Type correctness. A line in hand must be one of the log, which needs to *)
(* be known along with the types.                                          *)

LEMMA InitTyped == Init => TypeOK /\ InHand
<1> SUFFICES ASSUME Init PROVE TypeOK /\ InHand
  OBVIOUS
<1>1. /\ emitted \in 0..MaxLine
      /\ start \in [Conns -> 0..MaxLine]
      /\ pos \in [Conns -> 0..MaxLine]
      /\ got \in [Conns -> 0..MaxLine]
      /\ \A c \in Conns : start[c] <= got[c] /\ got[c] <= pos[c] /\ pos[c] <= emitted
  BY DEF Init
<1>2. /\ link \in [Conns -> {"idle", "up", "cut"}]
      /\ handler \in [Conns -> HandlerStates]
      /\ client \in [Subs -> {"out", "open", "closed"}]
  BY DEF Init, HandlerStates
<1>3. /\ todo \in [Conns -> SUBSET Subs]
      /\ backlog \in [Subs -> SUBSET Lines]
      /\ seen \in [Subs -> SUBSET Lines]
  BY DEF Init
<1>4. /\ memory \subseteq 1..emitted
      /\ disk \subseteq 1..emitted
      /\ torn \in BOOLEAN
      /\ acked \subseteq 1..emitted
      /\ fragments \in Nat
      /\ registered \subseteq Subs
      /\ stalled \subseteq {s \in Subs : client[s] = "open"}
  BY DEF Init
<1>5. InHand
  BY DEF Init, InHand
<1> QED
  BY <1>1, <1>2, <1>3, <1>4, <1>5 DEF TypeOK

LEMMA TearTyped ==
  ASSUME torn \in BOOLEAN, fragments \in Nat,
         WriteFragment \/ UNCHANGED <<torn, fragments>>
  PROVE  torn' \in BOOLEAN /\ fragments' \in Nat
<1>1. CASE WriteFragment
  <2>1. torn' \in BOOLEAN /\ (fragments' = fragments \/ fragments' = fragments + 1)
    BY <1>1 DEF WriteFragment
  <2> QED
    BY <2>1
<1> QED
  BY <1>1

LEMMA StepTyped == TypeOK /\ InHand /\ [Next]_vars => TypeOK' /\ InHand'
<1> SUFFICES ASSUME TypeOK, InHand, [Next]_vars
             PROVE  TypeOK' /\ InHand'
  OBVIOUS
<1> USE DEF TypeOK, InHand, HandlerStates, Lines, fwdVars, ingestVars, storeVars, subVars
<1>1. CASE Emit
  BY <1>1 DEF Emit
<1>2. ASSUME NEW c \in Conns, NEW mode \in Modes, Connect(c, mode)
      PROVE  TypeOK' /\ InHand'
  BY <1>2 DEF Connect, StartAt
<1>3. ASSUME NEW c \in Conns, Forward(c)
      PROVE  TypeOK' /\ InHand'
  BY <1>3 DEF Forward
<1>4. ASSUME NEW c \in Conns, Cut(c)
      PROVE  TypeOK' /\ InHand'
  BY <1>4 DEF Cut
<1>5. ASSUME NEW c \in Conns, Receive(c)
      PROVE  TypeOK' /\ InHand'
  BY <1>5 DEF Receive
<1>6. ASSUME NEW c \in Conns, Disconnect(c)
      PROVE  TypeOK' /\ InHand'
  BY <1>6 DEF Disconnect
<1>7. ASSUME NEW c \in Conns, Append(c)
      PROVE  TypeOK' /\ InHand'
  <2>1. got[c] \in 1..emitted
    BY <1>7 DEF Append
  <2>2. /\ memory' \subseteq 1..emitted /\ disk' \subseteq 1..emitted
        /\ torn' \in BOOLEAN /\ acked' \subseteq 1..emitted
    BY <1>7, <2>1 DEF Append
  <2> QED
    BY <1>7, <2>2 DEF Append
<1>8. ASSUME NEW c \in Conns, AppendFails(c)
      PROVE  TypeOK' /\ InHand'
  <2>1. got[c] \in 1..emitted
    BY <1>8 DEF AppendFails
  <2>2. /\ memory' \subseteq 1..emitted /\ disk' \subseteq 1..emitted
        /\ torn' \in BOOLEAN /\ fragments' \in Nat
    BY <1>8, <2>1, TearTyped DEF AppendFails
  <2> QED
    BY <1>8, <2>2 DEF AppendFails
<1>9. ASSUME NEW c \in Conns, ListClients(c)
      PROVE  TypeOK' /\ InHand'
  BY <1>9 DEF ListClients
<1>10. ASSUME NEW c \in Conns, NEW s \in Subs, SendLive(c, s)
       PROVE  TypeOK' /\ InHand'
  BY <1>10 DEF SendLive
<1>11. ASSUME NEW c \in Conns, NEW s \in Subs, SkipDead(c, s)
       PROVE  TypeOK' /\ InHand'
  BY <1>11 DEF SkipDead
<1>12. ASSUME NEW c \in Conns, NEW s \in Subs, AbortOnDead(c, s)
       PROVE  TypeOK' /\ InHand'
  BY <1>12 DEF AbortOnDead
<1>13. ASSUME NEW c \in Conns, BroadcastDone(c)
       PROVE  TypeOK' /\ InHand'
  BY <1>13 DEF BroadcastDone
<1>14. ASSUME NEW s \in Subs, Subscribe(s)
       PROVE  TypeOK' /\ InHand'
  BY <1>14 DEF Subscribe
<1>15. ASSUME NEW s \in Subs, HistoryStep(s)
       PROVE  TypeOK' /\ InHand'
  <2>1. CASE \E n \in Lines : SendHistory(s, n)
    BY <2>1 DEF SendHistory
  <2>2. CASE HistoryAborts(s)
    BY <2>2 DEF HistoryAborts
  <2> QED
    BY <1>15, <2>1, <2>2 DEF HistoryStep
<1>16. ASSUME NEW s \in Subs, Close(s) \/ Stall(s)
       PROVE  TypeOK' /\ InHand'
  BY <1>16 DEF Close, Stall
<1>17. CASE Restart
  <2>1. /\ link' \in [Conns -> {"idle", "up", "cut"}]
        /\ handler' \in [Conns -> HandlerStates]
        /\ todo' \in [Conns -> SUBSET Subs]
    BY <1>17 DEF Restart
  <2>2. /\ memory' \subseteq 1..emitted
        /\ torn' \in BOOLEAN /\ fragments' \in Nat
    BY <1>17, TearTyped DEF Restart
  <2>3. /\ registered' \subseteq Subs
        /\ client' \in [Subs -> {"out", "open", "closed"}]
        /\ stalled' = {}
        /\ backlog' \in [Subs -> SUBSET Lines]
    BY <1>17 DEF Restart
  <2>4. InHand'
    BY <1>17 DEF Restart
  <2> QED
    BY <1>17, <2>1, <2>2, <2>3, <2>4 DEF Restart
<1>18. CASE UNCHANGED vars
  BY <1>18 DEF vars
<1>19. QED
  BY <1>1, <1>2, <1>3, <1>4, <1>5, <1>6, <1>7, <1>8, <1>9, <1>10, <1>11, <1>12, <1>13,
     <1>14, <1>15, <1>16, <1>17, <1>18 DEF Next, IngestStep

\* Every reachable state is well typed and no handler is ahead of its forwarder,
\* no forwarder ahead of the log: relay_forward.py and ingest_socket never get
\* past what EventLogger has written.
THEOREM TypeCorrect == Spec => []TypeOK
<1>1. Spec => [](TypeOK /\ InHand)
  BY InitTyped, StepTyped, PTL DEF Spec
<1> QED
  BY <1>1, PTL

-----------------------------------------------------------------------------
(* What append has returned for.                                           *)

\* What has been acknowledged of a forwarder's lines ends in a run that began
\* where the forwarder did: acknowledged lines stay so, and a forwarder keeps
\* the place at which it began.
LEMMA RunsKept ==
  ASSUME AckedRuns, acked \subseteq acked', memory' \subseteq memory,
         \A c \in Conns : link[c] # "idle" => link'[c] # "idle" /\ start'[c] = start[c]
  PROVE  AckedRuns'
  BY DEF AckedRuns

\* The lines of a new run are those its own forwarder has had acknowledged.
LEMMA RunExtended ==
  ASSUME TypeOK, InHand, Started, Delivered, AckedRuns, acked \subseteq acked',
         NEW c \in Conns, handler[c] = "append", memory' \subseteq memory \cup {got[c]},
         start' = start, \A d \in Conns : link[d] # "idle" => link'[d] # "idle"
  PROVE  AckedRuns'
<1> SUFFICES ASSUME NEW n \in memory'
             PROVE  \E d \in Conns : /\ link'[d] # "idle"
                                     /\ start'[d] < n
                                     /\ (start'[d] + 1)..(n - 1) \subseteq acked'
  BY DEF AckedRuns
<1>1. CASE n \in memory
  BY <1>1 DEF AckedRuns
<1>2. CASE n = got[c]
  <2>1. link[c] # "idle" /\ start[c] < got[c]
    BY DEF Started, InHand
  <2>2. (start[c] + 1)..(got[c] - 1) \subseteq acked
    BY DEF Delivered, Settled
  <2> QED
    BY <1>2, <2>1, <2>2
<1> QED
  BY <1>1, <1>2

\* There are only finitely many lines, so that lost ones can be counted.
LEMMA LostFinite ==
  ASSUME TypeOK
  PROVE  /\ IsFiniteSet(acked \ disk)
         /\ Cardinality(acked \ disk) \in Nat
<1>1. IsFiniteSet(1..emitted)
  BY FS_Interval DEF TypeOK
<1>2. acked \ disk \subseteq 1..emitted
  BY DEF TypeOK
<1> QED
  BY <1>1, <1>2, FS_Subset, FS_CardinalityType

\* The line after a fragment is lost and the fragment with it; without one,
\* nothing is lost.
LEMMA AppendCost ==
  ASSUME TypeOK, FragmentCost, NEW c \in Conns, Append(c)
  PROVE  FragmentCost'
<1>1. IsFiniteSet(acked \ disk) /\ Cardinality(acked \ disk) \in Nat /\ fragments \in Nat
  BY LostFinite DEF TypeOK
<1>2. acked' = acked \cup {got[c]} /\ torn' = FALSE /\ fragments' = fragments
  BY DEF Append
<1>3. CASE torn
  <2>1. acked' \ disk' \subseteq (acked \ disk) \cup {got[c]}
    BY <1>2, <1>3 DEF Append
  <2>2. /\ IsFiniteSet((acked \ disk) \cup {got[c]})
        /\ Cardinality((acked \ disk) \cup {got[c]}) <= Cardinality(acked \ disk) + 1
    BY <1>1, FS_AddElement
  <2>3. /\ Cardinality(acked' \ disk') <= Cardinality((acked \ disk) \cup {got[c]})
        /\ Cardinality(acked' \ disk') \in Nat
        /\ Cardinality((acked \ disk) \cup {got[c]}) \in Nat
    BY <2>1, <2>2, FS_Subset, FS_CardinalityType
  <2> QED
    BY <1>1, <1>2, <1>3, <2>2, <2>3 DEF FragmentCost
<1>4. CASE ~torn
  <2>1. acked' \ disk' \subseteq acked \ disk
    BY <1>2, <1>4 DEF Append
  <2>2. /\ Cardinality(acked' \ disk') <= Cardinality(acked \ disk)
        /\ Cardinality(acked' \ disk') \in Nat
    BY <1>1, <2>1, FS_Subset, FS_CardinalityType
  <2> QED
    BY <1>1, <1>2, <1>4, <2>2 DEF FragmentCost
<1> QED
  BY <1>3, <1>4 DEF TypeOK

\* A write that is cut short pays for the line its fragment will cost.
LEMMA FailureCost ==
  ASSUME TypeOK, FragmentCost, UNCHANGED <<acked, disk>>,
         WriteFragment \/ UNCHANGED <<torn, fragments>>
  PROVE  FragmentCost'
<1>1. Cardinality(acked \ disk) \in Nat /\ fragments \in Nat /\ torn \in BOOLEAN
  BY LostFinite DEF TypeOK
<1> QED
  BY <1>1 DEF FragmentCost, WriteFragment

-----------------------------------------------------------------------------
(* The inductive invariant.                                                *)

LEMMA InitStream == Init => StreamInv
<1> SUFFICES ASSUME Init PROVE StreamInv
  OBVIOUS
<1>1. TypeOK /\ InHand
  BY InitTyped
<1>2. Started /\ Delivered /\ AckedRuns /\ disk \subseteq memory /\ fragments = 0
  BY DEF Init, Started, Delivered, AckedRuns
<1>3. FragmentCost
  <2>1. acked \ disk = {} /\ torn = FALSE /\ fragments = 0
    BY DEF Init
  <2> QED
    BY <2>1, FS_EmptySet DEF FragmentCost
<1> QED
  BY <1>1, <1>2, <1>3 DEF StreamInv

streamVars == <<link, start, got, handler, storeVars>>

\* StreamInv without the typing part and the costs, which have lemmas of their own.
Runs == Started /\ Delivered /\ disk \subseteq memory /\ AckedRuns

LEMMA StepRuns ==
  ASSUME StreamInv, [Next]_vars
  PROVE  Runs'
<1>1. TypeOK /\ InHand /\ Started /\ Delivered /\ disk \subseteq memory /\ AckedRuns
  BY DEF StreamInv
<1> USE <1>1 DEF Runs, fwdVars, ingestVars, storeVars, subVars
<1>3. CASE UNCHANGED streamVars
  BY <1>3 DEF streamVars, Started, Delivered, Settled, AckedRuns
<1>4. ASSUME NEW c \in Conns, NEW mode \in Modes, Connect(c, mode)
      PROVE  Runs'
  <2>1. AckedRuns'
    BY <1>4, RunsKept DEF Connect, TypeOK
  <2>2. Delivered'
    BY <1>4 DEF Connect, StartAt, TypeOK, Delivered, Settled
  <2> QED
    BY <1>4, <2>1, <2>2 DEF Connect, TypeOK, Started
<1>5. ASSUME NEW c \in Conns, Cut(c)
      PROVE  Runs'
  <2>1. AckedRuns'
    BY <1>5, RunsKept DEF Cut, TypeOK
  <2> QED
    BY <1>5, <2>1 DEF Cut, TypeOK, Started, Delivered, Settled
<1>6. ASSUME NEW c \in Conns,
             Receive(c) \/ Disconnect(c) \/ ListClients(c) \/ BroadcastDone(c)
      PROVE  Runs'
  <2>1. AckedRuns'
    BY <1>6, RunsKept DEF Receive, Disconnect, ListClients, BroadcastDone
  <2>2. Delivered'
    BY <1>6 DEF Receive, Disconnect, ListClients, BroadcastDone, TypeOK, Delivered, Settled
  <2> QED
    BY <1>6, <2>1, <2>2 DEF Receive, Disconnect, ListClients, BroadcastDone, TypeOK, Started
<1>7. ASSUME NEW c \in Conns, Append(c)
      PROVE  Runs'
  <2>1. AckedRuns'
    BY <1>7, RunExtended DEF Append
  <2>2. Delivered'
    BY <1>7 DEF Append, TypeOK, Delivered, Settled
  <2> QED
    BY <1>7, <2>1, <2>2 DEF Append, TypeOK, Started
<1>8. ASSUME NEW c \in Conns, AppendFails(c)
      PROVE  Runs'
  <2>1. memory' \subseteq memory \cup {got[c]} /\ memory \subseteq memory'
    BY <1>8 DEF AppendFails
  <2>2. AckedRuns'
    BY <1>8, <2>1, RunExtended DEF AppendFails, TypeOK
  <2>3. Delivered'
    BY <1>8 DEF AppendFails, TypeOK, Delivered, Settled
  <2> QED
    BY <1>8, <2>1, <2>2, <2>3 DEF AppendFails, TypeOK, Started
<1>9. ASSUME NEW c \in Conns, NEW s \in Subs, AbortOnDead(c, s)
      PROVE  Runs'
  <2>1. AckedRuns'
    BY <1>9, RunsKept DEF AbortOnDead, TypeOK
  <2> QED
    BY <1>9, <2>1 DEF AbortOnDead, TypeOK, Started, Delivered, Settled
<1>10. CASE Restart
  <2>1. \A c \in Conns : /\ link[c] = "idle" <=> link'[c] = "idle"
                         /\ handler'[c] = IF handler[c] = "none" THEN "none" ELSE "done"
    BY <1>10 DEF Restart
  <2>2. AckedRuns'
    BY <1>10, <2>1, RunsKept DEF Restart
  <2> QED
    BY <1>10, <2>1, <2>2 DEF Restart, Started, Delivered
<1>11. ASSUME NEW c \in Conns, NEW s \in Subs, SendLive(c, s) \/ SkipDead(c, s)
       PROVE  UNCHANGED streamVars
  BY <1>11 DEF SendLive, SkipDead, streamVars
<1>12. ASSUME NEW s \in Subs, Subscribe(s) \/ HistoryStep(s) \/ Close(s) \/ Stall(s)
       PROVE  UNCHANGED streamVars
  BY <1>12 DEF Subscribe, HistoryStep, SendHistory, HistoryAborts, Close, Stall, streamVars
<1>13. ASSUME Emit \/ UNCHANGED vars \/ \E c \in Conns : Forward(c)
       PROVE  UNCHANGED streamVars
  BY <1>13 DEF Emit, Forward, vars, streamVars
<1> QED
  BY <1>3, <1>4, <1>5, <1>6, <1>7, <1>8, <1>9, <1>10, <1>11, <1>12, <1>13
  DEF Next, IngestStep

\* Only append and its failures, and a crash during it, change what is counted.
LEMMA StepCost ==
  ASSUME TypeOK, FragmentCost, [Next]_vars
  PROVE  /\ FragmentCost'
         /\ (~TornWrites => fragments = 0) => (~TornWrites => fragments' = 0)
<1> USE DEF fwdVars, ingestVars, storeVars, subVars
<1>1. CASE UNCHANGED <<disk, torn, acked, fragments>>
  BY <1>1 DEF FragmentCost
<1>2. ASSUME NEW c \in Conns, Append(c)
      PROVE  FragmentCost' /\ fragments' = fragments
  BY <1>2, AppendCost DEF Append
<1>3. ASSUME Restart \/ \E c \in Conns : AppendFails(c)
      PROVE  /\ FragmentCost'
             /\ (~TornWrites => fragments = 0) => (~TornWrites => fragments' = 0)
  <2>1. /\ UNCHANGED <<acked, disk>>
        /\ WriteFragment \/ UNCHANGED <<torn, fragments>>
    BY <1>3 DEF Restart, AppendFails
  <2> QED
    BY <2>1, FailureCost DEF WriteFragment
<1>4. ASSUME NEW c \in Conns,
             \/ \E mode \in Modes : Connect(c, mode)
             \/ Forward(c) \/ Cut(c) \/ Receive(c) \/ Disconnect(c)
             \/ ListClients(c) \/ BroadcastDone(c)
             \/ \E s \in Subs : SendLive(c, s) \/ SkipDead(c, s) \/ AbortOnDead(c, s)
      PROVE  UNCHANGED <<disk, torn, acked, fragments>>
  BY <1>4 DEF Connect, Forward, Cut, Receive, Disconnect, ListClients, BroadcastDone,
              SendLive, SkipDead, AbortOnDead
<1>5. ASSUME NEW s \in Subs, Subscribe(s) \/ HistoryStep(s) \/ Close(s) \/ Stall(s)
      PROVE  UNCHANGED <<disk, torn, acked, fragments>>
  BY <1>5 DEF Subscribe, HistoryStep, SendHistory, HistoryAborts, Close, Stall
<1>6. ASSUME Emit \/ UNCHANGED vars
      PROVE  UNCHANGED <<disk, torn, acked, fragments>>
  BY <1>6 DEF Emit, vars
<1> QED
  BY <1>1, <1>2, <1>3, <1>4, <1>5, <1>6 DEF Next, IngestStep

\* StreamInv holds in every reachable state, for any log, forwarders,
\* subscribers and either store, whatever failed writes leave behind.
THEOREM StreamInvariant == Spec => []StreamInv
<1>1. StreamInv /\ [Next]_vars => StreamInv'
  BY StepTyped, StepRuns, StepCost DEF StreamInv, Runs
<1> QED
  BY <1>1, InitStream, PTL DEF Spec

\* The lines that append returned for and that cannot be read back never
\* outnumber the fragments of failed writes, one for each at most, over any
\* number of failures, connections and restarts of the relay.
THEOREM LostLinesBounded == Spec => []FragmentCost
<1>1. StreamInv => FragmentCost
  BY DEF StreamInv
<1> QED
  BY <1>1, StreamInvariant, PTL

\* A line the relay shows has every earlier line on the disk, back to where some
\* forwarder began, but for one line per fragment, in all interleavings of
\* forwarders, failures and restarts.
THEOREM RunsStored == Spec => []StoredRuns
<1>1. ASSUME StreamInv
      PROVE  StoredRuns
  <2> SUFFICES ASSUME NEW n \in memory
               PROVE  \E c \in Conns :
                         /\ link[c] # "idle"
                         /\ start[c] < n
                         /\ Cardinality(((start[c] + 1)..(n - 1)) \ disk) <= fragments
    BY DEF StoredRuns
  <2>1. TypeOK /\ FragmentCost
    BY <1>1 DEF StreamInv
  <2>2. PICK c \in Conns : /\ link[c] # "idle"
                           /\ start[c] < n
                           /\ (start[c] + 1)..(n - 1) \subseteq acked
    BY <1>1 DEF StreamInv, AckedRuns
  <2> DEFINE missing == ((start[c] + 1)..(n - 1)) \ disk
  <2>3. missing \subseteq acked \ disk
    BY <2>2
  <2>4. IsFiniteSet(acked \ disk) /\ Cardinality(acked \ disk) \in Nat
    BY <2>1, LostFinite
  <2>5. Cardinality(missing) \in Nat /\ Cardinality(missing) <= Cardinality(acked \ disk)
    BY <2>3, <2>4, FS_Subset, FS_CardinalityType
  <2>6. Cardinality(acked \ disk) <= fragments
    BY <2>1, <2>4 DEF FragmentCost, TypeOK
  <2>7. fragments \in Nat
    BY <2>1 DEF TypeOK
  <2>8. Cardinality(missing) <= fragments
    BY <2>4, <2>5, <2>6, <2>7
  <2> QED
    BY <2>2, <2>8
<1> QED
  BY <1>1, StreamInvariant, PTL

\* Without fragments, nothing that append has returned for is lost.
LEMMA NothingLost ==
  ASSUME TornWrites = FALSE, StreamInv
  PROVE  torn = FALSE /\ acked \subseteq disk
<1>1. /\ IsFiniteSet(acked \ disk) /\ Cardinality(acked \ disk) \in Nat
      /\ torn \in BOOLEAN /\ fragments = 0
      /\ Cardinality(acked \ disk) + (IF torn THEN 1 ELSE 0) <= fragments
  BY LostFinite DEF StreamInv, TypeOK, FragmentCost
<1>2. torn = FALSE /\ Cardinality(acked \ disk) = 0
  BY <1>1
<1>3. acked \ disk = {}
  BY <1>1, <1>2, FS_EmptySet
<1> QED
  BY <1>2, <1>3

-----------------------------------------------------------------------------
(* Forwarders that replay the log.                                         *)

\* A forwarder that replays has begun at the first line.
FromTheFirst == \A c \in Conns : start[c] = 0

LEMMA ReplaysFromTheFirst ==
  ASSUME Modes = {"replay"}, FromTheFirst, [Next]_vars
  PROVE  FromTheFirst'
<1> USE DEF fwdVars, ingestVars, storeVars, subVars, FromTheFirst
<1>1. ASSUME NEW c \in Conns, NEW mode \in Modes, Connect(c, mode)
      PROVE  FromTheFirst'
  BY <1>1 DEF Connect, StartAt
<1>2. ASSUME NEW c \in Conns, Forward(c) \/ Cut(c) \/ IngestStep(c)
      PROVE  UNCHANGED start
  BY <1>2 DEF Forward, Cut, IngestStep, Receive, Disconnect, Append, AppendFails,
              ListClients, SendLive, SkipDead, AbortOnDead, BroadcastDone
<1>3. ASSUME NEW s \in Subs, Subscribe(s) \/ HistoryStep(s) \/ Close(s) \/ Stall(s)
      PROVE  UNCHANGED start
  BY <1>3 DEF Subscribe, HistoryStep, SendHistory, HistoryAborts, Close, Stall
<1>4. CASE Emit \/ Restart \/ UNCHANGED vars
  BY <1>4 DEF Emit, Restart, vars
<1> QED
  BY <1>1, <1>2, <1>3, <1>4 DEF Next

LEMMA RunsFromTheFirst ==
  ASSUME TornWrites = FALSE, StreamInv, FromTheFirst
  PROVE  NoGaps /\ \A n \in memory : 1..(n - 1) \subseteq disk
<1>1. /\ disk \subseteq memory /\ memory \subseteq 1..emitted /\ emitted \in Nat
      /\ acked \subseteq disk
  <2>1. acked \subseteq disk
    BY NothingLost
  <2> QED
    BY <2>1 DEF StreamInv, TypeOK
<1>2. \A n \in memory : 1..(n - 1) \subseteq disk
  BY <1>1 DEF StreamInv, AckedRuns, FromTheFirst
<1>3. ASSUME NEW n \in memory
      PROVE  1..n \subseteq memory /\ (n \in disk => 1..n \subseteq disk)
  <2>1. n \in Nat /\ \A m \in 1..n : m = n \/ m \in 1..(n - 1)
    BY <1>1
  <2> QED
    BY <1>1, <1>2, <2>1
<1> QED
  BY <1>1, <1>2, <1>3 DEF NoGaps

\* What the relay stores and shows of a run are prefixes of the run's log when
\* every forwarder replays the log: however many are started, wherever their
\* connections break, and whichever writes fail.
THEOREM PrefixStored ==
  ASSUME TornWrites = FALSE, Modes = {"replay"}
  PROVE  Spec => []NoGaps
<1>1. Init => FromTheFirst
  BY DEF Init, FromTheFirst
<1>2. FromTheFirst /\ [Next]_vars => FromTheFirst'
  BY ReplaysFromTheFirst
<1>3. Spec => []FromTheFirst
  BY <1>1, <1>2, PTL DEF Spec
<1>4. StreamInv /\ FromTheFirst => NoGaps
  BY RunsFromTheFirst
<1> QED
  BY <1>3, <1>4, StreamInvariant, PTL

-----------------------------------------------------------------------------
(* Subscribers. Fragments in the file make no difference to them.          *)

LEMMA StepStarted ==
  ASSUME TypeOK, Started, [Next]_vars
  PROVE  Started'
<1> USE DEF fwdVars, ingestVars, storeVars, subVars, TypeOK, Started
<1>1. CASE UNCHANGED <<link, handler>>
  BY <1>1
<1>2. ASSUME NEW c \in Conns, NEW mode \in Modes, Connect(c, mode)
      PROVE  Started'
  BY <1>2 DEF Connect
<1>3. ASSUME NEW c \in Conns, Cut(c) \/ AppendFails(c)
      PROVE  Started'
  BY <1>3 DEF Cut, AppendFails
<1>4. ASSUME NEW c \in Conns, Receive(c) \/ Disconnect(c) \/ Append(c) \/ ListClients(c) \/ BroadcastDone(c)
      PROVE  Started'
  BY <1>4 DEF Receive, Disconnect, Append, ListClients, BroadcastDone
<1>5. ASSUME NEW c \in Conns, NEW s \in Subs, AbortOnDead(c, s)
      PROVE  Started'
  BY <1>5 DEF AbortOnDead
<1>6. CASE Restart
  BY <1>6 DEF Restart
<1>7. ASSUME NEW c \in Conns, NEW s \in Subs, SendLive(c, s) \/ SkipDead(c, s)
      PROVE  UNCHANGED <<link, handler>>
  BY <1>7 DEF SendLive, SkipDead
<1>8. ASSUME NEW s \in Subs, Subscribe(s) \/ HistoryStep(s) \/ Close(s) \/ Stall(s)
      PROVE  UNCHANGED <<link, handler>>
  BY <1>8 DEF Subscribe, HistoryStep, SendHistory, HistoryAborts, Close, Stall
<1>9. ASSUME Emit \/ UNCHANGED vars \/ \E c \in Conns : Forward(c)
      PROVE  UNCHANGED <<link, handler>>
  BY <1>9 DEF Emit, Forward, vars
<1> QED
  BY <1>1, <1>2, <1>3, <1>4, <1>5, <1>6, <1>7, <1>8, <1>9 DEF Next, IngestStep

\* Line n has reached s or will: SubscriberComplete for one line.
Coming(s, n) == \E c \in Conns : /\ got[c] = n
                                 /\ \/ handler[c] = "cast"
                                    \/ handler[c] = "send" /\ s \in todo[c]

Covered(s, n) == n \in seen[s] \/ n \in backlog[s] \/ Coming(s, n)

\* Why SubscriberComplete holds: a connected client is registered, so that a
\* broadcast that lists the clients includes it, and the history it is given
\* covers what is stored by then.
Served ==
    /\ disk \subseteq memory
    /\ \A s \in Subs : client[s] = "open" =>
           s \in registered /\ \A n \in disk : Covered(s, n)

LEMMA ServedSuffices == Served => SubscriberComplete
  BY DEF Served, SubscriberComplete, Covered, Coming, OnItsWay

LEMMA StepServed ==
  ASSUME DeadSendRaises = FALSE, TypeOK, Started, Served, [Next]_vars
  PROVE  Served'
<1> USE DEF fwdVars, ingestVars, storeVars, subVars, Served, Covered, Coming
<1>1. CASE UNCHANGED <<ingestVars, storeVars, subVars>>
  BY <1>1
<1>2. ASSUME NEW c \in Conns, NEW mode \in Modes, Connect(c, mode)
      PROVE  Served'
  BY <1>2 DEF Connect, TypeOK, Started
<1>3. ASSUME NEW c \in Conns, Receive(c)
      PROVE  Served'
  BY <1>3 DEF Receive, TypeOK
<1>4. ASSUME NEW c \in Conns, Disconnect(c)
      PROVE  Served'
  BY <1>4 DEF Disconnect, TypeOK
<1>5. ASSUME NEW c \in Conns, Append(c)
      PROVE  Served'
  <2>1. /\ handler[c] = "append" /\ handler'[c] = "cast" /\ got' = got /\ todo' = todo
        /\ disk' \subseteq disk \cup {got[c]} /\ memory' = memory \cup {got[c]}
        /\ \A d \in Conns : d # c => handler'[d] = handler[d]
        /\ UNCHANGED subVars
    BY <1>5 DEF Append, TypeOK
  <2>2. ASSUME NEW s \in Subs, NEW n \in disk, Covered(s, n)
        PROVE  Covered(s, n)'
    BY <2>1, <2>2
  <2>3. ASSUME NEW s \in Subs
        PROVE  Covered(s, got[c])'
    BY <2>1
  <2> QED
    BY <2>1, <2>2, <2>3
<1>6. ASSUME NEW c \in Conns, AppendFails(c)
      PROVE  Served'
  BY <1>6 DEF AppendFails, TypeOK
<1>7. ASSUME NEW c \in Conns, ListClients(c)
      PROVE  Served'
  BY <1>7 DEF ListClients, TypeOK
<1>8. ASSUME NEW c \in Conns, NEW s \in Subs, SendLive(c, s)
      PROVE  Served'
  <2>1. /\ disk' = disk /\ memory' = memory /\ got' = got /\ handler' = handler
        /\ client' = client /\ registered' = registered /\ backlog' = backlog
        /\ seen'[s] = seen[s] \cup {got[c]} /\ todo'[c] = todo[c] \ {s}
        /\ \A t \in Subs : t # s => seen'[t] = seen[t]
        /\ \A d \in Conns : d # c => todo'[d] = todo[d]
    BY <1>8 DEF SendLive, TypeOK
  <2>2. ASSUME NEW t \in Subs, NEW n \in disk, Covered(t, n)
        PROVE  Covered(t, n)'
    BY <2>1, <2>2
  <2> QED
    BY <2>1, <2>2
<1>9. ASSUME NEW c \in Conns, NEW s \in Subs, SkipDead(c, s)
      PROVE  Served'
  BY <1>9 DEF SkipDead, TypeOK
<1>10. ASSUME NEW c \in Conns, NEW s \in Subs, AbortOnDead(c, s)
       PROVE  Served'
  BY <1>10 DEF AbortOnDead
<1>11. ASSUME NEW c \in Conns, BroadcastDone(c)
       PROVE  Served'
  BY <1>11 DEF BroadcastDone, TypeOK
<1>12. ASSUME NEW s \in Subs, Subscribe(s)
       PROVE  Served'
  BY <1>12 DEF Subscribe, TypeOK
<1>13. ASSUME NEW s \in Subs, NEW n \in Lines, SendHistory(s, n)
       PROVE  Served'
  BY <1>13 DEF SendHistory, TypeOK
<1>14. ASSUME NEW s \in Subs, HistoryAborts(s)
       PROVE  Served'
  BY <1>14 DEF HistoryAborts, TypeOK
<1>15. ASSUME NEW s \in Subs, Close(s)
       PROVE  Served'
  BY <1>15 DEF Close, TypeOK
<1>16. ASSUME NEW s \in Subs, Stall(s)
       PROVE  Served'
  BY <1>16 DEF Stall
<1>17. CASE Restart
  BY <1>17 DEF Restart, TypeOK
<1>18. ASSUME Emit \/ UNCHANGED vars \/ \E c \in Conns : Forward(c) \/ Cut(c)
       PROVE  UNCHANGED <<ingestVars, storeVars, subVars>>
  BY <1>18 DEF Emit, Forward, Cut, vars
<1> QED
  BY <1>1, <1>2, <1>3, <1>4, <1>5, <1>6, <1>7, <1>8, <1>9, <1>10, <1>11, <1>12, <1>13,
     <1>14, <1>15, <1>16, <1>17, <1>18 DEF Next, IngestStep, HistoryStep

\* A connected subscriber misses no stored line, whenever it connects and
\* whatever other connections and subscribers do, in a build in which sending to
\* a closed websocket raises nothing but RuntimeError.
THEOREM SubscribersServed ==
  ASSUME DeadSendRaises = FALSE
  PROVE  Spec => []SubscriberComplete
<1>1. Init => TypeOK /\ InHand /\ Started /\ Served
  BY InitTyped DEF Init, Started, Served
<1>2. TypeOK /\ InHand /\ Started /\ Served /\ [Next]_vars
        => TypeOK' /\ InHand' /\ Started' /\ Served'
  BY StepTyped, StepStarted, StepServed
<1>3. Served => SubscriberComplete
  BY ServedSuffices
<1> QED
  BY <1>1, <1>2, <1>3, PTL DEF Spec

-----------------------------------------------------------------------------
(* The abstract feed.                                                      *)

\* Every step of the stream is a step of the feed or leaves the feed alone: a
\* line is only taken in when all earlier ones are durable.
LEMMA StepFeed ==
  ASSUME TornWrites = FALSE, StreamInv, FromTheFirst, [Next]_vars
  PROVE  [Feed!Next]_(Feed!vars)
<1> USE DEF fwdVars, ingestVars, storeVars, subVars
<1>1. CASE UNCHANGED <<emitted, memory, disk>>
  BY <1>1 DEF Feed!vars
<1>2. CASE Emit
  BY <1>2 DEF Emit, Feed!Next, Feed!Emit
<1>3. ASSUME NEW c \in Conns, Append(c) \/ AppendFails(c)
      PROVE  Feed!Next
  <2>1. 1..(got[c] - 1) \subseteq disk /\ got[c] \in 1..emitted /\ disk \subseteq memory /\ torn = FALSE
    <3>1. handler[c] = "append"
      BY <1>3 DEF Append, AppendFails
    <3>2. torn = FALSE /\ acked \subseteq disk
      BY NothingLost
    <3>3. 1..(got[c] - 1) \subseteq acked
      BY <3>1 DEF StreamInv, Delivered, FromTheFirst, Settled
    <3> QED
      BY <3>1, <3>2, <3>3 DEF StreamInv, InHand, TypeOK, FromTheFirst
  <2>2. CASE Append(c)
    <3>1. /\ memory' = memory \cup {got[c]} /\ disk' = disk \cup {got[c]}
          /\ emitted' = emitted
      BY <2>1, <2>2 DEF Append
    <3> QED
      BY <2>1, <3>1 DEF Feed!Next, Feed!TakeIn
  <2>3. CASE AppendFails(c)
    <3>1. /\ memory' \in {memory, memory \cup {got[c]}} /\ disk' = disk
          /\ emitted' = emitted
      BY <2>1, <2>3 DEF AppendFails
    <3> QED
      BY <2>1, <3>1 DEF Feed!Next, Feed!TakeIn
  <2> QED
    BY <1>3, <2>2, <2>3
<1>4. CASE Restart
  BY <1>4 DEF Restart, Feed!Next, Feed!Restart
<1>5. ASSUME NEW c \in Conns,
             \/ \E mode \in Modes : Connect(c, mode)
             \/ Forward(c) \/ Cut(c) \/ Receive(c) \/ Disconnect(c)
             \/ ListClients(c) \/ BroadcastDone(c)
             \/ \E s \in Subs : SendLive(c, s) \/ SkipDead(c, s) \/ AbortOnDead(c, s)
      PROVE  UNCHANGED <<emitted, memory, disk>>
  BY <1>5 DEF Connect, Forward, Cut, Receive, Disconnect, ListClients, BroadcastDone,
              SendLive, SkipDead, AbortOnDead
<1>6. ASSUME NEW s \in Subs, Subscribe(s) \/ HistoryStep(s) \/ Close(s) \/ Stall(s)
      PROVE  UNCHANGED <<emitted, memory, disk>>
  BY <1>6 DEF Subscribe, HistoryStep, SendHistory, HistoryAborts, Close, Stall
<1>7. CASE UNCHANGED vars
  BY <1>7 DEF vars, Feed!vars
<1> QED
  BY <1>1, <1>2, <1>3, <1>4, <1>5, <1>6, <1>7 DEF Next, IngestStep

\* The run's stream as readers of the relay see it implements EventFeed: with
\* forwarders that replay the log and no fragments, every reader sees a prefix
\* of the log that only a restart of the relay can shorten.
THEOREM StreamImplementsFeed ==
  ASSUME TornWrites = FALSE, Modes = {"replay"}
  PROVE  Spec => FeedSpec
<1>1. Init => Feed!Init /\ FromTheFirst
  BY DEF Init, Feed!Init, FromTheFirst
<1>2. FromTheFirst /\ [Next]_vars => FromTheFirst'
  BY ReplaysFromTheFirst
<1>3. StreamInv /\ FromTheFirst /\ [Next]_vars => [Feed!Next]_(Feed!vars)
  BY StepFeed
<1> QED
  BY <1>1, <1>2, <1>3, StreamInvariant, PTL DEF Spec, FeedSpec, Feed!Spec
=============================================================================

-------------------------- MODULE RunEventLogProofs --------------------------
(***************************************************************************)
(* Theorems about RunEventLog, for any number of attempts and of progress  *)
(* events: the log is one chain in every state, and a log that passes the  *)
(* chain check against a capsule is, up to the statement, the log of the   *)
(* attempt that wrote it.                                                  *)
(***************************************************************************)
EXTENDS RunEventLog, FiniteSetTheorems, SequenceTheorems, TLAPS

\* The first n lines are a chain.
ChainTo(lines, n) ==
  \A i \in 1..n :
      /\ lines[i] \in LogLine
      /\ lines[i].prev = PrevOf(lines, i)
      /\ lines[i].hash = Hash(PrevOf(lines, i), lines[i].base)

\* A hash is that of a statement line of the log.
StatementAt(h) ==
  /\ Len(h) \in 1..seq
  /\ log[Len(h)].hash = h
  /\ log[Len(h)].base.type = "statement_locked"

LogInv ==
  /\ step # "idle" => attempt > 0
  /\ Len(log) > seq => step = "failed" /\ log[seq + 1] = Torn
  /\ ChainTo(log, seq)
  /\ lastHash = PrevOf(log, seq + 1)
  /\ \A i \in 1..seq : log[i].base.seq = i /\ log[i].base.attempt = attempt

\* The anchor in memory, from the statement to the capsule.
AnchorInv ==
  /\ step \in {"prove", "check", "assemble", "challenge", "write"} => StatementAt(head)
  /\ step \in {"challenge", "write"} => logHash = log

\* The capsule on disk. It is bound to the log only as long as that is the log of
\* the attempt that wrote it.
CapsuleInv ==
  capsule # NoCapsule =>
      /\ ChainOk(capsule.logHash, capsule.head)
      /\ capsule.head # <<>> /\ capsule.head[1].attempt = capsule.attempt
      /\ capsule.attempt = attempt =>
             StatementAt(capsule.head) /\ IsPrefix(capsule.logHash, log)

IInv == TypeOK /\ LogInv /\ AnchorInv /\ CapsuleInv

-----------------------------------------------------------------------------
(* Chains.                                                                 *)

LEMMA LineIsNotTorn ==
  ASSUME NEW line \in LogLine
  PROVE  line # Torn
BY DEF LogLine, Torn

\* The hash of a line covers the events up to it, each at its place.
LEMMA HashCoversEvents ==
  ASSUME NEW lines, NEW n \in Nat, ChainTo(lines, n)
  PROVE  \A i \in 1..n : /\ Len(lines[i].hash) = i
                         /\ \A j \in 1..i : lines[i].hash[j] = lines[j].base
<1> DEFINE Covers(i) == /\ Len(lines[i].hash) = i
                        /\ \A j \in 1..i : lines[i].hash[j] = lines[j].base
           S == {i \in Nat : i \in 1..n => Covers(i)}
<1>1. 0 \in S
  OBVIOUS
<1>2. ASSUME NEW i \in Nat, i \in S
      PROVE  i + 1 \in S
  <2> SUFFICES ASSUME i + 1 \in 1..n PROVE Covers(i + 1)
    OBVIOUS
  <2>1. /\ lines[i + 1] \in LogLine
        /\ lines[i + 1].hash = Append(PrevOf(lines, i + 1), lines[i + 1].base)
    BY DEF ChainTo, Hash
  <2>2. lines[i + 1].base \in Base
    BY <2>1 DEF LogLine
  <2>3. CASE i = 0
    <3>1. PrevOf(lines, i + 1) = <<>>
      BY <2>3 DEF PrevOf, ZeroHash
    <3> QED BY <2>1, <2>2, <2>3, <3>1
  <2>4. CASE i # 0
    <3>1. i \in 1..n /\ Covers(i)
      BY <1>2, <2>4
    <3>2. PrevOf(lines, i + 1) = lines[i].hash
      BY <2>4 DEF PrevOf
    <3>3. lines[i].hash \in Seq(Base)
      BY <3>1 DEF ChainTo, LogLine
    <3>4. /\ Len(lines[i + 1].hash) = i + 1
          /\ lines[i + 1].hash[i + 1] = lines[i + 1].base
          /\ \A j \in 1..i : lines[i + 1].hash[j] = lines[i].hash[j]
      BY <2>1, <2>2, <3>1, <3>2, <3>3, AppendProperties
    <3> QED BY <3>1, <3>4
  <2> QED BY <2>3, <2>4
<1>3. Nat \subseteq S
  <2> HIDE DEF S
  <2> SUFFICES ASSUME Nat \ S # {} PROVE FALSE
    OBVIOUS
  <2>1. PICK x \in Nat \ S : \A y \in Nat \ S : <<y, x>> \notin OpToRel(<, Nat)
    BY NatLessThanWellFounded, WFMin
  <2>2. x # 0 /\ x - 1 \in Nat /\ x - 1 < x
    BY <1>1
  <2>3. x - 1 \in S
    BY <2>1, <2>2 DEF OpToRel
  <2> QED BY <1>2, <2>2, <2>3
<1> QED BY <1>3

\* Two chains of the same events are the same lines.
LEMMA SameEventsSameLines ==
  ASSUME NEW a, NEW b, NEW n \in Nat, ChainTo(a, n), ChainTo(b, n),
         \A i \in 1..n : a[i].base = b[i].base
  PROVE  \A i \in 1..n : a[i] = b[i]
<1>1. ASSUME NEW i \in 1..n
      PROVE  a[i].hash = b[i].hash
  <2>1. a[i].hash \in Seq(Base) /\ b[i].hash \in Seq(Base)
    BY DEF ChainTo, LogLine
  <2>2. \A j \in 1..i : a[i].hash[j] = b[i].hash[j]
    <3>1. \A j \in 1..i : j \in 1..n
      OBVIOUS
    <3> QED BY <3>1, HashCoversEvents
  <2>3. Len(a[i].hash) = i /\ Len(b[i].hash) = i
    BY HashCoversEvents
  <2> QED BY <2>1, <2>2, <2>3, SeqEqual
<1>2. ASSUME NEW i \in 1..n
      PROVE  a[i].prev = b[i].prev
  <2>1. a[i].prev = PrevOf(a, i) /\ b[i].prev = PrevOf(b, i)
    BY DEF ChainTo
  <2>2. PrevOf(a, i) = PrevOf(b, i)
    <3>1. CASE i = 1
      BY <3>1 DEF PrevOf
    <3>2. CASE i # 1
      BY <1>1, <3>2, i - 1 \in 1..n DEF PrevOf
    <3> QED BY <3>1, <3>2
  <2> QED BY <2>1, <2>2
<1>3. \A i \in 1..n : a[i] \in LogLine /\ b[i] \in LogLine
  BY DEF ChainTo
<1>4. \A line \in LogLine :
          line = [base |-> line.base, prev |-> line.prev, hash |-> line.hash]
  BY DEF LogLine
<1> SUFFICES ASSUME NEW i \in 1..n PROVE a[i] = b[i]
  OBVIOUS
<1>5. a[i].base = b[i].base /\ a[i].prev = b[i].prev /\ a[i].hash = b[i].hash
  BY <1>1, <1>2
<1> QED BY <1>3, <1>4, <1>5

LEMMA CheckedIsChain ==
  ASSUME NEW lines \in LogFile, NEW anchor, ChainOk(lines, anchor)
  PROVE  /\ Len(lines) \in Nat
         /\ ChainTo(lines, Len(lines))
         /\ Len(anchor) \in 1..Len(lines)
         /\ lines[Len(anchor)].hash = anchor
         /\ \A j \in 1..Len(anchor) : anchor[j] = lines[j].base
<1>1. Len(lines) \in Nat /\ DOMAIN lines = 1..Len(lines)
      /\ \A i \in 1..Len(lines) : lines[i] \in LogLine \cup {Torn}
  BY DEF LogFile
<1>2. ChainTo(lines, Len(lines))
  <2>1. \A i \in 1..Len(lines) :
            /\ lines[i] # Torn
            /\ lines[i].prev = PrevOf(lines, i)
            /\ lines[i].hash = Hash(PrevOf(lines, i), lines[i].base)
    BY <1>1 DEF ChainOk
  <2> QED BY <1>1, <2>1 DEF ChainTo
<1>3. PICK i \in 1..Len(lines) : lines[i].hash = anchor
  BY <1>1 DEF ChainOk
<1>4. Len(anchor) = i /\ \A j \in 1..i : anchor[j] = lines[j].base
  BY <1>1, <1>2, <1>3, HashCoversEvents
<1> QED BY <1>1, <1>2, <1>3, <1>4

\* The check passes for a chain that has the anchor among its hashes.
LEMMA ChainIsChecked ==
  ASSUME NEW lines \in LogFile, ChainTo(lines, Len(lines)),
         NEW k \in 1..Len(lines)
  PROVE  ChainOk(lines, lines[k].hash)
<1>1. DOMAIN lines = 1..Len(lines)
  BY DEF LogFile
<1> QED BY <1>1, LineIsNotTorn DEF ChainOk, ChainTo

-----------------------------------------------------------------------------
(* What is done to the log.                                                *)

LEMMA EmitsOneLine ==
  ASSUME TypeOK, LogInv, step # "idle", step # "failed",
         NEW type \in EventTypes, Emit(type), attempt' = attempt
  PROVE  /\ log' \in LogFile /\ seq' = seq + 1 /\ Len(log) = seq
         /\ Len(log') = seq'
         /\ \A i \in 1..seq : log'[i] = log[i]
         /\ log'[seq'] \in LogLine
         /\ log'[seq'].base = [attempt |-> attempt, seq |-> seq', type |-> type]
         /\ log'[seq'].prev = lastHash
         /\ log'[seq'].hash = Hash(lastHash, log'[seq'].base)
         /\ lastHash' = log'[seq'].hash
         /\ lastHash' \in Seq(Base)
<1>1. /\ attempt \in 1..MaxAttempt /\ seq \in Nat /\ log \in LogFile
      /\ Len(log) = seq /\ lastHash \in Seq(Base)
  BY LogAssumption DEF TypeOK, LogInv
<1>2. PICK base : base = [attempt |-> attempt, seq |-> seq', type |-> type]
  OBVIOUS
<1>3. PICK line : line = [base |-> base, prev |-> lastHash, hash |-> Hash(lastHash, base)]
  OBVIOUS
<1>4. seq' = seq + 1 /\ log' = Append(log, line) /\ lastHash' = line.hash
  BY <1>2, <1>3 DEF Emit, Line
<1>5. base \in Base
  BY <1>1, <1>2, <1>4 DEF Base
<1>6. Hash(lastHash, base) \in Seq(Base)
  BY <1>1, <1>5, AppendProperties DEF Hash
<1>7. line \in LogLine
  BY <1>1, <1>3, <1>5, <1>6 DEF LogLine
<1>8. /\ log' \in LogFile /\ Len(log') = seq + 1 /\ log'[seq + 1] = line
      /\ \A i \in 1..seq : log'[i] = log[i]
  BY <1>1, <1>4, <1>7, AppendProperties DEF LogFile
<1> QED BY <1>1, <1>2, <1>3, <1>4, <1>6, <1>7, <1>8

\* The lines that are there stay where they are.
Kept == /\ Len(log') >= Len(log)
        /\ \A i \in 1..Len(log) : log'[i] = log[i]

LEMMA KeptPrefix ==
  ASSUME log \in LogFile, log' \in LogFile, Kept, NEW s \in LogFile, IsPrefix(s, log)
  PROVE  IsPrefix(s, log')
<1>1. Len(s) \in Nat /\ Len(log) \in Nat /\ Len(log') \in Nat
  BY LenProperties DEF LogFile
<1>2. Len(s) <= Len(log) /\ SubSeq(s, 1, Len(s)) = SubSeq(log, 1, Len(s))
  BY DEF IsPrefix
<1>3. \A i \in 1..Len(s) : log[i] \in LogLine \cup {Torn} /\ log'[i] = log[i]
  BY <1>1, <1>2 DEF LogFile, Kept
<1>4. SubSeq(log, 1, Len(s)) = SubSeq(log', 1, Len(s))
  BY <1>1, <1>3, SubSeqProperties, SeqEqual
<1> QED BY <1>1, <1>2, <1>4 DEF IsPrefix, Kept

\* A hash of a statement line stays one as the log grows.
LEMMA KeptStatement ==
  ASSUME seq \in Nat, seq <= Len(log), Len(log) \in Nat, Kept,
         seq' \in Nat, seq <= seq', NEW h, StatementAt(h)
  PROVE  StatementAt(h)'
BY DEF StatementAt, Kept

LEMMA KeptCapsule ==
  ASSUME TypeOK, log' \in LogFile, Kept, seq' \in Nat, seq <= seq',
         CapsuleInv, UNCHANGED <<attempt, capsule>>
  PROVE  CapsuleInv'
<1> SUFFICES ASSUME capsule # NoCapsule, capsule.attempt = attempt
             PROVE  StatementAt(capsule.head)' /\ IsPrefix(capsule.logHash, log')
  BY DEF CapsuleInv
<1>1. /\ StatementAt(capsule.head) /\ IsPrefix(capsule.logHash, log)
      /\ log \in LogFile /\ capsule.logHash \in LogFile
      /\ seq \in Nat /\ Len(log) \in Nat /\ seq <= Len(log)
  BY DEF CapsuleInv, TypeOK
<1> QED BY <1>1, KeptPrefix, KeptStatement

LEMMA EmitKeeps ==
  ASSUME TypeOK, LogInv, CapsuleInv, step # "idle", step # "failed",
         step' \notin {"idle", "failed"},
         NEW type \in EventTypes, Emit(type), UNCHANGED <<attempt, capsule>>
  PROVE  /\ LogInv' /\ CapsuleInv' /\ Kept
         /\ type = "statement_locked" => StatementAt(lastHash)'
<1>1. /\ log \in LogFile /\ seq \in Nat /\ attempt \in Nat
      /\ Len(lastHash') \in Nat
  BY LenProperties, EmitsOneLine DEF TypeOK
<1> DEFINE n == seq + 1
<1>2. /\ log' \in LogFile /\ seq' = n /\ Len(log) = seq
      /\ Len(log') = n
      /\ \A i \in 1..seq : log'[i] = log[i]
      /\ log'[n] \in LogLine
      /\ log'[n].base = [attempt |-> attempt, seq |-> n, type |-> type]
      /\ log'[n].prev = lastHash
      /\ log'[n].hash = Hash(lastHash, log'[n].base)
      /\ lastHash' = log'[n].hash
  BY EmitsOneLine
<1>3. n \in Nat \ {0} /\ n # 1 => seq \in 1..seq /\ PrevOf(log', n) = log[seq].hash
  BY <1>1, <1>2 DEF PrevOf
<1>4. PrevOf(log', n) = lastHash
  BY <1>1, <1>2 DEF PrevOf, LogInv
<1>5. ChainTo(log', n)
  <2> SUFFICES ASSUME NEW i \in 1..n
               PROVE  /\ log'[i] \in LogLine
                      /\ log'[i].prev = PrevOf(log', i)
                      /\ log'[i].hash = Hash(PrevOf(log', i), log'[i].base)
    BY DEF ChainTo
  <2>1. CASE i = n
    BY <1>2, <1>4, <2>1
  <2>2. CASE i # n
    <3>1. i \in 1..seq
      BY <1>1, <2>2
    <3>2. PrevOf(log', i) = PrevOf(log, i)
      BY <1>1, <1>2, <3>1 DEF PrevOf
    <3> QED BY <1>2, <3>1, <3>2 DEF LogInv, ChainTo
  <2> QED BY <2>1, <2>2
<1>6. lastHash' = PrevOf(log', n + 1)
  BY <1>1, <1>2 DEF PrevOf
<1>7. \A i \in 1..n : log'[i].base.seq = i /\ log'[i].base.attempt = attempt
  BY <1>1, <1>2 DEF LogInv
<1>8. LogInv'
  BY <1>1, <1>2, <1>5, <1>6, <1>7 DEF LogInv
<1>9. Kept
  BY <1>1, <1>2 DEF Kept
<1>10. CapsuleInv'
  BY <1>1, <1>2, <1>9, KeptCapsule
<1>11. Len(lastHash') = n
  BY <1>1, <1>2, <1>5, HashCoversEvents
<1>12. StatementAt(lastHash)' <=> log'[n].base.type = "statement_locked"
  BY <1>1, <1>2, <1>11 DEF StatementAt
<1> QED BY <1>2, <1>8, <1>9, <1>10, <1>12

\* A torn last line leaves the chain alone.
LEMMA TearKeeps ==
  ASSUME TypeOK, LogInv, CapsuleInv, step \notin {"idle", "failed"}, step' = "failed",
         log' \in {log, Append(log, Torn)}, UNCHANGED <<attempt, seq, lastHash, capsule>>
  PROVE  LogInv' /\ CapsuleInv' /\ log' \in LogFile /\ Len(log') \in {seq, seq + 1}
<1>1. log \in LogFile /\ seq \in Nat /\ Len(log) = seq /\ attempt > 0
  BY DEF TypeOK, LogInv
<1>2. CASE log' = log
  <2>1. Kept
    BY <1>1, <1>2 DEF Kept
  <2> QED BY <1>1, <1>2, <2>1, KeptCapsule DEF LogInv
<1>3. CASE log' = Append(log, Torn)
  <2>1. /\ log' \in LogFile /\ Len(log') = seq + 1 /\ log'[seq + 1] = Torn
        /\ \A i \in 1..seq : log'[i] = log[i]
    BY <1>1, <1>3, AppendProperties DEF LogFile
  <2>2. Kept
    BY <1>1, <2>1 DEF Kept
  <2>3. ChainTo(log', seq)
    BY <1>1, <2>1 DEF LogInv, ChainTo, PrevOf
  <2>4. PrevOf(log', seq + 1) = PrevOf(log, seq + 1)
    BY <1>1, <2>1 DEF PrevOf
  <2> QED BY <1>1, <2>1, <2>2, <2>3, <2>4, KeptCapsule DEF LogInv
<1> QED BY <1>2, <1>3

-----------------------------------------------------------------------------
(* The steps.                                                              *)

LEMMA IInitialized == Init => IInv
<1> SUFFICES ASSUME Init PROVE IInv
  OBVIOUS
<1> USE DEF Init
<1>1. TypeOK
  BY LogAssumption DEF TypeOK, Steps, ZeroHash, LogFile, NoCapsule
<1>2. LogInv
  BY DEF LogInv, ChainTo, PrevOf
<1>3. AnchorInv /\ CapsuleInv
  BY DEF AnchorInv, CapsuleInv
<1> QED BY <1>1, <1>2, <1>3 DEF IInv

\* A step that emits one event and nothing else.
LEMMA EmitAtKeeps ==
  ASSUME IInv, NEW type \in EventTypes, NEW to \in Steps \ {"idle", "failed"},
         Emit(type), step \notin {"idle", "failed"}, step' = to,
         UNCHANGED <<attempt, head, logHash, capsule>>, progress' \in 0..MaxProgress,
         to \in {"challenge", "write"} => FALSE,
         to \in {"prove", "check", "assemble"} => step = "prove"
  PROVE  IInv'
<1>1. /\ log' \in LogFile /\ seq' = seq + 1 /\ Len(log') = seq'
      /\ lastHash' \in Seq(Base) /\ Len(log) = seq
  BY EmitsOneLine DEF IInv
<1>2. TypeOK'
  BY <1>1 DEF IInv, TypeOK
<1>3. LogInv' /\ CapsuleInv' /\ Kept
  BY EmitKeeps DEF IInv
<1>4. AnchorInv'
  <2>1. StatementAt(head) => StatementAt(head)'
    BY <1>1, <1>2, <1>3, KeptStatement DEF IInv, TypeOK
  <2> QED BY <2>1 DEF IInv, AnchorInv
<1> QED BY <1>2, <1>3, <1>4 DEF IInv

\* A step that leaves the log and the capsule alone.
LEMMA LogAlone ==
  ASSUME TypeOK, LogInv, CapsuleInv, UNCHANGED <<attempt, log, seq, lastHash, capsule>>,
         step \notin {"idle", "failed"}
  PROVE  LogInv' /\ CapsuleInv'
BY DEF TypeOK, LogInv, CapsuleInv, ChainTo, StatementAt

LEMMA IStep == IInv /\ [Next]_vars => IInv'
<1> SUFFICES ASSUME IInv, [Next]_vars PROVE IInv'
  OBVIOUS
<1>0. TypeOK /\ LogInv /\ AnchorInv /\ CapsuleInv
  BY DEF IInv
<1> USE LogAssumption
<1>1. CASE Start
  <2>1. /\ attempt' = attempt + 1 /\ attempt' \in 1..MaxAttempt /\ step' = "open"
        /\ log' = <<>> /\ seq' = 0 /\ lastHash' = ZeroHash /\ progress' = 0
        /\ head' = ZeroHash /\ logHash' = <<>> /\ UNCHANGED capsule
    BY <1>0, <1>1 DEF Start, TypeOK
  <2>2. TypeOK'
    <3>1. log' \in LogFile /\ logHash' \in LogFile
          /\ lastHash' \in Seq(Base) /\ head' \in Seq(Base) /\ Len(log') = seq'
      BY <2>1 DEF LogFile, ZeroHash
    <3>2. capsule # NoCapsule =>
              capsule' \in [attempt : 1..attempt', head : Seq(Base), logHash : LogFile]
      BY <1>0, <2>1 DEF TypeOK
    <3> QED BY <1>0, <2>1, <3>1, <3>2 DEF TypeOK, Steps
  <2>3. LogInv'
    BY <2>1 DEF LogInv, ChainTo, PrevOf
  <2>4. AnchorInv'
    BY <2>1 DEF AnchorInv
  <2>5. CapsuleInv'
    <3>1. capsule # NoCapsule => capsule.attempt # attempt'
      BY <1>0, <2>1 DEF TypeOK
    <3> QED BY <1>0, <2>1, <3>1 DEF CapsuleInv
  <2> QED BY <2>2, <2>3, <2>4, <2>5 DEF IInv
<1>2. CASE RunStarted \/ SpecLocked \/ WroteProof \/ Sealed \/ RunCompleted
  BY <1>0, <1>2, EmitAtKeeps
     DEF RunStarted, SpecLocked, WroteProof, Sealed, RunCompleted, EmitAt, TypeOK,
         Steps, EventTypes, RequiredEventTypes
<1>3. ASSUME NEW type \in Progress, ReportProgress(type)
      PROVE  IInv'
  <2>1. /\ step \in {"simulate", "commit"} /\ Emit(type) /\ progress' \in 0..MaxProgress
        /\ step' = step /\ type \in EventTypes
        /\ UNCHANGED <<attempt, head, logHash, capsule>>
    BY <1>0, <1>3 DEF ReportProgress, TypeOK, EventTypes
  <2> QED BY <2>1, EmitAtKeeps DEF Steps
<1>4. CASE StatementLocked
  <2>1. /\ step = "commit" /\ Emit("statement_locked") /\ head' = lastHash' /\ step' = "prove"
        /\ UNCHANGED <<attempt, progress, logHash, capsule>>
        /\ "statement_locked" \in EventTypes
    BY <1>4 DEF StatementLocked, EventTypes, RequiredEventTypes
  <2>2. /\ log' \in LogFile /\ seq' = seq + 1 /\ Len(log') = seq'
        /\ lastHash' \in Seq(Base) /\ Len(log) = seq
    BY <1>0, <2>1, EmitsOneLine
  <2>3. TypeOK'
    BY <1>0, <2>1, <2>2 DEF TypeOK, Steps
  <2>4. LogInv' /\ CapsuleInv' /\ StatementAt(lastHash)'
    BY <1>0, <2>1, EmitKeeps
  <2>5. AnchorInv'
    BY <2>1, <2>4 DEF AnchorInv, StatementAt
  <2> QED BY <2>3, <2>4, <2>5 DEF IInv
<1>5. CASE SelfVerify \/ Assemble \/ Challenge
  <2>1. /\ UNCHANGED <<attempt, log, seq, lastHash, progress, head, capsule>>
        /\ step \in {"check", "assemble", "challenge"}
        /\ step' \in {"assemble", "challenge", "write"}
        /\ \/ step' = "assemble" /\ logHash' = logHash
           \/ step' = "challenge" /\ logHash' = log
           \/ step = "challenge" /\ logHash' = logHash
    BY <1>5 DEF SelfVerify, Assemble, Challenge
  <2>2. TypeOK'
    BY <1>0, <2>1 DEF TypeOK, Steps
  <2>3. LogInv' /\ CapsuleInv'
    BY <1>0, <2>1, LogAlone
  <2>4. AnchorInv'
    BY <1>0, <2>1 DEF AnchorInv, StatementAt
  <2> QED BY <2>2, <2>3, <2>4 DEF IInv
<1>6. CASE WriteCapsule
  <2>1. /\ step = "write" /\ step' = "sealed"
        /\ capsule' = [attempt |-> attempt, head |-> head, logHash |-> logHash]
        /\ UNCHANGED <<attempt, log, seq, lastHash, progress, head, logHash>>
    BY <1>6 DEF WriteCapsule
  <2>2. /\ attempt \in 1..attempt /\ attempt \in 1..MaxAttempt /\ Len(log) = seq
        /\ seq \in Nat /\ logHash = log /\ log \in LogFile /\ head \in Seq(Base)
        /\ StatementAt(head)
    BY <1>0, <2>1 DEF TypeOK, LogInv, AnchorInv
  <2>3. TypeOK'
    <3>1. capsule' \in [attempt : 1..attempt', head : Seq(Base), logHash : LogFile]
      BY <2>1, <2>2
    <3>2. Len(log') \in {seq', seq' + 1} /\ step' \in Steps
      BY <2>1, <2>2 DEF Steps
    <3> QED BY <1>0, <2>1, <3>1, <3>2 DEF TypeOK
  <2>4. LogInv'
    BY <1>0, <2>1, <2>2 DEF LogInv, ChainTo
  <2>5. AnchorInv'
    BY <2>1 DEF AnchorInv
  <2>6. ChainOk(log, head)
    BY <1>0, <2>2, ChainIsChecked DEF LogInv, StatementAt
  <2>7. head # <<>> /\ head[1].attempt = attempt
    <3>1. Len(head) \in 1..seq /\ Len(head) \in Nat
      BY <2>2 DEF StatementAt
    <3>2. head # <<>>
      BY <3>1, <2>2
    <3>3. head[1] = log[1].base
      BY <2>2, <2>6, <3>1, CheckedIsChain
    <3> QED BY <1>0, <2>2, <3>1, <3>2, <3>3 DEF LogInv
  <2>8. IsPrefix(log, log)
    BY <2>2 DEF IsPrefix
  <2>9. CapsuleInv'
    BY <2>1, <2>2, <2>6, <2>7, <2>8 DEF CapsuleInv, StatementAt
  <2> QED BY <2>3, <2>4, <2>5, <2>9 DEF IInv
<1>7. CASE Fail
  <2>1. /\ step \notin {"idle", "failed"} /\ step' = "failed"
        /\ log' \in {log, Append(log, Torn)}
        /\ UNCHANGED <<attempt, seq, lastHash, progress, head, logHash, capsule>>
    BY <1>7 DEF Fail
  <2>2. LogInv' /\ CapsuleInv' /\ log' \in LogFile /\ Len(log') \in {seq, seq + 1}
    BY <1>0, <2>1, TearKeeps
  <2>3. TypeOK'
    BY <1>0, <2>1, <2>2 DEF TypeOK, Steps
  <2>4. AnchorInv'
    BY <2>1 DEF AnchorInv
  <2> QED BY <2>2, <2>3, <2>4 DEF IInv
<1>8. CASE UNCHANGED vars
  <2>1. UNCHANGED <<attempt, step, log, seq, lastHash, progress, head, logHash, capsule>>
    BY <1>8 DEF vars
  <2>2. TypeOK'
    BY <1>0, <2>1 DEF TypeOK
  <2>3. LogInv' /\ AnchorInv' /\ CapsuleInv'
    BY <1>0, <2>1 DEF LogInv, AnchorInv, CapsuleInv, ChainTo, StatementAt
  <2> QED BY <2>2, <2>3 DEF IInv
<1> QED BY <1>1, <1>2, <1>3, <1>4, <1>5, <1>6, <1>7, <1>8 DEF Next

\* What holds of the log, of the anchor in memory and of the capsule on disk in
\* every state.
THEOREM LogInvariant == Spec => []IInv
<1>1. Init => IInv
  BY IInitialized
<1>2. IInv /\ [Next]_vars => IInv'
  BY IStep
<1> QED BY <1>1, <1>2, PTL DEF Spec

-----------------------------------------------------------------------------
(* What follows from the invariant.                                        *)

LEMMA TypeFollows == IInv => TypeOK
BY DEF IInv

LEMMA WholeLog ==
  ASSUME IInv
  PROVE  /\ seq \in Nat /\ log \in LogFile
         /\ \A n \in 0..seq :
               /\ SubSeq(log, 1, n) \in LogFile
               /\ Len(SubSeq(log, 1, n)) = n
               /\ ChainTo(SubSeq(log, 1, n), n)
               /\ \A i \in 1..n : SubSeq(log, 1, n)[i] = log[i]
<1>1. seq \in Nat /\ log \in LogFile /\ Len(log) \in Nat /\ seq <= Len(log)
  BY DEF IInv, TypeOK
<1> SUFFICES ASSUME NEW n \in 0..seq
             PROVE  /\ SubSeq(log, 1, n) \in LogFile
                    /\ Len(SubSeq(log, 1, n)) = n
                    /\ ChainTo(SubSeq(log, 1, n), n)
                    /\ \A i \in 1..n : SubSeq(log, 1, n)[i] = log[i]
  BY <1>1
<1>2. \A i \in 1..n : log[i] \in LogLine \cup {Torn}
  BY <1>1 DEF LogFile
<1>3. /\ SubSeq(log, 1, n) \in LogFile
      /\ Len(SubSeq(log, 1, n)) = n
      /\ \A i \in 1..n : SubSeq(log, 1, n)[i] = log[i]
  BY <1>1, <1>2, SubSeqProperties DEF LogFile
<1>4. ChainTo(SubSeq(log, 1, n), n)
  <2> DEFINE whole == SubSeq(log, 1, n)
  <2> SUFFICES ASSUME NEW i \in 1..n
               PROVE  /\ whole[i] \in LogLine
                      /\ whole[i].prev = PrevOf(whole, i)
                      /\ whole[i].hash = Hash(PrevOf(whole, i), whole[i].base)
    BY DEF ChainTo
  <2>1. i \in 1..seq /\ whole[i] = log[i]
    BY <1>1, <1>3
  <2>2. PrevOf(whole, i) = PrevOf(log, i)
    BY <1>1, <1>3 DEF PrevOf
  <2> QED BY <2>1, <2>2 DEF IInv, LogInv, ChainTo
<1> QED BY <1>3, <1>4

LEMMA ChainedFollows == IInv => LogChained
<1> SUFFICES ASSUME IInv PROVE LogChained
  OBVIOUS
<1> DEFINE whole == SubSeq(log, 1, seq)
<1>1. /\ seq \in Nat /\ log \in LogFile /\ Len(log) \in {seq, seq + 1}
  BY DEF IInv, TypeOK
<1>2. /\ whole \in LogFile /\ Len(whole) = seq /\ ChainTo(whole, seq)
      /\ \A i \in 1..seq : whole[i] = log[i]
  BY <1>1, WholeLog
<1>3. seq > 0 => ChainOk(whole, lastHash)
  <2> SUFFICES ASSUME seq > 0 PROVE ChainOk(whole, lastHash)
    OBVIOUS
  <2>1. lastHash = whole[seq].hash
    BY <1>1, <1>2 DEF IInv, LogInv, PrevOf
  <2> HIDE DEF whole
  <2> QED BY <1>1, <1>2, <2>1, ChainIsChecked
<1>4. Len(log) > seq => Len(log) = seq + 1
  BY <1>1
<1> QED BY <1>1, <1>3, <1>4 DEF LogChained, IInv, LogInv

LEMMA LogHashFollows == IInv => LogHashExtendsStatement
BY DEF IInv, CapsuleInv, LogHashExtendsStatement

-----------------------------------------------------------------------------
(* What can become of the log.                                             *)

OwnLine == {line \in LogLine : line.base.attempt = attempt}

LEMMA LogOwn ==
  ASSUME IInv
  PROVE  log \in Seq(OwnLine \cup {Torn})
<1>1. /\ log \in LogFile /\ seq \in Nat /\ Len(log) \in {seq, seq + 1}
      /\ Len(log) > seq => log[seq + 1] = Torn
  BY DEF IInv, TypeOK, LogInv
<1>2. \A i \in 1..seq : log[i] \in OwnLine
  BY DEF IInv, LogInv, ChainTo, OwnLine
<1>3. \A i \in 1..Len(log) : log[i] \in OwnLine \cup {Torn}
  BY <1>1, <1>2
<1>4. log \in [1..Len(log) -> OwnLine \cup {Torn}] /\ Len(log) \in Nat
  BY <1>1, <1>3 DEF LogFile
<1> QED BY <1>4, SeqDef

LEMMA OverwrittenOwn ==
  ASSUME NEW line \in OwnLine \cup {Torn}, NEW x \in Overwritten(line)
  PROVE  x \in OwnLine \cup {Torn}
<1>1. CASE line = Torn
  BY <1>1 DEF Overwritten
<1>2. CASE line # Torn
  <2>1. PICK t \in EventTypes : x = [line EXCEPT !.base.type = t]
    BY <1>2 DEF Overwritten
  <2> QED BY <1>2, <2>1 DEF OwnLine, LogLine, Base
<1> QED BY <1>1, <1>2

\* No way a log can be damaged brings a line of another attempt into it.
LEMMA CopiesOwn ==
  ASSUME NEW S, NEW lines \in Seq(S), Torn \in S,
         \A line \in S : Overwritten(line) \subseteq S,
         NEW copy \in Copies(lines)
  PROVE  copy \in Seq(S)
<1>1. /\ Len(lines) \in Nat /\ DOMAIN lines = 1..Len(lines)
      /\ \A i \in 1..Len(lines) : lines[i] \in S
  BY LenProperties
<1>2. \A m, n \in Int : (1 <= m /\ n <= Len(lines)) => SubSeq(lines, m, n) \in Seq(S)
  BY <1>1, SubSeqProperties
<1>3. CASE copy = lines
  BY <1>3
<1>4. ASSUME NEW i \in 1..Len(lines), copy = RemoveAt(lines, i)
      PROVE  copy \in Seq(S)
  <2>1. SubSeq(lines, 1, i - 1) \in Seq(S) /\ SubSeq(lines, i + 1, Len(lines)) \in Seq(S)
    BY <1>1, <1>2
  <2> QED BY <1>4, <2>1, ConcatProperties DEF RemoveAt
<1>5. ASSUME NEW i \in 1..Len(lines), copy = InsertAt(lines, i, lines[i])
      PROVE  copy \in Seq(S)
  <2>1. /\ SubSeq(lines, 1, i - 1) \in Seq(S) /\ SubSeq(lines, i, Len(lines)) \in Seq(S)
        /\ <<lines[i]>> \in Seq(S)
    BY <1>1, <1>2
  <2> QED BY <1>5, <2>1, ConcatProperties DEF InsertAt
<1>6. ASSUME NEW i \in 1..Len(lines), NEW x \in Overwritten(lines[i]),
             copy = ReplaceAt(lines, i, x)
      PROVE  copy \in Seq(S)
  <2>1. x \in S
    BY <1>1
  <2> QED BY <1>6, <2>1, ExceptSeq DEF ReplaceAt
<1>7. ASSUME NEW i \in 1..(Len(lines) - 1),
             copy = [lines EXCEPT ![i] = lines[i + 1], ![i + 1] = lines[i]]
      PROVE  copy \in Seq(S)
  <2>1. i \in 1..Len(lines) /\ i + 1 \in 1..Len(lines)
    BY <1>1
  <2>2. copy \in [1..Len(lines) -> S]
    BY <1>1, <1>7, <2>1
  <2> QED BY <1>1, <2>2
<1>8. ASSUME NEW n \in 0..Len(lines),
             copy = SubSeq(lines, 1, n) \/ copy = Append(SubSeq(lines, 1, n), Torn)
      PROVE  copy \in Seq(S)
  <2>1. SubSeq(lines, 1, n) \in Seq(S)
    BY <1>1, <1>2
  <2>2. Append(SubSeq(lines, 1, n), Torn) \in Seq(S)
    BY <2>1, AppendProperties
  <2> QED BY <1>8, <2>1, <2>2
<1>9. \/ copy = lines
      \/ \E i \in 1..Len(lines) : copy = RemoveAt(lines, i)
      \/ \E i \in 1..Len(lines) : copy = InsertAt(lines, i, lines[i])
      \/ \E i \in 1..Len(lines) : \E x \in Overwritten(lines[i]) : copy = ReplaceAt(lines, i, x)
      \/ \E i \in 1..(Len(lines) - 1) :
             copy = [lines EXCEPT ![i] = lines[i + 1], ![i + 1] = lines[i]]
      \/ \E n \in 0..Len(lines) :
             copy = SubSeq(lines, 1, n) \/ copy = Append(SubSeq(lines, 1, n), Torn)
  <2>1. \/ copy = lines
        \/ copy \in {RemoveAt(lines, i) : i \in DOMAIN lines}
        \/ copy \in {InsertAt(lines, i, lines[i]) : i \in DOMAIN lines}
        \/ \E i \in DOMAIN lines : copy \in {ReplaceAt(lines, i, x) : x \in Overwritten(lines[i])}
        \/ copy \in {[lines EXCEPT ![i] = lines[i + 1], ![i + 1] = lines[i]] : i \in 1..(Len(lines) - 1)}
        \/ copy \in {SubSeq(lines, 1, n) : n \in 0..Len(lines)}
        \/ copy \in {Append(SubSeq(lines, 1, n), Torn) : n \in 0..Len(lines)}
    BY Zenon DEF Copies
  <2> QED BY <1>1, <2>1
<1> QED BY <1>3, <1>4, <1>5, <1>6, <1>7, <1>8, <1>9

LEMMA BindsFollows == IInv => ChainBindsStatement
<1> SUFFICES ASSUME IInv, capsule # NoCapsule, NEW lines \in Copies(log),
                    ChainOk(lines, capsule.head)
             PROVE  /\ capsule.attempt = attempt
                    /\ SubSeq(lines, 1, Len(capsule.head)) = SubSeq(log, 1, Len(capsule.head))
                    /\ lines[Len(capsule.head)].base.type = "statement_locked"
  BY DEF ChainBindsStatement
<1> DEFINE h == capsule.head
           n == Len(h)
<1>1. lines \in Seq(OwnLine \cup {Torn})
  BY LogOwn, OverwrittenOwn, CopiesOwn
<1>2. lines \in LogFile /\ Len(lines) \in Nat
  BY <1>1, SeqMonotonic DEF LogFile, OwnLine
<1>3. /\ ChainTo(lines, Len(lines)) /\ n \in 1..Len(lines)
      /\ \A j \in 1..n : h[j] = lines[j].base
  BY <1>2, CheckedIsChain
<1>4. capsule.attempt = attempt
  <2>1. h[1] = lines[1].base /\ lines[1] \in LogLine /\ 1 \in 1..Len(lines)
    BY <1>2, <1>3 DEF ChainTo
  <2>2. lines[1] \in OwnLine
    BY <1>1, <2>1, LineIsNotTorn
  <2> QED BY <2>1, <2>2 DEF IInv, CapsuleInv, OwnLine
<1>5. /\ n \in 1..seq /\ log[n].hash = h /\ log[n].base.type = "statement_locked"
      /\ seq \in Nat /\ log \in LogFile /\ seq <= Len(log) /\ ChainTo(log, seq)
  BY <1>4 DEF IInv, CapsuleInv, StatementAt, TypeOK, LogInv
<1>6. \A j \in 1..n : lines[j].base = log[j].base
  BY <1>3, <1>5, HashCoversEvents
<1>7. ChainTo(lines, n) /\ ChainTo(log, n) /\ n \in Nat
  BY <1>2, <1>3, <1>5 DEF ChainTo
<1>8. \A j \in 1..n : lines[j] = log[j]
  <2> HIDE DEF n
  <2> QED BY <1>6, <1>7, SameEventsSameLines
<1>9. \A j \in 1..n : lines[j] \in LogLine
  BY <1>7 DEF ChainTo
<1>10. SubSeq(lines, 1, n) = SubSeq(log, 1, n)
  <2> HIDE DEF n
  <2> QED BY <1>7, <1>8, <1>9, SubSeqProperties, SeqEqual
<1> QED BY <1>4, <1>5, <1>7, <1>8, <1>10

-----------------------------------------------------------------------------
\* capsule_bench/events.py: whatever attempt dies where, the file holds as many
\* whole lines as the logger has numbered and at most one more, and what is kept
\* of it in memory and in the capsule is of the type of a log.
THEOREM LogTypeCorrect == Spec => []TypeOK
BY LogInvariant, TypeFollows, PTL

\* EventLogger.emit: in every state, over all attempts in the same directory, the
\* lines written form one chain that ends in _last_hash and are numbered 1, 2, ...
THEOREM LogAlwaysChained == Spec => []LogChained
BY LogInvariant, ChainedFollows, PTL

\* run_pipeline.main: the log hash sealed in a capsule is of a log that holds the
\* statement, and the log on disk only ever adds to it.
THEOREM SealedLogHoldsStatement == Spec => []LogHashExtendsStatement
BY LogInvariant, LogHashFollows, PTL

\* _verify_event_log_chain: of all the ways a log can be damaged on its way to the
\* verifier, none passes the chain check unless the log agrees, line for line up
\* to the statement, with that of the attempt that wrote the capsule.
THEOREM PassingLogBindsStatement == Spec => []ChainBindsStatement
BY LogInvariant, BindsFollows, PTL
=============================================================================

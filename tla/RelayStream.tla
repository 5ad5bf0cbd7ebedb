----------------------------- MODULE RelayStream -----------------------------
(***************************************************************************)
(* The live event stream of one run: capsule_bench's EventLogger appends   *)
(* lines to events.jsonl; executions of scripts/relay_forward.py replay    *)
(* and tail that file into the relay's ingest websocket; the relay         *)
(* (server/relay.py) stores each line (server/event_store.py or            *)
(* event_store_pg.py) and broadcasts it to the run's subscribers, who get  *)
(* the stored history first.                                               *)
(*                                                                         *)
(* A line is its seq number: line n of the log is event n, and repeated    *)
(* copies of it are equal. The lines a connection has in flight are the    *)
(* consecutive ones got+1 .. pos, because the forwarder reads the file in  *)
(* order and a websocket delivers in order. Stores and receivers are sets  *)
(* of lines: no property below tells two copies of a line apart.           *)
(*                                                                         *)
(* The relay's coroutines interleave at their awaits. EventStore.append    *)
(* holds the store's lock over both of its writes and runs in a thread, so *)
(* it is one step. subscribe_socket registers the client and reads the     *)
(* history with no await in between, and an append does not touch the      *)
(* registrations, so these two are one step as well.                       *)
(***************************************************************************)
EXTENDS Integers, FiniteSets

CONSTANTS
    MaxLine,          \* bound on the length of the log
    Conns,            \* executions of relay_forward.py, one connection each
    Subs,             \* subscriber connections
    Modes,            \* how the operator starts forwarders: "replay", "tail"
    Backend,          \* the store: "file" or "postgres"
    TornWrites,       \* TRUE when a failed file write may leave a fragment
    DeadSendRaises    \* TRUE when sending to a closed websocket may raise
                      \* WebSocketDisconnect, FALSE when only RuntimeError

ASSUME StreamAssumption ==
    /\ MaxLine \in Nat
    /\ Modes \subseteq {"replay", "tail"}
    /\ Backend \in {"file", "postgres"}
    /\ TornWrites \in BOOLEAN
    /\ TornWrites => Backend = "file"
    /\ DeadSendRaises \in BOOLEAN

Lines == 1..MaxLine

VARIABLES
    emitted,     \* lines in events.jsonl
    link,        \* link[c]: "idle", "up", or "cut" (either end is gone)
    start,       \* start[c]: file position at which forwarder c began
    pos,         \* pos[c]: last line forwarder c has sent
    got,         \* got[c]: last line the ingest handler of c has received
    handler,     \* handler[c]: where ingest_socket of connection c stands
    todo,        \* todo[c]: clients the broadcast of c has yet to serve
    memory,      \* lines store.history returns
    disk,        \* lines that can be read back from the store's file or table
    torn,        \* the file ends in a fragment without a newline
    acked,       \* history: lines for which store.append has returned
    fragments,   \* history: number of fragments failed writes have left
    registered,  \* _subscriptions[run_id]
    client,      \* client[s]: "out", "open" or "closed"
    stalled,     \* open clients that have stopped reading
    backlog,     \* backlog[s]: history still to be sent to s
    seen         \* seen[s]: lines s has received

fwdVars   == <<emitted, link, start, pos>>
ingestVars == <<got, handler, todo>>
storeVars == <<memory, disk, torn, acked, fragments>>
subVars   == <<registered, client, stalled, backlog, seen>>
vars      == <<fwdVars, ingestVars, storeVars, subVars>>

HandlerStates == {"none", "recv", "append", "cast", "send", "done"}

Init ==
    /\ emitted = 0
    /\ link = [c \in Conns |-> "idle"]
    /\ start = [c \in Conns |-> 0]
    /\ pos = [c \in Conns |-> 0]
    /\ got = [c \in Conns |-> 0]
    /\ handler = [c \in Conns |-> "none"]
    /\ todo = [c \in Conns |-> {}]
    /\ memory = {}
    /\ disk = {}
    /\ torn = FALSE
    /\ acked = {}
    /\ fragments = 0
    /\ registered = {}
    /\ client = [s \in Subs |-> "out"]
    /\ stalled = {}
    /\ backlog = [s \in Subs |-> {}]
    /\ seen = [s \in Subs |-> {}]

-----------------------------------------------------------------------------
(* The run and its forwarders.                                             *)

\* EventLogger.emit writes and flushes one line.
Emit ==
    /\ emitted < MaxLine
    /\ emitted' = emitted + 1
    /\ UNCHANGED <<link, start, pos, ingestVars, storeVars, subVars>>

\* relay_forward.py opens the log and connects; --skip-history seeks to the
\* end of the file, otherwise the file is sent from its first line. The relay
\* has accepted the connection.
StartAt(mode) == IF mode = "tail" THEN emitted ELSE 0

Connect(c, mode) ==
    /\ link[c] = "idle"
    /\ link' = [link EXCEPT ![c] = "up"]
    /\ start' = [start EXCEPT ![c] = StartAt(mode)]
    /\ pos' = [pos EXCEPT ![c] = StartAt(mode)]
    /\ got' = [got EXCEPT ![c] = StartAt(mode)]
    /\ handler' = [handler EXCEPT ![c] = "recv"]
    /\ UNCHANGED <<emitted, todo, storeVars, subVars>>

\* The forwarder reads the next complete line and sends it.
Forward(c) ==
    /\ link[c] = "up"
    /\ pos[c] < emitted
    /\ pos' = [pos EXCEPT ![c] = @ + 1]
    /\ UNCHANGED <<emitted, link, start, ingestVars, storeVars, subVars>>

\* The network drops the connection or the forwarder dies. Lines in flight
\* may still be delivered (Receive) or not (Disconnect). A forwarder never
\* reconnects: the operator starts another one.
Cut(c) ==
    /\ link[c] = "up"
    /\ link' = [link EXCEPT ![c] = "cut"]
    /\ UNCHANGED <<emitted, start, pos, ingestVars, storeVars, subVars>>

-----------------------------------------------------------------------------
(* ingest_socket: receive a line, store it, broadcast it.                  *)

\* Mutant of Receive: no check that the next line has been sent.
ReceiveUnsent(c) ==
    /\ handler[c] = "recv"
    /\ got[c] < MaxLine
    /\ got' = [got EXCEPT ![c] = @ + 1]
    /\ handler' = [handler EXCEPT ![c] = "append"]
    /\ UNCHANGED <<fwdVars, todo, storeVars, subVars>>

\* Mutant of Receive: of several lines in flight only the last is handled.
ReceiveLatest(c) ==
    /\ handler[c] = "recv"
    /\ got[c] < pos[c]
    /\ got' = [got EXCEPT ![c] = pos[c]]
    /\ handler' = [handler EXCEPT ![c] = "append"]
    /\ UNCHANGED <<fwdVars, todo, storeVars, subVars>>

\* Mutant of Receive: a line is only handled once another one follows it.
ReceiveOneBehind(c) ==
    /\ handler[c] = "recv"
    /\ got[c] + 1 < pos[c]
    /\ got' = [got EXCEPT ![c] = @ + 1]
    /\ handler' = [handler EXCEPT ![c] = "append"]
    /\ UNCHANGED <<fwdVars, todo, storeVars, subVars>>

Receive(c) ==
    /\ handler[c] = "recv"
    /\ got[c] < pos[c]
    /\ got' = [got EXCEPT ![c] = @ + 1]
    /\ handler' = [handler EXCEPT ![c] = "append"]
    /\ UNCHANGED <<fwdVars, todo, storeVars, subVars>>

\* receive_text raises WebSocketDisconnect and the handler returns.
Disconnect(c) ==
    /\ handler[c] = "recv"
    /\ link[c] = "cut"
    /\ handler' = [handler EXCEPT ![c] = "done"]
    /\ UNCHANGED <<fwdVars, got, todo, storeVars, subVars>>

\* A write to the file is cut short: the file then ends in an incomplete line,
\* to which a later write that is cut short only adds.
WriteFragment ==
    /\ TornWrites
    /\ torn' = TRUE
    /\ fragments' = IF torn THEN fragments ELSE fragments + 1

\* Mutant of Append: a line that joins a fragment is written without its newline.
AppendAfterFragment(c) ==
    /\ handler[c] = "append"
    /\ memory' = memory \cup {got[c]}
    /\ disk' = IF torn THEN disk ELSE disk \cup {got[c]}
    /\ acked' = acked \cup {got[c]}
    /\ handler' = [handler EXCEPT ![c] = "cast"]
    /\ UNCHANGED <<fwdVars, got, todo, torn, fragments, subVars>>

\* store.append succeeds. A line written after a fragment ends up on the
\* fragment's line of the file, where it cannot be read back.
Append(c) ==
    /\ handler[c] = "append"
    /\ memory' = memory \cup {got[c]}
    /\ disk' = IF torn THEN disk ELSE disk \cup {got[c]}
    /\ torn' = FALSE
    /\ acked' = acked \cup {got[c]}
    /\ handler' = [handler EXCEPT ![c] = "cast"]
    /\ UNCHANGED <<fwdVars, got, todo, fragments, subVars>>

\* Mutant of AppendFails: the failure is caught and the next line awaited.
AppendFailureIgnored(c) ==
    /\ handler[c] = "append"
    /\ memory' = IF Backend = "file" THEN memory \cup {got[c]} ELSE memory
    /\ handler' = [handler EXCEPT ![c] = "recv"]
    /\ UNCHANGED <<fwdVars, got, todo, disk, torn, acked, fragments, subVars>>

\* store.append raises: the file store has extended its buffer by then, the
\* database has rolled back. No handler catches the exception, so the
\* connection is closed.
AppendFails(c) ==
    /\ handler[c] = "append"
    /\ memory' = IF Backend = "file" THEN memory \cup {got[c]} ELSE memory
    /\ \/ WriteFragment
       \/ UNCHANGED <<torn, fragments>>
    /\ handler' = [handler EXCEPT ![c] = "done"]
    /\ link' = [link EXCEPT ![c] = "cut"]
    /\ UNCHANGED <<emitted, start, pos, got, todo, disk, acked, subVars>>

\* Mutant of ListClients: clients still receiving their history are left out.
ListCaughtUpClients(c) ==
    /\ handler[c] = "cast"
    /\ todo' = [todo EXCEPT ![c] = {s \in registered : backlog[s] = {}}]
    /\ handler' = [handler EXCEPT ![c] = "send"]
    /\ UNCHANGED <<fwdVars, got, storeVars, subVars>>

\* _broadcast copies the registered clients under _sub_lock.
ListClients(c) ==
    /\ handler[c] = "cast"
    /\ todo' = [todo EXCEPT ![c] = registered]
    /\ handler' = [handler EXCEPT ![c] = "send"]
    /\ UNCHANGED <<fwdVars, got, storeVars, subVars>>

\* ... and sends to them one after the other; a client that does not read
\* holds up the loop.
SendLive(c, s) ==
    /\ handler[c] = "send"
    /\ s \in todo[c]
    /\ client[s] = "open"
    /\ s \notin stalled
    /\ seen' = [seen EXCEPT ![s] = @ \cup {got[c]}]
    /\ todo' = [todo EXCEPT ![c] = @ \ {s}]
    /\ UNCHANGED <<fwdVars, got, handler, storeVars, registered, client, stalled, backlog>>

\* Sending to a client that has gone: RuntimeError is passed over.
SkipDead(c, s) ==
    /\ handler[c] = "send"
    /\ s \in todo[c]
    /\ client[s] = "closed"
    /\ todo' = [todo EXCEPT ![c] = @ \ {s}]
    /\ UNCHANGED <<fwdVars, got, handler, storeVars, subVars>>

\* A WebSocketDisconnect is not: it leaves _broadcast and is taken by
\* ingest_socket for the end of its own connection.
AbortOnDead(c, s) ==
    /\ DeadSendRaises
    /\ handler[c] = "send"
    /\ s \in todo[c]
    /\ client[s] = "closed"
    /\ todo' = [todo EXCEPT ![c] = {}]
    /\ handler' = [handler EXCEPT ![c] = "done"]
    /\ link' = [link EXCEPT ![c] = "cut"]
    /\ UNCHANGED <<emitted, start, pos, got, storeVars, subVars>>

BroadcastDone(c) ==
    /\ handler[c] = "send"
    /\ todo[c] = {}
    /\ handler' = [handler EXCEPT ![c] = "recv"]
    /\ UNCHANGED <<fwdVars, got, todo, storeVars, subVars>>

-----------------------------------------------------------------------------
(* subscribe_socket and its clients.                                       *)

\* Mutant of Subscribe: live lines only, no history.
SubscribeLiveOnly(s) ==
    /\ client[s] = "out"
    /\ client' = [client EXCEPT ![s] = "open"]
    /\ registered' = registered \cup {s}
    /\ UNCHANGED <<fwdVars, ingestVars, storeVars, stalled, backlog, seen>>

\* Register, then read the history.
Subscribe(s) ==
    /\ client[s] = "out"
    /\ client' = [client EXCEPT ![s] = "open"]
    /\ registered' = registered \cup {s}
    /\ backlog' = [backlog EXCEPT ![s] = memory]
    /\ UNCHANGED <<fwdVars, ingestVars, storeVars, stalled, seen>>

SendHistory(s, n) ==
    /\ client[s] = "open"
    /\ s \notin stalled
    /\ n \in backlog[s]
    /\ seen' = [seen EXCEPT ![s] = @ \cup {n}]
    /\ backlog' = [backlog EXCEPT ![s] = @ \ {n}]
    /\ UNCHANGED <<fwdVars, ingestVars, storeVars, registered, client, stalled>>

\* The history loop notices that its client has gone and unregisters it; once
\* the loop is over the handler only sleeps and notices nothing.
HistoryAborts(s) ==
    /\ client[s] = "closed"
    /\ s \in registered
    /\ backlog[s] # {}
    /\ registered' = registered \ {s}
    /\ backlog' = [backlog EXCEPT ![s] = {}]
    /\ UNCHANGED <<fwdVars, ingestVars, storeVars, client, stalled, seen>>

Close(s) ==
    /\ client[s] = "open"
    /\ client' = [client EXCEPT ![s] = "closed"]
    /\ stalled' = stalled \ {s}
    /\ UNCHANGED <<fwdVars, ingestVars, storeVars, registered, backlog, seen>>

Stall(s) ==
    /\ client[s] = "open"
    /\ s \notin stalled
    /\ stalled' = stalled \cup {s}
    /\ UNCHANGED <<fwdVars, ingestVars, storeVars, registered, client, backlog, seen>>

-----------------------------------------------------------------------------

\* Mutant of Restart: load_existing is not called.
RestartEmpty ==
    /\ link' = [c \in Conns |-> IF link[c] = "up" THEN "cut" ELSE link[c]]
    /\ handler' = [c \in Conns |-> IF handler[c] = "none" THEN "none" ELSE "done"]
    /\ todo' = [c \in Conns |-> {}]
    /\ memory' = {}
    /\ registered' = {}
    /\ client' = [s \in Subs |-> IF client[s] = "open" THEN "closed" ELSE client[s]]
    /\ stalled' = {}
    /\ backlog' = [s \in Subs |-> {}]
    /\ UNCHANGED <<emitted, start, pos, got, disk, torn, acked, fragments, seen>>

\* The relay process dies and is started again: its connections and
\* registrations are gone and load_existing reads the history back. A write
\* it died in may have left a fragment.
Restart ==
    /\ link' = [c \in Conns |-> IF link[c] = "up" THEN "cut" ELSE link[c]]
    /\ handler' = [c \in Conns |-> IF handler[c] = "none" THEN "none" ELSE "done"]
    /\ todo' = [c \in Conns |-> {}]
    /\ memory' = disk
    /\ \/ (\E c \in Conns : handler[c] = "append") /\ WriteFragment
       \/ UNCHANGED <<torn, fragments>>
    /\ registered' = {}
    /\ client' = [s \in Subs |-> IF client[s] = "open" THEN "closed" ELSE client[s]]
    /\ stalled' = {}
    /\ backlog' = [s \in Subs |-> {}]
    /\ UNCHANGED <<emitted, start, pos, got, disk, acked, seen>>

IngestStep(c) ==
    \/ Receive(c)
    \/ Disconnect(c)
    \/ Append(c)
    \/ AppendFails(c)
    \/ ListClients(c)
    \/ \E s \in Subs : SendLive(c, s) \/ SkipDead(c, s) \/ AbortOnDead(c, s)
    \/ BroadcastDone(c)

HistoryStep(s) ==
    \/ \E n \in Lines : SendHistory(s, n)
    \/ HistoryAborts(s)

Next ==
    \/ Emit
    \/ \E c \in Conns :
          \/ \E mode \in Modes : Connect(c, mode)
          \/ Forward(c)
          \/ Cut(c)
          \/ IngestStep(c)
    \/ \E s \in Subs : Subscribe(s) \/ HistoryStep(s) \/ Close(s) \/ Stall(s)
    \/ Restart

Spec == Init /\ [][Next]_vars

\* A running forwarder and the relay's event loop keep going. Nothing obliges
\* the run to emit, the operator to start a forwarder or the network to break,
\* and no client is obliged to read.
Fairness ==
    /\ \A c \in Conns : WF_vars(Forward(c)) /\ WF_vars(IngestStep(c))
    /\ \A s \in Subs : WF_vars(HistoryStep(s))

FairSpec == Spec /\ Fairness

-----------------------------------------------------------------------------
(* Properties.                                                             *)

\* Types, and the order of the cursors of one connection: the log is ahead of
\* the forwarder, the forwarder ahead of the handler.
TypeOK ==
    /\ emitted \in 0..MaxLine
    /\ link \in [Conns -> {"idle", "up", "cut"}]
    /\ start \in [Conns -> 0..MaxLine]
    /\ pos \in [Conns -> 0..MaxLine]
    /\ got \in [Conns -> 0..MaxLine]
    /\ \A c \in Conns : start[c] <= got[c] /\ got[c] <= pos[c] /\ pos[c] <= emitted
    /\ handler \in [Conns -> HandlerStates]
    /\ todo \in [Conns -> SUBSET Subs]
    /\ memory \subseteq 1..emitted
    /\ disk \subseteq 1..emitted
    /\ torn \in BOOLEAN
    /\ acked \subseteq 1..emitted
    /\ fragments \in Nat
    /\ registered \subseteq Subs
    /\ client \in [Subs -> {"out", "open", "closed"}]
    /\ stalled \subseteq {s \in Subs : client[s] = "open"}
    /\ backlog \in [Subs -> SUBSET Lines]
    /\ seen \in [Subs -> SUBSET Lines]

\* What the relay shows of the run and what it has stored are prefixes of the
\* run's log: whatever connections break, overlap or are replayed, and whether
\* or not writes fail, no line is stored or shown before all earlier ones are.
\* (Forwarders in replay mode only; StoredRuns is the general statement.)
NoGaps ==
    /\ \A n \in disk : 1..n \subseteq disk
    /\ \A n \in memory : 1..n \subseteq memory

\* The file store under torn writes: a fragment costs at most one line for which
\* append returned, namely the next one, which is broadcast and shown and yet
\* cannot be read back. So the lines taken for stored and not on the disk never
\* outnumber the fragments, and one still at the end of the file has cost
\* nothing so far. Without fragments, what append returns for is on the disk.
FragmentCost ==
    Cardinality(acked \ disk) + (IF torn THEN 1 ELSE 0) <= fragments

\* With --skip-history forwarders too: the lines before a line the relay shows
\* are on the disk, back to the point of the log where some forwarder began, but
\* for as many as fragments have been left. A line can only be missing because
\* every forwarder that got past it started after it, or because a fragment
\* swallowed it.
StoredRuns ==
    \A n \in memory : \E c \in Conns :
        /\ link[c] # "idle"
        /\ start[c] < n
        /\ Cardinality(((start[c] + 1)..(n - 1)) \ disk) <= fragments

\* Why the two hold. A handler at work on a line has got past the point where
\* its forwarder began; connections that were never made have no handler; append
\* has returned for all lines of a handler up to the one in hand, because a
\* failed write ends it, so that every line shown ends a run of such lines;
\* and what is on the disk is shown.
Settled(c) == IF handler[c] = "append" THEN got[c] - 1 ELSE got[c]

InHand    == \A c \in Conns : handler[c] \in {"append", "cast", "send"} => start[c] < got[c]
Started   == \A c \in Conns : link[c] = "idle" <=> handler[c] = "none"
Delivered == \A c \in Conns : handler[c] \in {"recv", "append", "cast", "send"} =>
                 (start[c] + 1)..Settled(c) \subseteq acked
AckedRuns == \A n \in memory : \E c \in Conns :
                 /\ link[c] # "idle"
                 /\ start[c] < n
                 /\ (start[c] + 1)..(n - 1) \subseteq acked

StreamInv ==
    /\ TypeOK
    /\ InHand
    /\ Started
    /\ Delivered
    /\ disk \subseteq memory
    /\ AckedRuns
    /\ FragmentCost
    /\ ~TornWrites => fragments = 0

\* The broadcasts that will still reach s: the line in hand of a handler that
\* has yet to list the clients, or that has listed s and not yet served it.
OnItsWay(s) ==
    {got[c] : c \in {d \in Conns : \/ handler[d] = "cast"
                                   \/ handler[d] = "send" /\ s \in todo[d]}}

\* A connected subscriber misses nothing that is stored, however its
\* registration falls between an append, its broadcast and other connections:
\* each stored line has reached it, is in the history it is being sent, or is
\* in a broadcast that will include it.
SubscriberComplete ==
    \A s \in Subs : client[s] = "open" =>
        disk \subseteq seen[s] \cup backlog[s] \cup OnItsWay(s)

\* The stream as its readers see it is the abstract feed: a prefix of the log
\* at any time, and after a restart exactly what was durable.
Feed == INSTANCE EventFeed WITH visible <- memory, durable <- disk

FeedSpec == Feed!Spec

\* A line of the log gets stored as long as its forwarder stays connected and
\* no subscriber stops reading: one that does holds up the ingest of the run.
LineStored ==
    \A c \in Conns, n \in Lines :
        (link[c] = "up" /\ start[c] < n /\ n <= emitted)
            ~> (n \in disk \/ link[c] # "up" \/ stalled # {})

\* A subscriber that stays and reads gets every line that is stored.
SubscriberGets ==
    \A s \in Subs, n \in Lines :
        (client[s] = "open" /\ n \in disk)
            ~> (n \in seen[s] \/ client[s] # "open" \/ stalled # {})
=============================================================================

------------------------------ MODULE EventFeed ------------------------------
(***************************************************************************)
(* What the relay promises about one run, without sockets or processes:    *)
(* the run's log grows line by line; the relay shows a set of its lines    *)
(* (visible) and keeps a set of them on durable storage (durable); a line  *)
(* is taken in only when everything before it is durable; a restart of the *)
(* relay shows exactly what is durable.                                    *)
(***************************************************************************)
EXTENDS Naturals

CONSTANT MaxLine    \* bound on the length of the log

VARIABLES
    emitted,    \* number of lines in the run's log; line n carries seq n
    visible,    \* lines GET /runs/{run_id}/events and new subscribers see
    durable     \* lines that survive a restart of the relay

vars == <<emitted, visible, durable>>

Init ==
    /\ emitted = 0
    /\ visible = {}
    /\ durable = {}

\* The run writes the next line of its log.
Emit ==
    /\ emitted < MaxLine
    /\ emitted' = emitted + 1
    /\ UNCHANGED <<visible, durable>>

\* The relay takes in line n. It can become visible without becoming durable
\* (the write failed), and it is a repetition when n was taken in before.
TakeIn(n) ==
    /\ 1..(n - 1) \subseteq durable
    /\ visible' \in {visible, visible \cup {n}}
    /\ durable' \in {durable, durable \cup {n}}
    /\ durable' \subseteq visible'
    /\ UNCHANGED emitted

\* The relay process is started again and reloads what is durable.
Restart ==
    /\ visible' = durable
    /\ UNCHANGED <<emitted, durable>>

Next ==
    \/ Emit
    \/ \E n \in 1..emitted : TakeIn(n)
    \/ Restart

Spec == Init /\ [][Next]_vars
=============================================================================

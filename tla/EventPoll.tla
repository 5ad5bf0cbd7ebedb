------------------------------ MODULE EventPoll ------------------------------
(***************************************************************************)
(* The run page of the web UI (ui/src/RunDetailPage.jsx) following a run   *)
(* through the relay's REST endpoints. It fetches the run's detail, which  *)
(* carries the latest events, and from then on polls every second for the  *)
(* events after the last one it knows; a click on "verify" fetches the     *)
(* detail again. Requests overlap: no poll waits for the one before it,    *)
(* and answers arrive in any order or not at all.                          *)
(*                                                                         *)
(* The lines arrive at the relay as EventFeed allows (RelayStream          *)
(* implements it): a line is taken in when those before it are durable,    *)
(* older ones may be repeated by a forwarder that was started again, and a *)
(* line whose write failed is shown until the relay is restarted. The      *)
(* order of the store's history matters here: run_detail takes its tail.   *)
(***************************************************************************)
EXTENDS Naturals, Sequences, FiniteSetsExt, Functions

CONSTANTS
    MaxLine,       \* bound on the length of the log
    MaxHistory,    \* bound on the length of the file store's history
    Backend,       \* the store: "file" or "postgres"
    Window,        \* number of events run_detail returns (100)
    Polls,         \* polls that can be under way at the same time
    Details,       \* detail requests that can be under way at the same time
    MaxRefresh     \* bound on the number of clicks on "verify"

ASSUME PollAssumption ==
    /\ MaxLine \in Nat /\ MaxHistory \in Nat /\ MaxRefresh \in Nat
    /\ Window \in Nat \ {0}
    /\ Backend \in {"file", "postgres"}

VARIABLES
    history,      \* what store.history(run_id) returns, in its order
    disk,         \* what of it survives a restart of the relay
    page,         \* "new", "loading", "live" (the poll timer runs)
    shown,        \* lines in the component's events array
    cursor,       \* lastSeqRef.current
    base,         \* last_seq of the detail shown, 0 when there is none
    polls,        \* polls[p]: the state of a poll request
    details,      \* details[d]: the state of a detail request
    refreshes,    \* clicks so far
    overtaken     \* a detail answer replaced events that polls had added and
                  \* that a poll still under way had counted on

requests == <<polls, details>>
view     == <<page, shown, cursor, base, overtaken>>
store    == <<history, disk>>
pageVars == <<store, view, requests, refreshes>>

Idle     == [at |-> "idle"]
Lines    == 1..MaxLine
Newest(lines) == IF lines = {} THEN 0 ELSE Max(lines)

\* A poll remembers the after_seq it was sent with and carries its answer.
PollStates   == {Idle} \cup [at : {"sent"}, after : 0..MaxLine]
                       \cup [at : {"answered"}, after : 0..MaxLine, lines : SUBSET Lines]
DetailStates == {Idle} \cup [at : {"sent", "failed"}]
                       \cup [at : {"answered"}, lines : SUBSET Lines]

PageInit ==
    /\ history = <<>>
    /\ disk = <<>>
    /\ page = "new"
    /\ shown = {}
    /\ cursor = 0
    /\ base = 0
    /\ polls = [p \in Polls |-> Idle]
    /\ details = [d \in Details |-> Idle]
    /\ refreshes = 0
    /\ overtaken = FALSE

-----------------------------------------------------------------------------
(* The relay.                                                              *)

\* store.append: the file store keeps every copy in the order of arrival, the
\* database one row per seq.
Arrive(n) ==
    /\ Len(history) < MaxHistory
    /\ IF Backend = "postgres" /\ n \in Range(history)
       THEN UNCHANGED store
       ELSE history' = Append(history, n) /\ disk' = Append(disk, n)
    /\ UNCHANGED <<view, requests, refreshes>>

\* The file store's write fails: the line is in its buffer all the same.
ArriveUnwritten(n) ==
    /\ Backend = "file"
    /\ Len(history) < MaxHistory
    /\ history' = Append(history, n)
    /\ UNCHANGED <<disk, view, requests, refreshes>>

\* The relay is started again and loads the run's file (load_existing).
RelayRestart ==
    /\ history' = disk
    /\ UNCHANGED <<disk, view, requests, refreshes>>

\* history[-100:] of run_detail.
Latest(lines) ==
    {lines[i] : i \in {j \in DOMAIN lines : j + Window > Len(lines)}}

\* GET /runs/{run_id}: 404 as long as nothing has arrived.
AnswerDetail(d) ==
    /\ details[d].at = "sent"
    /\ details' = [details EXCEPT ![d] =
           IF history = <<>> THEN [at |-> "failed"]
           ELSE [at |-> "answered", lines |-> Latest(history)]]
    /\ UNCHANGED <<store, view, polls, refreshes>>

FailDetail(d) ==
    /\ details[d].at = "sent"
    /\ details' = [details EXCEPT ![d] = [at |-> "failed"]]
    /\ UNCHANGED <<store, view, polls, refreshes>>

\* Mutant of After: off by one, the successor of the last seq is left out.
AfterNext(lines, n) == {m \in Range(lines) : m > n + 1}

\* EventStore.history(run_id, last_seq).
After(lines, n) == {m \in Range(lines) : m > n}

\* GET /runs/{run_id}/events?after_seq=...
AnswerPoll(p) ==
    /\ polls[p].at = "sent"
    /\ polls' = [polls EXCEPT ![p] =
           [at |-> "answered", after |-> @.after, lines |-> After(history, @.after)]]
    /\ UNCHANGED <<store, view, details, refreshes>>

\* The request fails or the relay refuses it (429): poll() returns.
FailPoll(p) ==
    /\ polls[p].at = "sent"
    /\ polls' = [polls EXCEPT ![p] = Idle]
    /\ UNCHANGED <<store, view, details, refreshes>>

-----------------------------------------------------------------------------
(* The page.                                                               *)

\* The effect that runs when the page is mounted.
Mount(d) ==
    /\ page = "new"
    /\ details[d] = Idle
    /\ page' = "loading"
    /\ details' = [details EXCEPT ![d] = [at |-> "sent"]]
    /\ UNCHANGED <<store, shown, cursor, base, overtaken, polls, refreshes>>

\* handleVerify fetches the detail again, two seconds later.
Refresh(d) ==
    /\ page # "new"
    /\ refreshes < MaxRefresh
    /\ details[d] = Idle
    /\ refreshes' = refreshes + 1
    /\ details' = [details EXCEPT ![d] = [at |-> "sent"]]
    /\ UNCHANGED <<store, view, polls>>

\* Mutant of ShowDetail: the cursor is not set to the detail's last_seq.
ShowDetailKeepingCursor(d) ==
    /\ details[d].at = "answered"
    /\ shown' = details[d].lines
    /\ base' = Newest(details[d].lines)
    /\ page' = "live"
    /\ details' = [details EXCEPT ![d] = Idle]
    /\ UNCHANGED <<store, cursor, polls, refreshes, overtaken>>

\* fetchRunDetail has its answer: the events array and the cursor are replaced.
\* The first answer starts the timer.
ShowDetail(d) ==
    /\ details[d].at = "answered"
    /\ shown' = details[d].lines
    /\ cursor' = Newest(details[d].lines)
    /\ base' = cursor'
    /\ page' = "live"
    /\ details' = [details EXCEPT ![d] = Idle]
    /\ overtaken' = (overtaken \/ \E p \in Polls : polls[p] # Idle /\ polls[p].after > cursor')
    /\ UNCHANGED <<store, polls, refreshes>>

\* fetchRunDetail has failed: it reports the error and polling starts anyway.
DetailFailed(d) ==
    /\ details[d].at = "failed"
    /\ page' = "live"
    /\ details' = [details EXCEPT ![d] = Idle]
    /\ UNCHANGED <<store, shown, cursor, base, overtaken, polls, refreshes>>

\* The timer fires, whether or not earlier polls have returned.
Poll(p) ==
    /\ page = "live"
    /\ polls[p] = Idle
    /\ polls' = [polls EXCEPT ![p] = [at |-> "sent", after |-> cursor]]
    /\ UNCHANGED <<store, view, details, refreshes>>

\* poll() has its answer; nothing happens when it is empty.
ShowPoll(p) ==
    /\ polls[p].at = "answered"
    /\ polls' = [polls EXCEPT ![p] = Idle]
    /\ shown' = shown \cup polls[p].lines
    /\ cursor' = Newest({cursor} \cup polls[p].lines)
    /\ UNCHANGED <<store, page, base, overtaken, details, refreshes>>

-----------------------------------------------------------------------------
PageNext ==
    \/ \E n \in Lines : /\ n <= Newest(Range(disk)) + 1
                       /\ (Arrive(n) \/ ArriveUnwritten(n))
    \/ RelayRestart
    \/ \E d \in Details : \/ AnswerDetail(d) \/ FailDetail(d)
                          \/ Mount(d) \/ Refresh(d) \/ ShowDetail(d) \/ DetailFailed(d)
    \/ \E p \in Polls : AnswerPoll(p) \/ FailPoll(p) \/ Poll(p) \/ ShowPoll(p)

PageSpec == PageInit /\ [][PageNext]_pageVars

-----------------------------------------------------------------------------
PageTypeOK ==
    /\ history \in Seq(Lines) /\ disk \in Seq(Lines)
    /\ page \in {"new", "loading", "live"}
    /\ shown \subseteq Lines
    /\ cursor \in 0..MaxLine
    /\ base \in 0..cursor
    /\ polls \in [Polls -> PollStates]
    /\ details \in [Details -> DetailStates]
    /\ refreshes \in 0..MaxRefresh
    /\ overtaken \in BOOLEAN

\* The page follows the run without holes: every line after the detail it shows
\* and up to its cursor is shown, although polls overlap, fail and return out of
\* order. The one thing that can break this is a detail answer, older than what
\* the page showed, that arrives while a poll is under way.
NoHoles == overtaken \/ (base + 1)..cursor \subseteq shown
=============================================================================

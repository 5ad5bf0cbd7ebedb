----------------------------- MODULE RunEventLog -----------------------------
(***************************************************************************)
(* The hash-chained event log of a run: capsule_bench/events.py writes it, *)
(* scripts/run_pipeline.py decides what is written when and what of it     *)
(* goes into the capsule, scripts/verify_capsule.py checks it.             *)
(*                                                                         *)
(* A run directory can be used again (capsule-bench run --run-id), so an   *)
(* attempt that dies leaves its log beside the capsule of an earlier one.  *)
(*                                                                         *)
(* SHA-256 is taken to be free of collisions: the hash of a chain is the   *)
(* sequence of the events it covers, and the hash and length of a file are *)
(* its contents. An event's time stamp and data are its attempt number.    *)
(***************************************************************************)
EXTENDS Naturals, Sequences, SequencesExt

CONSTANTS
    MaxProgress,    \* bound on the progress events of one attempt
    MaxAttempt      \* bound on the uses of the run directory

ASSUME LogAssumption == MaxProgress \in Nat /\ MaxAttempt \in Nat

Progress == {"trace_simulated", "row_root_finalized"}

RequiredEventTypes ==
    {"run_started", "statement_locked", "proof_artifact", "capsule_sealed", "run_completed"}

EventTypes == RequiredEventTypes \cup Progress \cup {"spec_locked"}

VARIABLES
    attempt,      \* number of the attempt under way or last made
    step,         \* where run_pipeline.main stands
    log,          \* lines of events.jsonl
    seq,          \* EventLogger._seq
    lastHash,     \* EventLogger._last_hash
    progress,     \* progress events of this attempt so far
    head,         \* anchor_meta["event_chain_head"] of this attempt
    logHash,      \* anchor_meta["events_log_hash"] and ["events_log_len"]
    capsule       \* capsule.json: its attempt and anchor

vars == <<attempt, step, log, seq, lastHash, progress, head, logHash, capsule>>

ZeroHash  == <<>>
Torn      == [torn |-> TRUE]    \* a line that is not valid JSON
NoCapsule == [attempt |-> 0]

Steps == {"idle", "open", "simulate", "commit", "prove", "check", "assemble",
          "challenge", "write", "sealed", "finish", "closed", "failed"}

Init ==
    /\ attempt = 0
    /\ step = "idle"
    /\ log = <<>>
    /\ seq = 0
    /\ lastHash = ZeroHash
    /\ progress = 0
    /\ head = ZeroHash
    /\ logHash = <<>>
    /\ capsule = NoCapsule

-----------------------------------------------------------------------------
(* The log.                                                                *)

Hash(prev, base) == Append(prev, base)

\* The line EventLogger.emit builds.
Line(type) ==
    LET base == [attempt |-> attempt, seq |-> seq', type |-> type]
    IN  [base |-> base, prev |-> lastHash, hash |-> Hash(lastHash, base)]

\* Mutant of Emit: _last_hash is not advanced.
EmitUnlinked(type) ==
    /\ seq' = seq + 1
    /\ log' = Append(log, Line(type))
    /\ UNCHANGED lastHash

\* EventLogger.emit: number, link, write and flush one line.
Emit(type) ==
    /\ seq' = seq + 1
    /\ log' = Append(log, Line(type))
    /\ lastHash' = Line(type).hash

-----------------------------------------------------------------------------
(* run_pipeline.main.                                                      *)

\* Mutant of Start: the log of the attempt before is appended to.
StartAppending ==
    /\ step \in {"idle", "closed", "failed"}
    /\ attempt < MaxAttempt
    /\ attempt' = attempt + 1
    /\ step' = "open"
    /\ seq' = 0
    /\ lastHash' = ZeroHash
    /\ progress' = 0
    /\ head' = ZeroHash
    /\ logHash' = <<>>
    /\ UNCHANGED <<log, capsule>>

\* EventLogger opens the file for writing, which empties it. A capsule of an
\* earlier attempt stays where it is.
Start ==
    /\ step \in {"idle", "closed", "failed"}
    /\ attempt < MaxAttempt
    /\ attempt' = attempt + 1
    /\ step' = "open"
    /\ log' = <<>>
    /\ seq' = 0
    /\ lastHash' = ZeroHash
    /\ progress' = 0
    /\ head' = ZeroHash
    /\ logHash' = <<>>
    /\ UNCHANGED capsule

\* Steps of main that do nothing but emit one event.
EmitAt(from, type, to) ==
    /\ step = from
    /\ Emit(type)
    /\ step' = to
    /\ UNCHANGED <<attempt, progress, head, logHash, capsule>>

RunStarted   == EmitAt("open", "run_started", "simulate")
SpecLocked   == EmitAt("simulate", "spec_locked", "commit")
WroteProof   == EmitAt("prove", "proof_artifact", "check")
Sealed       == EmitAt("sealed", "capsule_sealed", "finish")
RunCompleted == EmitAt("finish", "run_completed", "closed")

\* The adapter reports progress from simulate_trace and commit_to_trace.
ReportProgress(type) ==
    /\ step \in {"simulate", "commit"}
    /\ progress < MaxProgress
    /\ Emit(type)
    /\ progress' = progress + 1
    /\ UNCHANGED <<attempt, step, head, logHash, capsule>>

\* The statement is bound to the chain up to and including this event.
StatementLocked ==
    /\ step = "commit"
    /\ Emit("statement_locked")
    /\ head' = lastHash'
    /\ step' = "prove"
    /\ UNCHANGED <<attempt, progress, logHash, capsule>>

\* adapter.verify: the proof just made is checked before anything is assembled.
SelfVerify ==
    /\ step = "check"
    /\ step' = "assemble"
    /\ UNCHANGED <<attempt, log, seq, lastHash, progress, head, logHash, capsule>>

\* Mutant of Assemble: the log is hashed before the statement is locked.
AssembleEarly ==
    /\ step = "assemble"
    /\ logHash' = SubSeq(log, 1, Len(log) - 2)
    /\ step' = "challenge"
    /\ UNCHANGED <<attempt, log, seq, lastHash, progress, head, capsule>>

\* The hash and the length of the log as it stands go into the anchor, and with
\* it into the payload and the header.
Assemble ==
    /\ step = "assemble"
    /\ logHash' = log
    /\ step' = "challenge"
    /\ UNCHANGED <<attempt, log, seq, lastHash, progress, head, capsule>>

\* The header is complete; a DA challenge is fetched for it.
Challenge ==
    /\ step = "challenge"
    /\ step' = "write"
    /\ UNCHANGED <<attempt, log, seq, lastHash, progress, head, logHash, capsule>>

WriteCapsule ==
    /\ step = "write"
    /\ capsule' = [attempt |-> attempt, head |-> head, logHash |-> logHash]
    /\ step' = "sealed"
    /\ UNCHANGED <<attempt, log, seq, lastHash, progress, head, logHash>>

\* An exception or a signal ends the pipeline; the line it was writing may have
\* reached the disk in part.
Fail ==
    /\ step \notin {"idle", "closed", "failed"}
    /\ step' = "failed"
    /\ log' \in {log, Append(log, Torn)}
    /\ UNCHANGED <<attempt, seq, lastHash, progress, head, logHash, capsule>>

Next ==
    \/ Start
    \/ RunStarted \/ SpecLocked \/ StatementLocked \/ WroteProof
    \/ \E type \in Progress : ReportProgress(type)
    \/ SelfVerify \/ Assemble \/ Challenge \/ WriteCapsule
    \/ Sealed \/ RunCompleted
    \/ Fail

Spec == Init /\ [][Next]_vars

-----------------------------------------------------------------------------
(* verify_capsule.                                                         *)

PrevOf(lines, i) == IF i = 1 THEN ZeroHash ELSE lines[i - 1].hash

\* Mutant of ChainOk: only the recorded links are compared, no hash is recomputed.
ChainOkByLinks(lines, anchor) ==
    /\ \A i \in DOMAIN lines : lines[i] # Torn /\ lines[i].prev = PrevOf(lines, i)
    /\ \E i \in DOMAIN lines : lines[i].hash = anchor

\* _verify_event_log_chain: every line names the hash before it and carries its
\* own, recomputed; the anchor is one of them.
ChainOk(lines, anchor) ==
    /\ \A i \in DOMAIN lines :
           /\ lines[i] # Torn
           /\ lines[i].prev = PrevOf(lines, i)
           /\ lines[i].hash = Hash(PrevOf(lines, i), lines[i].base)
    /\ \E i \in DOMAIN lines : lines[i].hash = anchor

EventTypesSeen(lines) == {lines[i].base.type : i \in DOMAIN lines}

\* events_verified of the report; E201_EVENT_LOG_MISMATCH is its negation. The
\* pipeline's capsules always carry event_chain_head.
EventsVerified(c, lines) ==
    /\ ChainOk(lines, c.head)
    /\ RequiredEventTypes \subseteq EventTypesSeen(lines)
    /\ lines = c.logHash

-----------------------------------------------------------------------------
(* What can become of a log between the pipeline and the verifier: a line  *)
(* lost, repeated, overwritten or exchanged with its neighbour, the end    *)
(* cut off or torn.                                                        *)

Overwritten(line) ==
    IF line = Torn THEN {Torn}
    ELSE {[line EXCEPT !.base.type = t] : t \in EventTypes}

Copies(lines) ==
    {lines}
    \cup {RemoveAt(lines, i) : i \in DOMAIN lines}
    \cup {InsertAt(lines, i, lines[i]) : i \in DOMAIN lines}
    \cup (UNION {{ReplaceAt(lines, i, x) : x \in Overwritten(lines[i])} : i \in DOMAIN lines})
    \cup {[lines EXCEPT ![i] = lines[i + 1], ![i + 1] = lines[i]] : i \in 1..(Len(lines) - 1)}
    \cup {SubSeq(lines, 1, n) : n \in 0..Len(lines)}
    \cup {Append(SubSeq(lines, 1, n), Torn) : n \in 0..Len(lines)}

-----------------------------------------------------------------------------
Base    == [attempt : 1..MaxAttempt, seq : Nat, type : EventTypes]
LogLine == [base : Base, prev : Seq(Base), hash : Seq(Base)]
LogFile == Seq(LogLine \cup {Torn})

TypeOK ==
    /\ attempt \in 0..MaxAttempt
    /\ step \in Steps
    /\ seq \in Nat /\ progress \in 0..MaxProgress
    /\ log \in LogFile /\ logHash \in LogFile
    /\ Len(log) \in {seq, seq + 1}
    /\ lastHash \in Seq(Base) /\ head \in Seq(Base)
    /\ capsule # NoCapsule =>
           capsule \in [attempt : 1..attempt, head : Seq(Base), logHash : LogFile]

\* The log is a chain from its first line to the last one the logger wrote, in
\* every state, whenever the pipeline dies and however often the directory is
\* used again: only a torn last line, which ended the attempt, stands outside it.
LogChained ==
    LET whole == SubSeq(log, 1, seq)
    IN  /\ seq > 0 => ChainOk(whole, lastHash)
        /\ \A i \in 1..seq : log[i].base.seq = i
        /\ Len(log) > seq => step = "failed" /\ log[Len(log)] = Torn

\* A log passes the chain check against a capsule only if it agrees with the log
\* of the attempt that wrote the capsule in every event up to the statement, so
\* neither a damaged log nor that of another attempt passes for it.
ChainBindsStatement ==
    capsule # NoCapsule =>
        \A lines \in Copies(log) : ChainOk(lines, capsule.head) =>
            /\ capsule.attempt = attempt
            /\ SubSeq(lines, 1, Len(capsule.head)) = SubSeq(log, 1, Len(capsule.head))
            /\ lines[Len(capsule.head)].base.type = "statement_locked"

\* The capsule's log hash is that of a log which already holds the statement, and
\* which the log on disk extends as long as it is of the same attempt.
LogHashExtendsStatement ==
    capsule # NoCapsule =>
        /\ ChainOk(capsule.logHash, capsule.head)
        /\ capsule.attempt = attempt => IsPrefix(capsule.logHash, log)

\* A run that has completed leaves a log the verifier accepts: E201 is reported
\* for event logs that have been changed ("Event log tampering: hash chain
\* recomputed and file length checked; failures emit E201 warnings",
\* docs/security_model.md).
CompletedLogVerifies == step = "closed" => EventsVerified(capsule, log)
=============================================================================

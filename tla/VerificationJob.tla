--------------------------- MODULE VerificationJob ---------------------------
(***************************************************************************)
(* The verification of one run on the relay (server/relay.py): capsule-    *)
(* bench pack uploads the run's archive under one key, overwriting the one *)
(* before, and registers the artifact manifest; POST /verify queues a      *)
(* background task that fetches the archive, runs verify_capsule.py on it  *)
(* and leaves its verdict in the run's state file; GET /runs shows it.     *)
(*                                                                         *)
(* Tasks run in a thread pool and nothing keeps two of them apart. Both    *)
(* files are written with write_text: opening truncates the file, and the  *)
(* text goes to its beginning when it is closed. An archive is its version *)
(* number and uploads are atomic. The run has events, so no request is     *)
(* refused, and its artifact directory holds no archive of its own.        *)
(***************************************************************************)
EXTENDS Naturals

CONSTANTS
    Tasks,         \* background tasks that can be under way at the same time
    MaxVersion,    \* bound on the number of uploads
    Accepted       \* the versions verify_capsule.py accepts

ASSUME JobAssumption ==
    /\ MaxVersion \in Nat
    /\ Accepted \subseteq 1..MaxVersion

VARIABLES
    archive,     \* version under the archive's key, 0 when there is none
    manifest,    \* artifacts.json: "none", "empty" (truncated), "ok"
    state,       \* the content of the state file
    at,          \* at[t]: where _verification_task stands in task t
    text,        \* text[t]: what task t has to write
    due,         \* version of the archive at the last POST /verify
    clean        \* since that POST there has been one task only, no restart
                 \* interrupted it and no write of the state file failed

files == <<archive, manifest>>
tasks == <<at, text>>
vars  == <<files, state, tasks, due, clean>>

Phases == {"idle", "queued", "mark", "list", "fetch", "verify", "report", "write"}

Absent    == [status |-> "absent"]
Empty     == [status |-> "empty"]
Garbled   == [status |-> "garbled"]
Verifying == [status |-> "VERIFYING"]

\* A verdict remembers the version it is about, 0 when the task raised.
Verdict(v) == [status |-> IF v \in Accepted THEN "VERIFIED" ELSE "FAILED", version |-> v]
Error      == [status |-> "FAILED", version |-> 0]
Verdicts   == {Verdict(v) : v \in 1..MaxVersion} \cup {Error}

\* The version a task has fetched, kept in text until its verdict replaces it.
Fetched(v) == [status |-> "fetched", version |-> v]
Texts      == {Empty} \cup {Fetched(v) : v \in 1..MaxVersion} \cup Verdicts

Init ==
    /\ archive = 0
    /\ manifest = "none"
    /\ state = Absent
    /\ at = [t \in Tasks |-> "idle"]
    /\ text = [t \in Tasks |-> Empty]
    /\ due = 0
    /\ clean = FALSE

Quiet == \A t \in Tasks : at[t] = "idle"

-----------------------------------------------------------------------------
(* Publishing.                                                             *)

\* ArtifactPublisher.publish: the archive goes to the run's one key.
Upload ==
    /\ archive < MaxVersion
    /\ archive' = archive + 1
    /\ UNCHANGED <<manifest, state, tasks, due, clean>>

\* register_artifacts opens artifacts.json ...
RegisterOpen ==
    /\ archive > 0
    /\ manifest' = "empty"
    /\ UNCHANGED <<archive, state, tasks, due, clean>>

\* ... and writes it.
RegisterWrite ==
    /\ manifest = "empty"
    /\ manifest' = "ok"
    /\ UNCHANGED <<archive, state, tasks, due, clean>>

-----------------------------------------------------------------------------
(* One task.                                                               *)

\* POST /runs/{run_id}/verify
Trigger(t) ==
    /\ at[t] = "idle"
    /\ at' = [at EXCEPT ![t] = "queued"]
    /\ due' = archive
    /\ clean' = Quiet
    /\ UNCHANGED <<files, state, text>>

\* write_text truncates the state file.
Open(t, from, to) ==
    /\ at[t] = from
    /\ at' = [at EXCEPT ![t] = to]
    /\ state' = Empty
    /\ UNCHANGED <<files, text, due, clean>>

\* What the file holds after writing s at its beginning: a shorter text leaves
\* the end of the longer one that another task wrote in the meantime. Every
\* verdict is longer than the VERIFYING record; two texts of one kind may have
\* any lengths.
Written(s) ==
    CASE state = Empty -> {s}
      [] state = Verifying /\ s # Verifying -> {s}
      [] state \in Verdicts /\ s = Verifying -> {Garbled}
      [] OTHER -> {s, Garbled}

\* The task announces itself.
OpenMark(t) == Open(t, "queued", "mark")

Mark(t) ==
    /\ at[t] = "mark"
    /\ at' = [at EXCEPT ![t] = "list"]
    /\ state' \in Written(Verifying)
    /\ UNCHANGED <<files, text, due, clean>>

\* Mutant of List: the task waits for a manifest that can be read.
ListWaits(t) ==
    /\ at[t] = "list"
    /\ manifest = "ok"
    /\ at' = [at EXCEPT ![t] = "fetch"]
    /\ UNCHANGED <<files, state, text, due, clean>>

\* The archive is looked up in the manifest; a manifest that cannot be read
\* counts as absent.
List(t) ==
    /\ at[t] = "list"
    /\ IF manifest = "ok"
       THEN at' = [at EXCEPT ![t] = "fetch"] /\ UNCHANGED text
       ELSE at' = [at EXCEPT ![t] = "report"] /\ text' = [text EXCEPT ![t] = Error]
    /\ UNCHANGED <<files, state, due, clean>>

\* Mutant of Fetch: the archive of the version before is found in a cache.
FetchCached(t) ==
    /\ at[t] = "fetch"
    /\ archive > 0
    /\ \E v \in 1..archive :
          /\ archive - v <= 1
          /\ text' = [text EXCEPT ![t] = Fetched(v)]
    /\ at' = [at EXCEPT ![t] = "verify"]
    /\ UNCHANGED <<files, state, due, clean>>

Fetch(t) ==
    /\ at[t] = "fetch"
    /\ text' = [text EXCEPT ![t] = Fetched(archive)]
    /\ at' = [at EXCEPT ![t] = "verify"]
    /\ UNCHANGED <<files, state, due, clean>>

\* Mutant of Verify: the verifier is given the key and reads the archive anew.
VerifyCurrent(t) ==
    /\ at[t] = "verify"
    /\ text' = [text EXCEPT ![t] =
           [status |-> Verdict(archive).status, version |-> @.version]]
    /\ at' = [at EXCEPT ![t] = "report"]
    /\ UNCHANGED <<files, state, due, clean>>

\* verify_capsule.py ends; its exit status decides the verdict.
Verify(t) ==
    /\ at[t] = "verify"
    /\ text' = [text EXCEPT ![t] = Verdict(@.version)]
    /\ at' = [at EXCEPT ![t] = "report"]
    /\ UNCHANGED <<files, state, due, clean>>

\* The download, the extraction or the hash check of the archive raises.
Raise(t) ==
    /\ at[t] \in {"fetch", "verify"}
    /\ text' = [text EXCEPT ![t] = Error]
    /\ at' = [at EXCEPT ![t] = "report"]
    /\ UNCHANGED <<files, state, due, clean>>

OpenReport(t) == Open(t, "report", "write")

\* Mutant of Report: the task keeps its text for the next one.
ReportKeepingText(t) ==
    /\ at[t] = "write"
    /\ at' = [at EXCEPT ![t] = "idle"]
    /\ state' \in Written(text[t])
    /\ UNCHANGED <<files, text, due, clean>>

Report(t) ==
    /\ at[t] = "write"
    /\ at' = [at EXCEPT ![t] = "idle"]
    /\ text' = [text EXCEPT ![t] = Empty]
    /\ state' \in Written(text[t])
    /\ UNCHANGED <<files, due, clean>>

\* The text cannot be written (the disk is full). Only a failure to write the
\* verdict of the verifier is caught, and reported as an error in its turn.
WriteFails(t) ==
    /\ at[t] \in {"mark", "write"}
    /\ IF at[t] = "write" /\ text[t] # Error
       THEN at' = [at EXCEPT ![t] = "report"] /\ text' = [text EXCEPT ![t] = Error]
       ELSE at' = [at EXCEPT ![t] = "idle"] /\ text' = [text EXCEPT ![t] = Empty]
    /\ clean' = FALSE
    /\ UNCHANGED <<files, state, due>>

TaskStep(t) ==
    \/ OpenMark(t) \/ Mark(t) \/ List(t) \/ Fetch(t) \/ Verify(t) \/ Raise(t)
    \/ OpenReport(t) \/ Report(t) \/ WriteFails(t)

\* The relay process dies and is started again; its tasks are gone.
Restart ==
    /\ at' = [t \in Tasks |-> "idle"]
    /\ text' = [t \in Tasks |-> Empty]
    /\ clean' = (clean /\ Quiet)
    /\ UNCHANGED <<files, state, due>>

Next ==
    \/ Upload \/ RegisterOpen \/ RegisterWrite
    \/ \E t \in Tasks : Trigger(t) \/ TaskStep(t)
    \/ Restart

Spec == Init /\ [][Next]_vars

\* The thread pool runs every task on, and the verifier returns.
FairSpec == Spec /\ \A t \in Tasks : WF_vars(TaskStep(t))

-----------------------------------------------------------------------------
(* Properties.                                                             *)

\* What a task has in hand at each of its phases.
InHand(t) ==
    /\ at[t] = "fetch" => archive > 0
    /\ at[t] = "verify" => \E v \in 1..archive : text[t] = Fetched(v)
    /\ at[t] \in {"report", "write"} => text[t] \in Verdicts /\ text[t].version <= archive
    /\ at[t] \notin {"verify", "report", "write"} => text[t] = Empty

\* Types, and what the tasks have in hand.
TypeOK ==
    /\ archive \in 0..MaxVersion
    /\ manifest \in {"none", "empty", "ok"}
    /\ manifest # "none" => archive > 0
    /\ state \in {Absent, Empty, Garbled, Verifying} \cup Verdicts
    /\ at \in [Tasks -> Phases]
    /\ text \in [Tasks -> Texts]
    /\ \A t \in Tasks : InHand(t)
    /\ due \in 0..archive
    /\ clean \in BOOLEAN

\* A run is shown as VERIFIED only when the verifier accepted an archive that was
\* uploaded for it, whatever tasks, uploads and restarts overlap.
VerdictEarned ==
    state.status = "VERIFIED" => state.version \in Accepted /\ state.version <= archive

\* A verification that was alone ends with a verdict, on an archive no older
\* than the one stored when it was asked for, and leaves nothing of what earlier
\* tasks had in the file: one overlap, crash or full disk is repaired by the next
\* verification.
SettledVerdict ==
    clean /\ Quiet => /\ state \in Verdicts
                      /\ state = Error \/ state.version >= due

\* The run does not stay in VERIFYING: some task replaces it, unless the relay is
\* restarted, which loses the tasks.
VerifyingEnds ==
    (state = Verifying) ~> (state # Verifying \/ Quiet)
=============================================================================

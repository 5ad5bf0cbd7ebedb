# Formal model of CapsuleBench: run, event stream, capsule, proof, verification

TLA+ specifications of this repository's protocols: the parts where processes,
connections, tasks or runs share state, the sealing and verification of a capsule,
and the trace commitment and proof behind it, with the TLC configurations that
check them and TLAPS proofs of their main properties. Paths and line numbers are those of
the repository; `PROJECT.json` maps every definition to the lines it models.

    tlc -config stream_replay.cfg MCRelayStream.tla
    tlapm RelayStreamProofs.tla

## 1. The system

A run of `capsule-bench run` executes a program, commits to its trace, proves it
and leaves a *capsule*: a JSON document whose header commits to a statement, to
policies and to a hash-chained log of the run's events. While it runs the log is
streamed to a *relay*, which stores and shows it. Afterwards the run is packed
into an archive, which the relay (or anybody) verifies.

    run_pipeline.py --EventLogger--> events.jsonl --relay_forward.py--> relay
        |                                                                |  \
        | commit rows, prove, seal                                       |   subscribers
        v                                                                |
    run directory --emit, pack--> archives --publish, register--> object store, artifacts.json
        |                             |                                  |
        +-------- verify_capsule.py --+------- verification task --------+-- run page (polls)

### Components

| component | state | operations | what is hard | what makes it correct |
|---|---|---|---|---|
| event logger (`capsule_bench/events.py`) | file, `_seq`, `_last_hash` | open (truncates), `emit`, close | death inside a write; second use of a run directory | the file is one hash chain, whatever happens |
| forwarder (`scripts/relay_forward.py`) | file position, websocket | replay or seek to the end, send, poll | connection breaks, overlapping executions, repeated lines | nothing is skipped between the point where it starts and the last line the relay takes |
| relay ingest and broadcast (`server/relay.py`) | `_subscriptions`, handlers | receive, `store.append`, `_broadcast` | coroutines interleave at awaits; a receiver that is dead or does not read | prefix of the log, no subscriber misses a line |
| event stores (`server/event_store*.py`) | buffers and files, or tables | `append`, `history`, `load_existing` | failed and torn writes, restarts, repetitions | what was taken in can be read back, but for a line per fragment; order |
| run detail, event polling, run page (`ui/src/RunDetailPage.jsx`) | events, cursor, requests under way | detail, poll, verify click | overlapping requests, answers out of order | no holes up to the cursor |
| artifacts and verification tasks (`server/relay.py`, `capsule_bench/artifacts.py`) | object store, `artifacts.json`, state file | publish, register, trigger, task | two tasks and one file, truncating writes, crash in between, archive overwritten | VERIFIED is earned; a verdict is about what was asked; VERIFYING ends |
| tokens, rate limit, DA commits (`server/relay.py`) | `_ingest_tokens`, `_rate_counters`, `_DA_COMMITS` | issue, present, count, register, challenge | expiry, replacement, restart, the edge of the window | the relay's answers agree with what it was asked before |
| run directory (`capsule_bench/cli.py`, `manifests.py`, `packing.py`, `scripts/run_pipeline.py`, `bef_zk/capsule/cli`) | a dozen files | run, emit, pack | attempts with one run id follow, stop or overlap; files are copied one by one | what is accepted is one attempt's work |
| capsule sealing (`bef_zk/capsule/header.py`, `payload.py`, `da.py`) | header and payload | build, hash, challenge | which hash covers what, and what was read back from a file | a capsule verifies with the files it was sealed with, and no others |
| verifier (`scripts/verify_capsule.py`) | report under construction | ordered checks, levels | order and optionality of checks | each level rests on the checks the code makes for it |
| DA provider (`bef_zk/da/provider.py`) | attempts | fetch with retries and time limit, chunk proofs | late answers, changed files | no answer is taken after its limit; only the committed rows pass |
| trace commitment (`bef_zk/stc`) | accumulator, chunk archive | add chunk, commit, open, verify | indices, offsets, groups that are not full, joint openings | an opening verifies for the committed values at their place only, whatever index it is labelled with |
| FRI (`bef_zk/fri`, `bef_zk/pc`) | layers | fold, commit, open, verify | positions that meet in a fold | an honest opening verifies |
| geometric AIR and proof (`bef_zk/air`, `bef_zk/zk_geom`, `backends/geom_adapter.py`) | trace, table, proof | simulate, mask, commit, draw, open, prove, verify | boundary and padding rows, rows read back from disk, draws without an end | honest proofs verify; an accepted proof is about the committed rows |

Everything else is listed in `PROJECT.json` with the reason it is left out: the
numerical programs (`nova_stc`, `BICEPsrc`, `FusionAlpha`, `enn-cpp`, `geomzk`,
`gpu_accumulator`) do not take part in the protocols above.

## 2. Modules

| module | models |
|---|---|
| `EventFeed` | abstract: a growing log, a visible and a durable part of it, restarts |
| `RelayStream` | one run's stream: log, forwarders, ingest handlers, store, broadcast, subscribers, restart; `Feed == INSTANCE EventFeed WITH visible <- memory, durable <- disk` |
| `MCRelayStream` | `RelayStream` for TLC, with symmetry |
| `RelayStreamProofs` | theorems about `RelayStream` |
| `EventPoll`, `MCEventPoll` | the run page following a run through `run_detail` and `get_events` |
| `RunEventLog` | event logger, pipeline order, anchor, and the verifier's event checks, over several uses of a run directory |
| `RunEventLogProofs` | theorems about `RunEventLog` |
| `VerificationJob`, `MCVerificationJob` | publishing, registration and verification tasks of one run |
| `RunPageProofs` | theorems about `EventPoll` and `VerificationJob` |
| `RelayAccess` | tokens, rate limit and data-availability commits and challenges of the relay |
| `RelayAccessProofs` | theorems about `RelayAccess` |
| `CapsuleVerify` | the stages, levels and report of `verify_capsule.py`, with the client of the data-availability audit |
| `CapsuleVerifyProofs` | theorems about `CapsuleVerify` |
| `CapsuleSeal` | pure: payload, header, their hashes, the challenge, and what of them the verifier compares with the files |
| `RunDirectory`, `MCRunDirectory` | a run directory that several attempts write, and the copies made of it; uses `CapsuleSeal` |
| `RunDirectoryProofs` | theorems about `RunDirectory` and the checks of `CapsuleSeal` |
| `MerkleTree` | pure: binary and k-ary trees, single and joint openings |
| `TraceCommitment` | pure: accumulator, sketches, chunk, value and batch openings; on `MerkleTree` |
| `TraceCommitmentProofs` | theorems about the trees and the batches |
| `FriProof` | pure: folding, layers, openings; on `TraceCommitment` |
| `GeomTrace` | pure: the machine, its masked table, its constraints and their composition |
| `GeomProof`, `MCGeomProof` | prover, its archive directory, delivery, verifier and audit; composes `FriProof` and `GeomTrace` |
| `GeomProofProofs` | theorems about the openings of rows and vectors, the sketches and `GeomProof`; on `TraceCommitmentProofs` |

Two modules describe the verifier. `CapsuleVerify` has its control, with the outcome
of each test as a fact that is found; `CapsuleSeal` says what those tests compare, so
that `RunDirectory` can ask which *files* are accepted.

### RelayStream

Line *n* of the log is the number *n* (`EventLogger` numbers events from 1). A
connection is described by four cursors that keep their order,
`start <= got <= pos <= emitted`: where the forwarder began, what the handler has
received, what the forwarder has sent, what the log holds. Nothing else is in
flight, because both the file and the websocket are read in order. A handler
(`ingest_socket`) goes through `recv -> append -> cast -> send -> recv`; these are
the stretches between its awaits (`receive_text`, `to_thread(store.append)`,
`_sub_lock`, each `send_text`). `todo[c]` is the list `_broadcast` copied.
`memory` is what `store.history` returns and `disk` what can be read back; with
PostgreSQL they change together, with files a failing `append` changes the first
alone. `torn` says that the file ends in a fragment; `acked` (lines `append` has returned for)
and `fragments` (how many fragments there have been) are history variables. A fragment is taken to
be an incomplete line that cannot be read; that a failed write leaves out only the newline
is not modelled. `registered` is
`_subscriptions[run_id]`; `backlog[s]` the history still to be sent to `s`. A
forwarder never reconnects, as in the code: the operator starts another one, which
is another member of `Conns`. Stores are sets: what depends on their order is
checked in `EventPoll`.

What can go wrong is chosen by constants: `Modes` (replay or tail), `Backend`,
`TornWrites` (a failed write or a crash may leave part of a line) and
`DeadSendRaises` (sending to a client that has gone may raise
`WebSocketDisconnect`, which newer Starlette versions do when the transport fails,
or only `RuntimeError`). The requirements do not pin the version.

### EventPoll

`history` is the store's list in its order, because `run_detail` takes its tail.
Requests are records that are sent, answered and consumed in separate steps; any
of them can fail. The events array of the page is a set (`shown`): repeated
entries, which overlapping polls do produce, are not told apart. Lines arrive as
`EventFeed` allows: the next new one or a repetition. With files a line whose write failed is in
`history` and not on `disk`, and `RelayRestart` shows what is on disk, so an answer may
end before the cursor. `overtaken` is a history
variable; it marks the one way the page gets a hole (a detail answer that sets
the cursor back while a poll with the later cursor is under way).

### RunEventLog

Hashes are free of collisions: the hash of a chain is the sequence of what it
covers. `step` is the position in `run_pipeline.main`, one step per event or
assignment that matters. `Fail` can happen anywhere and may leave a torn last
line. A second attempt (`--run-id` used again) truncates the log and keeps the
earlier capsule. `EventsVerified` is the verifier's verdict on a log, `Copies` the
damage a log can suffer between pipeline and verifier.

### VerificationJob

An archive is its version. `Open` truncates the state file and a later step
writes at its beginning, as `Path.write_text` does; `Written` says what two
overlapping writers leave (`Garbled` is read as "no state" by
`_load_verification_state`). `due` and `clean` are history variables: the version
at the last request, and whether the verification it started has been alone.
Uploads are atomic, as in an object store; `shutil.copy2` of the local fallback is
not, and a task that reads such a file raises (`Raise`).

### CapsuleVerify

One stage of `_verify_capsule_core` is one action, in the order of the code.
`facts` holds what the stages find in the capsule and in the options; a fact is
`unknown` until a stage looks at it and keeps its value afterwards, so that several
verifications of one capsule meet the same facts without TLC enumerating capsules
nobody looks at. `level` is the required level. `Degrades(code, s)` is the idiom
`if da_required: return code` / `warnings.append(code)`, on which the difference
between the levels rests; `Check` a test that rejects at every level; `Ends` a
`return`, or an exception that leaves the function (a line of the log that is JSON but not an
object is one, `verify_capsule.py:644`). `Late` is an attempt of
`PolicyAwareDAClient` that exceeded its time limit, `Expire` the passing of the
challenge's `expires_at_ms`. `verdicts` collects the outcomes by required level.

### RelayAccess

The relay keeps tokens, windows and commits in the memory of its process; `Restart`
forgets them. `commits[h]` is the record last registered for a commit, which its challenges
carry; `signing` says whether the process was started with a signing key, without which it
answers 503. `ingest_socket` checks the token, then awaits `accept`: `Present` and
`AcceptSocket`. The rate limit counts in `windows`. `journal` is a history variable, the
list of all answers; the three properties compare the answers with the journal alone and
not with the tables the code keeps. Whether a window is the last `RateWindow` seconds with
both ends, whether refused requests count and which of two tokens of a run is good is
decided by the code (`<=`, `>=`, one record per run).

### CapsuleSeal and RunDirectory

A hash is the value it is taken of. The payload and the header name the values that can
differ between two attempts: policy, manifests (`anchor`), the freshness of an attempt's
events and time stamps (`stamp`), trace root, and the hashes of files the attempt had
written and read back. `Checks` is the order in which `_verify_capsule_core` compares them;
the first that fails is the code.

`RunDirectory` executes `run_command` and `run_pipeline.main` file by file (`Steps`). An
attempt may stop at each step, and what it was writing may be absent, complete or cut
short (`Torn`). Attempts with one run id may follow each other or overlap: the default run
id is the time to the second, and nothing locks or empties the directory. `mem` is what an
attempt holds in memory; the distinction matters because some values are sealed from
memory and others are read back from a file that another attempt may have replaced. A copy
("emit" or "pack") is made file by file while attempts may be running; `steady` says that
none was. `InPlace` and `Copied` are what a verifier finds in either place. The archive is
found in place by its absolute path in the capsule, which a `.cap` keeps.

### MerkleTree, TraceCommitment, FriProof, GeomTrace, GeomProof

A digest is the term that was hashed, so the trees compare structure; indices begin at 0
as in the code. The field is that of a small prime (2^61 - 1 in the code), and the machine's
registers are packed in proportionally fewer bits. Everything the code derives from a hash
(masks, weights of the constraints, folding challenges) is a fixed function of name and
index of which nothing else is known (`HashToField`, `Beta`) but that it is a field element, and of a
weight that it is not zero, which `_derive_alphas` sees to; the positions to open, which
come from a hash of the transcript, are drawn, so that every outcome of it is examined.

`GeomProof` is one run of `GeomAdapter` and of what follows: rows are committed and written
to the archive one by one (`CommitRow`), positions drawn (`DrawQuery`), the composition
committed and folded, the rows at the positions *read back from the archive* (`OpenRow`,
with the cache of `ChunkRecord.values`), and the proof checked by the pipeline itself
before it is published. It is then delivered whole or with one value changed, verified with
its own binding, another one or none, and a sample of the archive is audited. Another run
that was given the same directory may clear it or write a row at any moment before the end.

## 3. Runs

| run | asks | instance | states |
|---|---|---|---|
| `stream_replay` | prefix stored and shown, refinement of `EventFeed`; lines are stored and reach the subscriber | 3 lines, 2 forwarder executions, 1 subscriber, files, writes fail as a whole, dead receivers raise, fair | 3e5 |
| `stream_subscribers` | what fragments may cost; runs without other holes from where a forwarder began; subscribers complete | 2 lines, 2 executions in both modes, 2 subscribers, files, writes and crashes leave fragments | 1e6 |
| `event_poll` | no holes on the page | 4 lines, window of 2, 2 polls and 2 details under way, failed writes and restarts | 2e6 |
| `event_log` | one chain; what a capsule's log may be | 2 progress events, 3 uses of the directory | 1.5e4 |
| `completed_log` (violation) | a completed run passes the event checks | 1 use | |
| `verification` | verdicts earned and settled; VERIFYING ends | 2 tasks at a time, 3 archives of which the second verifies | 1.1e4 |
| `capsule_levels` | acceptance at a level carries over to the lower ones; a status rests on its checks and its own challenge; a failed audit is noted; retries end | 2 of the 4 levels, 1 retry, every combination of facts | 6e5 |
| `structured_verdict` (violation) | a verification ends in a report or an error code | same | |
| `run_directory` | what is accepted is one attempt's; a completed run is accepted; a `.cap` agrees with its directory | 2 attempts with 5 choices of arguments, 1 copy of either kind | 2e5 |
| `packed_capsule` (violation) | a completed run has a pack that verifies | same, packs only, no overlap | |
| `relay_access` | sockets, refusals and challenges agree with what was answered before | 2 runs, 1 client, 2 commits with 2 records, 4 answers in 4 seconds | 9e6 |
| `trace_proof` | sketches, openings, honest proofs; what published, accepted and altered proofs are about; audits | 6 jobs of 1 to 5 steps, every draw, delivery, sample and one foreign write | 6e3 |

(States are orders of magnitude; symmetry changes them.)

*Bounds.* `MaxLine`, `MaxHistory`, `MaxProgress`, `MaxAttempt`, `MaxVersion`,
`MaxRefresh`, `MaxVerifications`, `MaxTime`, `MaxAnswers` and `MaxForeign` bound counters in the guards of the
actions that advance them.
Two forwarder executions are needed for a replay that overlaps the connection it
replaces; with three lines one of them can be ahead of, level with or behind the
other with a line in between. Two subscribers are needed for one that dies while
another waits in the same broadcast. A window of two lines in a history of five
lets a replay push the newest line out of it. Two tasks are enough for every
overlap of two writers; three archives let a verdict be older, equal or newer than
the request. Three attempts let a capsule meet the log of a later, and of a failed,
one. Two verifications are enough for `LevelsNested`, which compares pairs, and one
retry tells the last attempt from an earlier one. Two attempts are every overlap of two
writers; their arguments differ in policy, trace, signing, profile and challenge, and two of
the five may overlap (`Overlapping`, the relay's challenge at FULL among them), since the
number of interleavings of twelve file writes is what limits this run. Four answers and a
limit of two let a window be full, empty a part of itself and be full again, let a token
expire, be replaced and be forgotten, and let a commit be registered twice and asked for, beside
another. Writes and crashes leave any number of fragments, since a fragment is filled up by the next line and
two lines can be lost. PostgreSQL, which has fewer behaviours, is in the theorems only. Traces of 1 to 5 steps are padded to 1, 2, 4 and 8 rows,
so the last step falls on the last row and before it; trees of arity 3 with up to eight leaves
have full, partial and single groups on both levels; queries are fewer than, as many as and
more than the rows (the drawing of the last has no end in the code and no next step here); the samples of an audit are none, some and all. `OpeningsBind` looks at
every batch of one and two positions. The theorems remove the bounds for the properties they cover.

*Deadlock* is not checked for runs that come to rest when the log is written,
the requests are used up and every connection is closed, a capsule has been verified
`MaxVerifications` times, the attempts and the copy are done, the journal is full, or the proof
has been audited or refused: the system may stop there.
`verification` never stops (it can be asked again) and is checked.

*Fairness.* `RelayStream`: weak fairness of each forwarder's `Forward` (its loop
sleeps and polls forever) and of each handler and history loop (the event loop runs
ready coroutines). None for the run, the operator, the network, reading clients or
restarts; the properties name those as escapes. `VerificationJob`: weak fairness of
each task (the thread pool), which includes that `verify_capsule.py` ends; the code
sets no time limit for it. `CapsuleVerify`: weak fairness of the stages, a sequential
program; nothing is assumed about the provider, which may be late every time.

*Mutants.* Each property of a passing run has a mutant of a modelled definition
(in the modules, marked "Mutant of"), under which TLC finds it violated.

## 4. What the checks found

1. `completed_log`: the anchor's log hash and length are taken before the two final
   events, which the verifier requires together with that hash and length; every
   completed run of the pipeline is reported with E201.
2. `structured_verdict`: a header without a row root makes the verifier read a
   variable it has not assigned (`UnboundLocalError`); chunk handles without chunk
   roots and chunks that cannot be decoded raise as well.
3. `packed_capsule`: packing a run without a challenge file raises, because the missing
   path is read as the current directory, which exists and cannot be copied as a file; and
   a pack that is completed lacks `artifact_manifest.json`, without which the verifier answers
   E013. The round-trip test expects both commands to succeed.

Conditions under which a property of a passing run would fail:

* `TornWrites = TRUE` breaks `NoGaps` and `FeedSpec`. `EventStore.append` appends to whatever the
  file ends with: after a write that failed half-way the next line is stored
  "successfully" and broadcast, but reads back as garbage together with the fragment
  (`event_store.py:25`). It costs that one line and no more: `FragmentCost`, and `StoredRuns` with as
  many holes as fragments, are checked with `TornWrites = TRUE` and proved for either value.
* `DeadSendRaises = TRUE` with two subscribers breaks `SubscriberComplete`. `_broadcast`
  passes over `RuntimeError` only. A `WebSocketDisconnect` from a subscriber that has gone
  skips the remaining subscribers and ends the producer's connection. Such subscribers stay
  registered, since `subscribe_socket` never notices that they left.
* `HonestVerifies` names the exceptions the code has. A trace of one step
  cannot be folded and raises. A chunk alone in its group of the chunk tree (17 chunks with
  arity 16) cannot be opened jointly with others: `verify_multiproof` hashes the single node,
  `build_kary_levels` passes it up unhashed.

* `FullChallenged` asks for a trusted and unexpired challenge only if FULL is the *required*
  level, since `_challenge_da_seed` looks at signature, relay and expiry only then
  (`verify_capsule.py:964`) while the status is computed from the outcome of the audit
  (`454-455`). Required at a lower level, a capsule is reported FULLY_VERIFIED with a challenge that is
  unsigned, of an unknown relay, or expired; it only has to be bound to the capsule.
  `docs/spec/05_profiles.md:34-36` ("Unsigned/mismatched/expired challenges MUST result in a
  failure, not a downgrade"; "availability sampling succeeded under a trusted relay
  challenge") and `docs/security_model.md:27` say otherwise. The
  property for every required level would be violated.
* `OpeningsBind` ties an opening to its chunk, its leaf and its value, and not to the index it is
  labelled with: `stc_verify_index` (`pc_backend.py:236-253`) and `verify_batch` (`vc.py:389-394`)
  compare `index` with the length of the vector only, although `fri/verifier.py:62-67` files the values
  under it and `docs/stc_backend_architecture.md:13` has the index as what is verified. Every label
  below the length passes, and the property says so.

Seen while reading, and not stated as runs: with more queries than rows after padding the draws
never end (`geom_adapter.py:93`, `zk_geom/prover.py:69`; the default is 8 queries, so a program of
four steps is enough); `DrawQuery` has no next step there. `run_detail` takes the last hundred lines of the
history for the latest events (`relay.py:561-563`), which after a replay into the file store
they are not. `docs/spec/10_cap_format.md:37` says the verifier reads only what
it unpacked, but a policy with an absolute `archive_root` leads it elsewhere (`verify_capsule.py:1791-1796`).
`STCVectorCommitment.verify_open` raises `TypeError` for more than one chunk (`vc.py:266` takes
`bytes.fromhex` of a list); nothing calls it. A chunk file that is missing raises
`FileNotFoundError`, which the audit does not catch. `server/README.md` documents
`since_seq` where the endpoint reads `after_seq`; `docs/security_model.md` promises
monotone sequence numbers and each required event type once, while the verifier
checks neither. `verify_capsule.py:961` calls a challenge bound to another capsule
"always fatal", but below FULL it is a warning. FULL is accepted without a challenge
for a capsule that has only the older `da_profile`, whose samples come from
`_legacy_da_seed`; `docs/security_model.md:77` says such capsules are refused, and
`FullChallenged` is therefore stated for capsules with a `da_policy`. An audit of
zero samples lowers the status without a warning.

## 5. What is proved

`RelayStreamProofs`, for any log length, any number of executions and subscribers,
either store:

* `TypeCorrect` from `TypeOK` together with "a line in hand lies after the start".
* `StreamInvariant`: `StreamInv` is inductive, torn writes included. `NoGaps`
  and `StoredRuns` are not inductive by themselves: a handler about to append line
  *n* keeps them only because `append` has returned for its own earlier lines. That is the part
  `Delivered`: as long as a handler lives, this holds of everything from its start to the line in
  hand (`Settled`), since a failed write ends the handler. Every line shown therefore ends
  a run of such lines (`AckedRuns`), and `FragmentCost` says how many of them are not on disk.
  `LostLinesBounded`, `RunsStored` and, for replay mode without fragments, `PrefixStored` follow.
* `SubscribersServed` under `DeadSendRaises = FALSE`, from a stronger invariant:
  every *stored or shown* line has reached an open subscriber, waits in its history,
  or is in a broadcast that has yet to list it or serve it.
* `StreamImplementsFeed` under `TornWrites = FALSE` and replay mode: `Append` and
  `AppendFails` are `TakeIn(got[c])`, `Restart` is `Restart`, the rest stutters.

`TornWrites = FALSE` is assumed by `PrefixStored` and `StreamImplementsFeed` only. The two assumptions
are needed: section 4 says what happens without each.

`RunPageProofs` is about what the page of a run shows: `EventPoll` and `VerificationJob`, whose
names do not overlap. Of `EventPoll`, for any log, any number of polls and detail requests, either store:
`PollTypeCorrect` and `PageHasNoHoles`. `NoHoles` is about the page and depends on what the relay
answers: the lines of the history and of the disk are all lines up to some number, through failed
writes and restarts (`HistoryUnbroken`), so is an
answer from `after_seq` on (`AnswersComplete`), and no poll asks for more than the cursor has
passed (`PollsBehindCursor`), except after a detail answer overtook a poll. So an answer always
adjoins what the page shows.

Of `VerificationJob`, for any number of tasks and uploads and any set of accepted
archives: `JobTypeCorrect`; `VerdictsEarned` (each step leaves the file, truncates it,
writes VERIFYING or the verdict of a task, whose text is in order by `TypeOK`); and
`VerdictsSettled` from `Alone`: while the verification is clean there is one active
task, and its phase determines the content of the state file.

`RunEventLogProofs`, for any number of attempts and progress events: `LogTypeCorrect`,
`LogAlwaysChained`, `SealedLogHoldsStatement` and `PassingLogBindsStatement`. The invariant says
of the log that it is one chain of the current attempt up to `seq` (`LogInv`); of the anchor in
memory that it is the hash of a statement line of this log (`AnchorInv`); and of a capsule on
disk that its own two hashes are consistent, and that they are those of the present log if the
attempt that wrote it is still the last (`CapsuleInv`). That a log which passes the chain check
is, up to the statement, the log of the capsule's attempt then follows from the chain alone: a
hash covers all events before it (`HashCoversEvents`), so two chains that agree in one hash have
the same lines up to it.

`CapsuleVerifyProofs`, for any number of retries and of verifications of the capsule:
`TypeCorrect`; `StatusesEarned`; `FullUnderChallenge`. `StatusEarned` speaks of
reports that were made earlier, so each step needs two facts: nothing that was found
is found differently later (`KeepsFacts`; a challenge may only expire), and no report
is changed (`KeepsReports`). `FullChallenged` is about the step that makes a report, and needs what its
own verification read (`KeepsFound`). The report itself needs what the stages before it have
left (`Established`, `Challenged`): rules checked under an attested policy, and behind
`audited` committed roots, samples and good chunks, with a seed from a trusted challenge
when the required level is FULL. The stages go on in two ways only, and
the lemmas `Ending` and `Moving` deal with each once.

`AcceptanceIsNested` (a capsule accepted at one level is accepted at every lower one) and
`DowngradesAreNoted` relate two verifications of a capsule at different levels, each of several
steps. `LevelsInv` makes each verdict speak of the facts alone: a report implies that every test
passes for its level (`Accepts`), and a rejection or crash below FULL that some test fails for
its level (`Refuses`). Found facts stay, so both stay true, and no facts allow an acceptance at
a level and a refusal at a lower one.

`RelayAccessProofs`, for any number of runs, tokens, commits, answers and restarts, and any
times to live: `SocketsByLatestToken` and `ChallengesAfterCommits`. Both properties speak of
the journal alone, so the invariant `AccessInv` says how the tables agree with it: the token of
a run is the last one issued in the *session*, the part of the journal since the last restart
(`TokensLatest`); a commit is known exactly if the session holds it, with the record of its last
registration there (`CommitsKnown`). `PastRight`
shows once that an answer that was right stays right when the journal grows, so each step has to
deal with its own answer only. It needs that `None` is neither a time nor a token.
`RateLimitIsExact` counts in the journal, the code in its windows. `RateInv` keeps a
one-to-one correspondence between the entries of a window and requests the journal shows as let
through in this session, among them all that are recent (`Finds`); windows are ordered, so what
`popleft` removes is exactly what is too old (`RecentIsTail`).

`RunDirectoryProofs`, for any number of attempts with any inputs, whatever stops, follows or
overlaps: `DirectoryTypeCorrect`; `AcceptedFilesAreOfOneRun` (a directory or copy that is
accepted holds the files of one attempt); `CompletedRunIsAccepted` (a run that had the directory
to itself and completed is accepted, whatever earlier attempts left in it); and
`CapVerifiesAsDirectory`.

* The verifier returns `OK` exactly if every check holds (`ChecksHold`, from one lemma for each
  group of checks). So acceptance is a conjunction, which ties each file to the capsule.
* Every capsule that can be found, in the directory or in a copy, was sealed by an attempt over
  what that attempt held in memory, and the same is true of proofs and descriptors (`Genuine` in
  `Written`; `Sealing`). Together they give `AcceptedWhole`.
* The attempt started last, if it ran with no other, has its own files in the directory as far
  as it got (`Own`). With `Sealing` this shows every check of a completed run to hold.
* A copy made while no attempt ran has taken what is still there (`Copying`).

The last two theorems assume `RecordsAreNoMarks`: the values that stand for a missing file, a
file cut short and a missing challenge are not themselves records. TLC uses model values for
them, of which this is true; the logic has no types that would imply it. The other
two do not need it.

The commitment and the proof system have two modules: `TraceCommitmentProofs` (trees and batches)
and, on it, `GeomProofProofs` (the accumulator, the run and the sketches), for any field, arity,
program, jobs, chunk length and number of foreign writes.

*Trees.* The model's trees are recursive functions from levels to levels, so their shape is
proved by induction over a set of numbers (`SetInduction`: a set that contains 0 and is closed under
successor holds every number; the library's induction theorem takes an operator and cannot be
used). A digest is the term that was hashed, so equal nodes have equal children. Going down from
the root, two binary trees of one size with the same root have the same leaves (`TreeBinds`).
Going up from a leaf, the verifier's node at each level is the tree's exactly if the leaf is
(`PathBinds`, `KaryTreeBinds`); for arities above two this includes that the siblings listed for a
level are those the verifier asks for, in order (`PlaceOfRank`), and the nodes that are passed up
alone. For joint openings the step is that a node changed at one level changes the node above it
(`BatchBinds`, `OpenedBatchBinds`). That the honest joint opening passes needs the other direction:
the siblings the opener lists for a level are the ones the verifier asks for, one turn of its loop
leads from nodes of a level to the nodes above them (`TurnCompletes`), and after the last level
one node is left, the root. A turn hashes what it finds, so the step fails at a node that
was passed up unhashed; `BatchOpens` has that exception (`Alone`) as its hypothesis and no other.
Leaves are not nodes (`Level`); chunk roots may be.

*Commitments.* The accumulator over *n* rows (`Accumulated`) and over a vector (`AccumulateShape`)
has the chunk roots at their places and offsets. Hence `ChunkOpensCommitted` and
`ValueOpensCommitted`: what the prover or the provider reads back from a file opens exactly if it
is what was committed there, since the offset of a row is in its leaves.

*The run.* `IInv` is inductive. It says in each phase which rows are committed (`CommitOK`), that
a file holds this run's row, another run's or nothing (`FilesOK`), how many positions are drawn
(`SamplingOK`), and that an opening is what `stc_open_chunk` makes of the row in the cache
(`OpeningsOK`). `OpensCommitted` is not inductive without the last: the step that publishes needs
that a wrong row, opened with the path of the right one, is refused by the self-check.
`TypeCorrect`, `ProofOpensCommitted` and `AuditIsExact` follow.
`AcceptedIsCommitted` needs more of the published proof (`ProofOK` in `AInv`): its layers are the
fold of the composition and its openings joint openings of them. Then a value changed in a layer
is refused by `OpenedBatchBinds`, and a declared result that was changed by one weight alone
(`WeightTells`): the composed value in the trace's last row moves by the weight of the result,
which is not zero.

`HonestProofVerifies` says that an undisturbed run is accepted, by its own check and by every
later one with the same binding. `HInv` adds to `IInv` that a run which reached its check has
opened every drawn position, and that without a foreign write every committed row has
its file. The rest is about one state. The layers open by `BatchOpens`, and each pair of values
folds to the opened value of the next layer (`CompositionVerifies`). The rows open by
`ChunkOpensCommitted` (`RowsOpen`). Taking the masks off an opened row gives the trace's row, and the
constraints and weights the verifier evaluates there, with no step at the trace's last row and in
the padding, give the composed value the prover committed (`ExpectedComposed`). `CheckPasses` puts the three
together; a later check of an undamaged proof with the same binding is the same computation.

`OpeningsAreBinding` is about one state, too. That a chunk or a value does not open at another
place needs more than the honest paths: any path as long as the tree is high ties the position
to the leaf (`PathSound`, `KaryPathSound`), and the offset in the leaves ties the chunk to its
place. That a batch is refused when one of its chunks is alone in a group
(`BatchOpensExactly`) counts the nodes on the way from the root down the last children to a leaf
(`HasDepth`): the verifier hashes a node that the tree passes up unhashed, so its root is deeper
by one at least, and one digest has one depth.

`SketchesStream` needs the arithmetic of the field. Reducing at every step does not change a sum or
a product (`SumReduced`, `ProductReduced`), so `PowMod`, which squares, is the power that the loop
multiplies up (`PowNext`), and the sums of two vectors, the second starting at the power the first
has reached, are those of both as one (`TermsJoin`). `SInv` then says of the accumulator after *n*
rows that each chunk has its place and its sums, that the totals are the sums over the chunks, and
that the chain is over the roots in their order (`Sketched`). The exported chunks end at multiples
of the row width, so one that is missing or moved is at a place where the check does not expect it.

Every safety property and the refinement that the passing runs check are proved. Only
model-checked are the liveness properties (`LineStored`, `SubscriberGets`, `VerifyingEnds`,
`VerificationEnds`), which are out of the prover's reach.

Assumptions on constants are the named ASSUMEs `StreamAssumption`, `PollAssumption`, `LogAssumption`, `JobAssumption`,
`VerifyAssumption`, `AccessAssumption`, `SealAssumption`, `CommitmentAssumption`,
`TraceAssumption`, `ProofAssumption`, `DirectoryAssumption`.

## 6. Plan

What remains, in this order:

1. The refinement of `EventFeed` for tail mode, with the feed starting where the first
   forwarder does.
2. The choice of the store at the start of the relay, with two stores.

## 7. Not modelled

* Contents of events; the list of hardware and software facts in the manifests; rendering; the
  worker proxy (its failures are failed requests of `EventPoll`).
* In `RelayStream`: lines long enough to be read in two parts, events without an integer `seq`
  (PostgreSQL gives them a time stamp), and a change of the store between restarts.
* In `RelayAccess`: the comparison of the admin token, the growth of the table of clients, and the
  signature of a challenge.
* In `CapsuleSeal` and `RunDirectory`: signatures are compared with what was signed; signed
  challenges of the second version, compression, and the rejection of unsafe archive entries are
  left out. Accepted at FULL means within the ten minutes of the challenge; its expiry is in
  `CapsuleVerify`.
* In the proof system: soundness against a dishonest prover, which is probabilistic (an altered
  proof is one with one value changed); the binary chunk archive, the Rust and Merkle row
  backends and the serialization of proofs; Poseidon. What another run writes after the proof was
  audited is left out. That the drawing of positions ends is not stated (section 4).
* The codecs (taken to be injective), the policy registry, the RISC Zero adapter, and the numerical
  programs listed in `PROJECT.json`.

--------------------------- MODULE RunDirectory ---------------------------
(***************************************************************************)
(* A capsule-bench run directory (capsule_bench/cli.py, manifests.py,      *)
(* packing.py, scripts/run_pipeline.py, bef_zk/capsule/cli).               *)
(*                                                                         *)
(* Several attempts may use one directory: a run id may be given again     *)
(* after a failure, and the default id is the time to the second, so that  *)
(* two runs started together share it.  Nothing locks or empties it: every *)
(* attempt overwrites the files one by one and may stop between any two.   *)
(* "capsule emit" and "capsule-bench pack" copy the files one by one while *)
(* attempts may be running.                                                *)
(***************************************************************************)
EXTENDS CapsuleSeal

CONSTANTS Attempts,     \* invocations of "capsule-bench run" with one run id
          Inputs,       \* what they are invoked with
          Kinds,        \* copies made: a subset of {"emit", "pack"}
          Overlapping   \* bound: the inputs with which attempts may overlap

ASSUME DirectoryAssumption ==
    /\ Inputs \subseteq
         [policy : Policies, trace : Traces, signed : BOOLEAN,
          profile : {"proof_only", "full"},
          da : {"none", "insecure", "relay", "file"}]
    /\ None \notin Inputs
    /\ {None, Absent, Torn} \cap Attempts = {}
    /\ Kinds \subseteq {"emit", "pack"}

VARIABLES
    dir,        \* the files of the run directory
    at,         \* the step each attempt is at
    alive,      \* the attempts that are running
    in,         \* the arguments of each attempt
    mem,        \* what each attempt holds in memory
    last,       \* the attempt started last
    mixed,      \* attempts that ran together with another
    copy,       \* the copy being made, or made
    steady      \* nothing has changed since the copy was begun

vars == <<dir, at, alive, in, mem, last, mixed, copy, steady>>
attemptVars == <<at, alive, in, mem, last, mixed>>

\* The steps of an attempt in their order; most write the file of their name.
Steps == <<"manifests", "signature", "policy", "register", "start", "clear",
           "rows", "roots", "digest", "proof", "challenge", "capsule", "index",
           "meta", "done">>
After(step) == Steps[1 + CHOOSE i \in DOMAIN Steps : Steps[i] = step]

Files == BundleFiles \cup {"meta", "challenge"}

Stamp(a) == a
NoMemory == [anchor |-> Absent, policy |-> Absent, rows |-> Absent,
             digest |-> Absent, proof |-> Absent, capsule |-> Absent]

Init ==
    /\ dir = [f \in Files |-> Absent]
    /\ at = [a \in Attempts |-> "new"]
    /\ alive = {} /\ last = None /\ mixed = {}
    /\ in = [a \in Attempts |-> None]
    /\ mem = [a \in Attempts |-> NoMemory]
    /\ copy = [kind |-> None, pc |-> "none", meta |-> Absent,
               files |-> [f \in BundleFiles |-> Absent]]
    /\ steady = FALSE

(***************************************************************************)
(* Files.  A file an attempt is about to write or stopped writing may be   *)
(* seen cut short; two attempts writing one file at once may leave a       *)
(* mixture.  The hash of a file that is cut short is the hash of no file   *)
(* (Absent).  The archive is also cut short while it is being removed.     *)
(***************************************************************************)
Writing(f) == {a \in alive : at[a] = f}

Changing(f) ==
    Writing(f) # {} \/ (f \in {"rows", "roots"} /\ Writing("clear") # {})

Seen(f) ==
    {dir[f]} \cup (IF Changing(f) /\ dir[f] # Absent THEN {Torn} ELSE {})

Left(a, f, content) ==
    {content} \cup (IF Writing(f) = {a} THEN {} ELSE {Torn})

HashOf(content) == IF content = Torn THEN Absent ELSE content

Continue(a) == at' = [at EXCEPT ![a] = After(@)]

Write(a, f, content) ==
    /\ \E left \in Left(a, f, content) : dir' = [dir EXCEPT ![f] = left]
    /\ Continue(a)

Keep(a, field, value) == mem' = [mem EXCEPT ![a][field] = value]

\* Bounds: attempts overlap with some inputs only, and then no copy is made and
\* an attempt only stops by never taking its next step.
MayOverlap(i) ==
    /\ copy.pc = "none"
    /\ {i} \cup {in[b] : b \in alive} \subseteq Overlapping

(***************************************************************************)
(* An attempt.                                                             *)
(***************************************************************************)
Start(a) ==
    /\ at[a] = "new"
    /\ at' = [at EXCEPT ![a] = "manifests"]
    /\ \E i \in Inputs :
          /\ in' = [in EXCEPT ![a] = i]
          /\ alive # {} => MayOverlap(i)
    /\ last' = a
    /\ alive' = alive \cup {a}
    /\ mixed' = IF alive = {} THEN mixed ELSE mixed \cup alive \cup {a}
    /\ UNCHANGED <<dir, mem>>

CollectManifests(a) ==
    /\ at[a] = "manifests"
    /\ Write(a, "manifests", Stamp(a))
    /\ UNCHANGED mem

\* load_manifest_bundle reads the manifests back; the anchor it computes is what
\* is signed, if a signer's key is given.  Without one, the file is left alone.
SignManifests(a) ==
    /\ at[a] = "signature"
    /\ \E anchor \in Seen("manifests") :
          /\ Keep(a, "anchor", HashOf(anchor))
          /\ IF in[a].signed
             THEN Write(a, "signature", HashOf(anchor))
             ELSE Continue(a) /\ UNCHANGED dir

CopyPolicy(a) ==
    /\ at[a] = "policy"
    /\ Write(a, "policy", in[a].policy)
    /\ UNCHANGED mem

\* _register_relay_ingest: it may raise, which is a Stop.
RegisterRun(a) ==
    /\ at[a] = "register"
    /\ Continue(a)
    /\ UNCHANGED <<dir, mem>>

\* The pipeline hashes the copy of the policy in the directory.
StartPipeline(a) ==
    /\ at[a] = "start"
    /\ \E policy \in Seen("policy") : Keep(a, "policy", HashOf(policy))
    /\ Continue(a)
    /\ UNCHANGED dir

ClearArchive(a) ==
    /\ at[a] = "clear"
    /\ dir' = [dir EXCEPT !["rows"] = Absent, !["roots"] = Absent]
    /\ Continue(a)
    /\ UNCHANGED mem

CommitRows(a) ==
    /\ at[a] = "rows"
    /\ Write(a, "rows", in[a].trace)
    /\ UNCHANGED mem

WriteRoots(a) ==
    /\ at[a] = "roots"
    /\ Write(a, "roots", in[a].trace)
    /\ UNCHANGED mem

\* The digest of chunk_roots.bin is taken of the file.
DigestRoots(a) ==
    /\ at[a] = "digest"
    /\ \E roots \in Seen("roots") : Keep(a, "digest", HashOf(roots))
    /\ Continue(a)
    /\ UNCHANGED dir

\* What the attempt seals, from its memory.
Held(a) == [stamp |-> Stamp(a), anchor |-> mem[a].anchor, policy |-> mem[a].policy,
            root |-> in[a].trace, rows |-> mem[a].rows, digest |-> mem[a].digest,
            proof |-> mem[a].proof, profile |-> in[a].profile, dir |-> "run_dir"]

HonestProof(a) == ProofOf(Instance(Statement(Held(a)), in[a].trace))

\* The chunk manifest is made of hashes of the chunk files (_build_chunk_manifest).
WriteProof(a) ==
    /\ at[a] = "proof"
    /\ \E rows \in Seen("rows") : Keep(a, "rows", HashOf(rows))
    /\ Write(a, "proof", HonestProof(a))

\* The hash of the proof is taken of the file; then the challenge is obtained
\* (_load_da_challenge).  A challenge file was made for the commit of an earlier
\* run: it is copied before it is found not to match, and the pipeline raises.
ObtainChallenge(a) ==
    /\ at[a] = "challenge"
    /\ ~(in[a].da = "insecure" /\ in[a].profile = "full")
    /\ \E proof \in Seen("proof") :
          LET m == [Held(a) EXCEPT !.proof = HashOf(proof)]
              commit == CommitHash(Header(Payload(m), ManifestOf(m.proof)))
              challenge ==
                CASE in[a].da = "relay" -> Challenge(commit, "relay", Stamp(a))
                  [] in[a].da = "insecure" -> Challenge(commit, "self", Stamp(a))
                  [] OTHER -> None
          IN mem' = [mem EXCEPT ![a].proof = m.proof,
                                ![a].capsule = Seal(m, challenge)]
    /\ dir' = IF in[a].da = "none" THEN dir ELSE [dir EXCEPT !["challenge"] = "present"]
    /\ IF in[a].da = "file"
       THEN alive' = alive \ {a} /\ UNCHANGED at
       ELSE Continue(a) /\ UNCHANGED alive

WriteCapsule(a) ==
    /\ at[a] = "capsule"
    /\ Write(a, "capsule", mem[a].capsule)
    /\ UNCHANGED mem

\* Mutant of WriteIndex: an index that is there already is kept.
WriteIndexOnce(a) ==
    /\ at[a] = "index"
    /\ IF dir["index"] = Absent
       THEN Write(a, "index", ManifestOf(mem[a].proof))
       ELSE Continue(a) /\ UNCHANGED dir
    /\ UNCHANGED mem

\* artifact_manifest.json is written after the capsule that holds its hash.
WriteIndex(a) ==
    /\ at[a] = "index"
    /\ Write(a, "index", ManifestOf(mem[a].proof))
    /\ UNCHANGED mem

\* Mutant of WriteMeta: the attempt goes on after its last file.
WriteMetaStillAlive(a) ==
    /\ at[a] = "meta"
    /\ Write(a, "meta", [challenge |-> dir["challenge"]])
    /\ UNCHANGED <<alive, mem>>

\* run_meta.json names the challenge file if there is one, a stale one too.
WriteMeta(a) ==
    /\ at[a] = "meta"
    /\ Write(a, "meta", [challenge |-> dir["challenge"]])
    /\ alive' = alive \ {a}
    /\ UNCHANGED mem

\* The attempt dies or raises; the file it was writing may be cut short.
Stop(a) ==
    /\ a \in alive \ mixed
    /\ alive' = alive \ {a}
    /\ at' = [at EXCEPT ![a] = "stopped"]
    /\ \/ UNCHANGED dir
       \/ /\ at[a] \in Files \ {"challenge"}
          /\ at[a] = "signature" => in[a].signed
          /\ dir' = [dir EXCEPT ![at[a]] = Torn]
    /\ UNCHANGED mem

Step(a) ==
    \/ CollectManifests(a) \/ SignManifests(a) \/ CopyPolicy(a) \/ RegisterRun(a)
    \/ StartPipeline(a) \/ ClearArchive(a) \/ CommitRows(a) \/ WriteRoots(a)
    \/ DigestRoots(a) \/ WriteProof(a) \/ WriteCapsule(a) \/ WriteIndex(a)

Attempt(a) ==
    /\ \/ Start(a)
       \/ a \in alive /\ Step(a) /\ UNCHANGED <<alive, in, last, mixed>>
       \/ a \in alive /\ (ObtainChallenge(a) \/ WriteMeta(a) \/ Stop(a))
                      /\ UNCHANGED <<in, last, mixed>>
    /\ steady' = FALSE
    /\ UNCHANGED copy

-----------------------------------------------------------------------------
(***************************************************************************)
(* Copies.  Only what the verifier is given is kept of the files of a copy *)
(* (the event log and the challenge file go along, the first is checked by *)
(* a warning and the second is not read).  One copy is made.               *)
(***************************************************************************)
\* Mutant of CopySteps: the artifact manifest is not copied into a .cap either.
CopyStepsNoIndex(kind) ==
    IF kind = "emit"
    THEN <<"capsule", "proof", "archive", "policy", "manifests", "done">>
    ELSE <<"capsule", "policy", "manifests", "challenge", "archive", "proof", "done">>

CopySteps(kind) ==
    IF kind = "emit"
    THEN <<"capsule", "index", "proof", "archive", "policy", "manifests", "done">>
    ELSE <<"capsule", "policy", "manifests", "challenge", "archive", "proof", "done">>

CopyAfter(kind, pc) ==
    CopySteps(kind)[1 + CHOOSE i \in DOMAIN CopySteps(kind) : CopySteps(kind)[i] = pc]

\* What each step takes.
Group(pc) ==
    CASE pc = "archive" -> {"rows", "roots"}
      [] pc = "manifests" -> {"manifests", "signature"}
      [] pc = "challenge" -> {}
      [] OTHER -> {pc}

\* Whether the step ends the copy with an error: a capsule that is no JSON; for
\* a pack, a FULL capsule without challenge, and a run without a challenge file,
\* for which _copy_da_challenge tries to copy the directory ".".
CopyFails(kind, pc, taken) ==
    \/ pc = "capsule" /\ taken["capsule"] \in {Absent, Torn}
    \/ /\ kind = "pack" /\ pc = "capsule"
       /\ taken["capsule"].payload.profile = "full"
       /\ taken["capsule"].challenge = None
    \/ kind = "pack" /\ pc = "challenge" /\ copy.meta.challenge = Absent

BeginCopy(kind) ==
    /\ copy.pc = "none" /\ mixed = {}
    /\ dir["capsule"] # Absent
    /\ kind = "pack" => dir["meta"] \notin {Absent, Torn} /\ Writing("meta") = {}
    /\ copy' = [copy EXCEPT !.kind = kind, !.pc = "capsule",
                             !.meta = IF kind = "pack" THEN dir["meta"] ELSE Absent]
    /\ steady' = (alive = {})

CopyStep ==
    /\ copy.pc \notin {"none", "done", "failed"}
    /\ \E taken \in [Group(copy.pc) -> UNION {Seen(f) : f \in Group(copy.pc)}] :
          /\ \A f \in Group(copy.pc) : taken[f] \in Seen(f)
          /\ IF CopyFails(copy.kind, copy.pc, taken)
             THEN copy' = [copy EXCEPT !.pc = "failed"]
             ELSE copy' = [copy EXCEPT
                     !.pc = CopyAfter(copy.kind, @),
                     !.files = [f \in BundleFiles |->
                                  IF f \in Group(copy.pc) THEN taken[f] ELSE @[f]]]
    /\ UNCHANGED steady

Copy ==
    /\ (\E kind \in Kinds : BeginCopy(kind)) \/ CopyStep
    /\ UNCHANGED <<dir, attemptVars>>

Next == (\E a \in Attempts : Attempt(a)) \/ Copy

Spec == Init /\ [][Next]_vars

-----------------------------------------------------------------------------
(***************************************************************************)
(* Verification.  da_policy.provider.archive_root is the absolute path of  *)
(* the archive in the run directory, so whatever bundle is verified, the   *)
(* audit reads the archive the directory has when it is verified.          *)
(***************************************************************************)
BundleAt(files) ==
    [f \in BundleFiles \cup {"audited"} |->
        IF f = "audited" THEN dir["rows"] ELSE files[f]]

InPlace == BundleAt(dir)
Copied == BundleAt(copy.files)

\* "capsule verify": a .cap is unpacked first, which raises if the proof has not
\* the recorded size.  There is no option for a policy registry.
DirCode(level) == Verify(InPlace, level, FALSE)
CapCode(level) ==
    IF Copied["proof"] = Torn THEN "raises" ELSE Verify(Copied, level, FALSE)

-----------------------------------------------------------------------------
(***************************************************************************)
(* Properties.                                                             *)
(***************************************************************************)
Contents(f) ==
    CASE f \in {"manifests", "signature"} -> Attempts \cup {Absent, Torn}
      [] f = "policy" -> Policies \cup {Absent, Torn}
      [] f \in {"rows", "roots"} -> Traces \cup {Absent, Torn}
      [] f = "meta" -> [challenge : {Absent, "present"}] \cup {Absent, Torn}
      [] f = "challenge" -> {Absent, "present"}
      [] f = "capsule" -> {mem[a].capsule : a \in Attempts} \cup {Absent, Torn}
      [] f = "proof" -> {HonestProof(a) : a \in {b \in Attempts : in[b] # None}}
                          \cup {Absent, Torn}
      [] f = "index" -> {ManifestOf(mem[a].proof) : a \in Attempts} \cup {Absent, Torn}

\* Types: every file holds something an attempt wrote there, whole or cut short.
TypeOK ==
    /\ \A f \in Files : dir[f] \in Contents(f)
    /\ at \in [Attempts -> {"new", "stopped"} \cup {Steps[i] : i \in DOMAIN Steps}]
    /\ alive \subseteq {a \in Attempts : at[a] \notin {"new", "stopped", "done"}}
    /\ in \in [Attempts -> Inputs \cup {None}]
    /\ last \in Attempts \cup {None}
    /\ mixed \subseteq Attempts
    /\ copy.kind \in Kinds \cup {None}
    /\ copy.files \in [BundleFiles -> {copy.files[f] : f \in BundleFiles}]
    /\ steady \in BOOLEAN

\* Whether the files a verifier relies on are those of attempt a.
FilesOf(b, a, level) ==
    /\ b.capsule = mem[a].capsule
    /\ b.proof = HonestProof(a)
    /\ b.index = ManifestOf(HonestProof(a))
    /\ b.roots = in[a].trace
    /\ level = "full" => b.audited = in[a].trace
    /\ a \notin mixed =>
          b.policy = in[a].policy /\ b.manifests = Stamp(a) /\ b.signature = Stamp(a)

Sealed == {a \in Attempts : mem[a].capsule # Absent}

\* However attempts that share a directory stop, follow or overlap each other,
\* a directory or a copy that is accepted holds the files of one attempt: no
\* capsule is accepted with a proof, an index or an archive of another attempt.
\* Attempts that overlapped may have used each other's manifests and policy file.
AcceptedWhole ==
    \A level \in {"proof_only", "full"} :
       /\ Accepted(InPlace, level, TRUE) =>
             \E a \in Sealed : FilesOf(InPlace, a, level)
       /\ copy.pc = "done" /\ Accepted(Copied, level, TRUE) =>
             \E a \in Sealed : FilesOf(Copied, a, level)

\* A run that completed is accepted, whatever earlier attempts left in the
\* directory, if its manifests were signed: at FULL too with a relay's challenge.
CompletedVerifies ==
    last # None /\ alive = {} =>
       (at[last] = "done" /\ last \notin mixed /\ in[last].signed =>
           /\ Accepted(InPlace, "proof_only", TRUE)
           /\ in[last].da = "relay" => Accepted(InPlace, "full", TRUE))

\* A .cap made while no attempt was running is accepted exactly if the directory
\* is; if the directory holds one attempt's files, the verdicts are the same.
CapAgrees ==
    copy.kind = "emit" /\ copy.pc = "done" /\ steady =>
       \A level \in {"proof_only", "full"} :
          /\ (CapCode(level) = "OK") = (DirCode(level) = "OK")
          /\ (\E a \in Sealed : FilesOf(InPlace, a, level)) =>
                CapCode(level) = DirCode(level)

\* tests/test_cli_roundtrip.py runs "pack" on a completed run and verifies what
\* it made; both commands must exit with 0.
PackVerifies ==
    /\ copy.kind = "pack" /\ copy.pc \in {"done", "failed"} /\ steady
    /\ Accepted(InPlace, "proof_only", FALSE)
    => copy.pc = "done" /\ Accepted(Copied, "proof_only", FALSE)
=============================================================================

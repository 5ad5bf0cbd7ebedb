---------------------------- MODULE CapsuleSeal ----------------------------
(***************************************************************************)
(* How a capsule is sealed and what of it the verifier recomputes          *)
(* (bef_zk/capsule/header.py, payload.py, da.py, the end of                *)
(* scripts/run_pipeline.py, the first half of _verify_capsule_core).       *)
(*                                                                         *)
(* A hash is represented by the value it is taken of, so two hashes are    *)
(* equal exactly if their inputs are: SHA-256 is taken to be injective and *)
(* the canonical encoding too.  A file is represented by its content.      *)
(***************************************************************************)
EXTENDS Naturals, Sequences, FiniteSets

CONSTANTS Policies,     \* contents a policy file may have
          Traces,       \* executions a run may prove, one per set of arguments
          None,         \* no challenge; a field that is null
          Absent,       \* no such file
          Torn          \* a file whose writing was cut short

ASSUME SealAssumption ==
    /\ None # Absent /\ None # Torn /\ Absent # Torn
    /\ {None, Absent, Torn} \cap (Policies \cup Traces) = {}

(***************************************************************************)
(* What a run holds in memory when it seals, as far as it differs between  *)
(* runs: "stamp" stands for everything fresh in a run (the time stamps in  *)
(* its events), "anchor" for the manifests it found, "policy" for the      *)
(* bytes of the policy file, "root" for the root of the trace.  "rows",    *)
(* "digest" and "proof" are hashes it took of files it had written, and so *)
(* of what these files held when they were read back.                      *)
(***************************************************************************)
Statement(m) ==
    [policy |-> m.policy, root |-> m.root,
     anchor |-> [ref |-> m.anchor, head |-> m.stamp]]

\* hash_instance_binding: what the proof is bound to, besides parameters that
\* are the same in every run.
Instance(stmt, root) == [stmt |-> stmt, root |-> root]

\* The proof file of an honest prover; verification against another instance
\* fails because the transcript starts from it.
ProofOf(instance) == [binding |-> instance]
\* Mutant of ProofVerifies: the transcript does not start from the instance.
ProofVerifiesUnbound(proof, instance) == proof # Absent

ProofVerifies(proof, instance) == proof = [binding |-> instance]

\* The descriptor written to artifact_manifest.json: the paths of the run, the
\* same in every run, and the hash of the proof.
ManifestOf(proof) == [proof |-> proof]

(***************************************************************************)
(* The payload (PAYLOAD_KEYS).  "rowRef" is row_index_ref, "handles" and   *)
(* "digest" the row archive's entries, "provider" the absolute path of the *)
(* archive in da_policy: it is part of the payload, although header hashes *)
(* are taken of the policy without it (sanitize_da_policy).                *)
(***************************************************************************)
Payload(m) ==
    LET stmt == Statement(m)
    IN [statement |-> stmt, policy |-> m.policy, profile |-> m.profile,
        anchor |-> [ref |-> m.anchor, head |-> m.stamp, log |-> m.stamp],
        rowRef |-> m.root, handles |-> m.rows, digest |-> m.digest,
        instance |-> Instance(stmt, m.root), proof |-> m.proof,
        da_policy |-> [sampling |-> "light", provider |-> m.dir]]

PayloadView(p) == p

\* sanitize_da_policy: the header commits to the policy without the path.
SanitizedPolicy(d) == [sampling |-> d.sampling]

Header(p, manifest) ==
    [statement |-> p.statement, profile |-> p.profile, policyRef |-> p.policy,
     anchor |-> p.anchor, root |-> p.rowRef, handles |-> p.handles,
     daPolicy |-> SanitizedPolicy(p.da_policy), challenge |-> None,
     instance |-> p.instance, manifest |-> manifest, payload |-> PayloadView(p)]

\* The hash the relay's challenge is bound to: the header without the challenge
\* that is put into it afterwards.
CommitHash(h) == [h EXCEPT !.challenge = None]
CapsuleHash(commit, payload) == [commit |-> commit, payload |-> payload]

(***************************************************************************)
(* Challenges.  A relay signs the challenge it issues for a commit, the    *)
(* pipeline may make an unsigned one; a challenge file is one of either    *)
(* that was stored before.                                                 *)
(***************************************************************************)
Challenge(commit, signer, id) == [commit |-> commit, signer |-> signer, id |-> id]

Seal(m, challenge) ==
    LET p == Payload(m)
        h == Header(p, ManifestOf(m.proof))
    IN [payload |-> p,
        header |-> IF challenge = None THEN h ELSE [h EXCEPT !.challenge = challenge],
        payload_hash |-> PayloadView(p),
        header_commit_hash |-> CommitHash(h),
        capsule_hash |-> CapsuleHash(CommitHash(h), PayloadView(p)),
        challenge |-> challenge]

-----------------------------------------------------------------------------
(***************************************************************************)
(* The verifier.  A check is a pair of a condition and the code returned   *)
(* when it fails; the first that fails decides.                            *)
(***************************************************************************)
FirstFailure(checks) ==
    IF \A i \in DOMAIN checks : checks[i][1]
    THEN "OK"
    ELSE checks[CHOOSE i \in DOMAIN checks :
                   ~checks[i][1] /\ \A j \in 1 .. i - 1 : checks[j][1]][2]

\* Recomputed hashes of the capsule against the recorded ones (1185-1230; the
\* recorded header hash covers the header alone and is recomputed from it).
HashesAgree(c) ==
    LET payload == PayloadView(c.payload)
        commit == CommitHash(c.header)
    IN <<
      <<c.payload_hash = payload, "E011">>,
      <<c.capsule_hash = CapsuleHash(commit, payload), "E011">>,
      <<c.header.payload = payload, "E013">>,
      <<c.header_commit_hash = commit, "E013">> >>

\* The challenge (908-1043): at FULL it must also be a trusted relay's.
ChallengeStatus(c, full) ==
    FirstFailure(<<
      <<c.header.challenge = None \/ c.challenge # None, "E071">>,
      <<c.challenge = None \/ c.header.challenge \in {None, c.challenge}, "E072">>,
      <<c.challenge = None \/ c.challenge.commit = CommitHash(c.header), "E072">>,
      <<~full \/ c.challenge = None \/ c.challenge.signer = "relay", "E073">> >>)

\* Sections of the payload against the header (1274-1336).
HeaderBindsPayload(c) ==
    LET p == c.payload
        h == c.header
    IN <<
      <<p.anchor = h.anchor, "E013">>,
      <<p.handles = h.handles, "E013">>,
      <<h.instance = Instance(h.statement, h.root), "E301">>,
      <<p.policy = h.policyRef, "E013">>,
      <<SanitizedPolicy(p.da_policy) = h.daPolicy, "E013">>,
      <<p.rowRef = h.root, "E013">> >>

\* The statement against what it is about (1459-1474, 1527-1540).
StatementBound(c) ==
    LET p == c.payload
    IN <<
      <<p.statement = c.header.statement, "E053">>,
      <<p.statement.policy = p.policy, "E053">>,
      <<p.statement.root = p.rowRef, "E053">>,
      <<p.statement.anchor = [ref |-> p.anchor.ref, head |-> p.anchor.head], "E053">> >>

(***************************************************************************)
(* A bundle: the files the verifier is pointed at.  "audited" is the       *)
(* directory the data-availability audit reads, which is not part of what  *)
(* was copied (see Provider in RunDirectory).                              *)
(***************************************************************************)
BundleFiles == {"capsule", "index", "policy", "manifests", "signature",
                "proof", "rows", "roots"}

\* The audit at FULL (below it its failures are warnings): the chunk files must
\* be those whose hashes are in the capsule (_resolve_chunk_handle_entries), and
\* their Merkle roots the chunk roots.  Every chunk is sampled: the 139 samples
\* of the default policy are more than the chunks of a small run.
AuditStatus(c, b) ==
    FirstFailure(<<
      <<b.audited # Absent, "E062">>,
      <<b.audited = c.payload.handles, "E075">>,
      <<c.challenge # None, "E071">>,
      <<b.audited = b.roots, "E065">> >>)

\* The policy document (1338-1381) and the proof file (1410-1451).
PolicyChecks(b, c) == <<
    <<b.policy # Absent, "E036">>,
    <<b.policy = c.payload.policy, "E033">> >>

ProofFileChecks(b, c) == <<
    <<b.proof # Absent, "raises">>,
    <<b.proof = c.payload.proof, "E052">> >>

\* _enforce_policy_rules: the manifests are those of the anchor, and signed.
ManifestChecks(b, c) == <<
    <<b.manifests # Absent /\ b.manifests = c.payload.anchor.ref, "E104">>,
    <<b.signature # Absent /\ b.signature # Torn, "E106">>,
    <<b.signature = b.manifests, "E107">> >>

\* The row archive below FULL: its chunk roots are read, not its chunks.
ArchiveChecks(b, c) == <<
    <<b.rows # Absent /\ b.roots # Absent, "raises">>,
    <<b.roots = c.payload.digest, "E063">>,
    <<b.roots = c.payload.rowRef, "E064">> >>

(***************************************************************************)
(* _verify_capsule_core for a required level ("proof_only" or "full") and  *)
(* a verifier that has a policy registry or not (attested).  "raises" is   *)
(* an exception that leaves the function.  The capsule carries a valid     *)
(* signature and its authors are not restricted (CapsuleVerify has those). *)
(***************************************************************************)
Checks(b, c, full, attested) ==
    LET challenge == ChallengeStatus(c, full)
    IN HashesAgree(c)
       \o << <<challenge = "OK" \/ ~(full \/ challenge = "E073"), challenge>>,
             <<b.index = c.header.manifest, "E013">> >>
       \o HeaderBindsPayload(c) \o PolicyChecks(b, c) \o ProofFileChecks(b, c)
       \o StatementBound(c) \o ManifestChecks(b, c)
       \o << <<ProofVerifies(b.proof, c.header.instance), "E054">> >>
       \o ArchiveChecks(b, c)
       \o << <<~full \/ AuditStatus(c, b) = "OK", AuditStatus(c, b)>>,
             <<~full \/ attested, "W_POLICY_SELF_REPORTED">> >>

Verify(b, level, attested) ==
    CASE b.index = Torn -> "raises"
      [] b.index # Torn /\ b.capsule \in {Absent, Torn} -> "E002"
      [] OTHER -> FirstFailure(Checks(b, b.capsule, level = "full", attested))

Accepted(b, level, attested) == Verify(b, level, attested) = "OK"

\* error_to_exit_code of the capsule command; whatever it does not list is 20.
ExitCode(code) ==
    CASE code = "OK" -> 0
      [] code \in {"E052", "E053", "E054", "E301"} -> 10
      [] code \in {"E033", "E036", "E104", "E106", "E107"} -> 11
      [] code \in {"E062", "E063", "E064", "E065", "E075"} -> 12
      [] code \in {"E071", "E072", "E073"} -> 13
      [] OTHER -> 20
=============================================================================

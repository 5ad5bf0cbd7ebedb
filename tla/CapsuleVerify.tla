---------------------------- MODULE CapsuleVerify ----------------------------
(***************************************************************************)
(* _verify_capsule_core of scripts/verify_capsule.py: the stages one       *)
(* verification goes through, what each does at the level that was asked   *)
(* for (reject the capsule, note a warning, crash), and the status that is *)
(* reported. The client of the data-availability audit with its retries    *)
(* and time limit (bef_zk/da/provider.py) is part of it.                   *)
(*                                                                         *)
(* The same capsule is verified several times with the same options and    *)
(* different required levels. What there is to find in it is not chosen    *)
(* beforehand: a fact is unknown until a stage looks at it, and stays what *)
(* it was found to be. Two things depend on the moment: whether the        *)
(* challenge has expired, and how long the provider takes. A challenge     *)
(* and an archive are classified by what the stages can tell apart; tree   *)
(* arities are at least two. A named file that does not exist raises       *)
(* FileNotFoundError, as verify_capsule does for E062: it counts as a      *)
(* rejection.                                                              *)
(***************************************************************************)
EXTENDS Naturals, FiniteSets

CONSTANTS
    Retries,             \* provider_retry_count of the capsule's da_policy
    MaxVerifications     \* bound on the verifications of the capsule

ASSUME VerifyAssumption == Retries \in Nat /\ MaxVerifications \in Nat

VARIABLES
    facts,       \* facts[f]: what is known of the capsule and the options
    level,       \* the required level, Idle between verifications
    stage,       \* the next stage
    warnings,    \* codes noted by this verification
    seeded,      \* the challenge has given a seed (challenge_seed)
    audited,     \* da_audit_verified
    attempt,     \* attempts of the provider that came too late
    verdicts     \* verdicts[l]: the outcome at required level l

locals == <<warnings, seeded, audited, attempt>>
vars == <<facts, level, stage, locals, verdicts>>

Order == [REJECTED |-> 0, PROOF_ONLY |-> 1, POLICY_SELF_REPORTED |-> 2,
          POLICY_ENFORCED |-> 3, FULLY_VERIFIED |-> 4]
Levels == DOMAIN Order \ {"REJECTED"}
Idle   == "idle"

AtLeast(l) == Order[level] >= Order[l]
Full       == AtLeast("FULLY_VERIFIED")

\* The outcomes a fact can have.
Outcomes ==
    [header    |-> {"ok", "bad"},
     challenge |-> {"absent", "lost", "altered", "unbound", "untrusted", "expired", "trusted"},
     binding   |-> {"ok", "bad", "rootless"},
     policy    |-> {"none", "bad", "document", "attested"},
     statement |-> {"ok", "bad"},
     events    |-> {"ok", "bad", "misshapen"},
     rules     |-> {"ok", "bad"},
     proof     |-> {"ok", "bad"},
     archive   |-> {"bad", "uncommitted", "empty", "roots"},
     author    |-> {"absent", "bad", "signed"},
     acl       |-> {"none", "unlisted", "listed"},
     da        |-> {"none", "policy", "legacy"},
     mode      |-> {"local", "other"},
     store     |-> {"dir", "missing"},
     handles   |-> {"none", "bad", "listed"},
     samples   |-> {"none", "some"},
     chunks    |-> {"good", "corrupt", "unsized", "undecodable"}]
Unknown == "unknown"

Stages == {"header", "challenge", "binding", "policy", "statement", "events", "rules",
           "proof", "archive", "author", "da", "mode", "store", "handles", "seed", "audit",
           "fetch", "report"}

\* _WARNING_THRESHOLDS: the warnings that reject the capsule at this level.
DACodes == {"E060", "E062", "E070", "E071", "E072", "E074", "E077", "E065"}
Rejecting == (IF Full THEN DACodes ELSE {})
             \cup (IF AtLeast("POLICY_ENFORCED") THEN {"W_SELF"} ELSE {})

AuditCodes == DACodes \cup {"E066", "E075"}
Codes      == AuditCodes \cup {"E201", "W_SELF"}

\* No verdict yet, an error code, an exception that leaves the function, a report.
None           == [kind |-> "none"]
Rejected(code) == [kind |-> "rejected", code |-> code]
Crashed        == [kind |-> "crashed"]
Report(s, w)   == [kind |-> "report", status |-> s, warnings |-> w]

Init ==
    /\ facts = [f \in DOMAIN Outcomes |-> Unknown]
    /\ level = Idle
    /\ stage = "header"
    /\ warnings = {}
    /\ seeded = FALSE
    /\ audited = FALSE
    /\ attempt = 0
    /\ verdicts = [l \in Levels |-> None]

-----------------------------------------------------------------------------
(* Ways a stage goes on. Each leaves facts to the stage.                   *)

\* The stage looks at f and finds o.
Found(f, o) == facts[f] \in {Unknown, o} /\ facts' = [facts EXCEPT ![f] = o]

Goto(s) == stage' = s /\ UNCHANGED <<level, locals, verdicts>>

\* Mutant of Ends: the warnings of one verification stay for the next.
EndsKeepingWarnings(v) ==
    /\ verdicts' = [verdicts EXCEPT ![level] = v]
    /\ level' = Idle
    /\ stage' = "header"
    /\ seeded' = FALSE
    /\ audited' = FALSE
    /\ attempt' = 0
    /\ UNCHANGED warnings

\* The verification returns, or raises, v.
Ends(v) ==
    /\ verdicts' = [verdicts EXCEPT ![level] = v]
    /\ level' = Idle
    /\ stage' = "header"
    /\ warnings' = {}
    /\ seeded' = FALSE
    /\ audited' = FALSE
    /\ attempt' = 0

\* The code is noted and the verification goes on at stage s.
Warns(code, s) ==
    /\ warnings' = warnings \cup {code}
    /\ stage' = s
    /\ UNCHANGED <<level, seeded, audited, attempt, verdicts>>

\* "if da_required: return code", otherwise a warning.
Degrades(code, s) ==
    \/ Full /\ Ends(Rejected(code))
    \/ ~Full /\ Warns(code, s)

\* A check that does not depend on the level.
Check(s, f, next) ==
    /\ stage = s
    /\ \/ Found(f, "ok") /\ Goto(next)
       \/ Found(f, "bad") /\ Ends(Rejected(s))

-----------------------------------------------------------------------------
(* The stages, in the order of the code.                                   *)

\* verify_capsule is called with required_level l.
Begin(l) ==
    /\ level = Idle
    /\ verdicts[l] = None
    /\ Cardinality({m \in Levels : verdicts[m] # None}) < MaxVerifications
    /\ level' = l
    /\ UNCHANGED <<facts, stage, locals, verdicts>>

\* The hashes of payload, header and proof system.
Header == Check("header", "header", "challenge")

\* Mutant of ChallengeStatus: the expiry is not looked at.
ChallengeStatusTimeless(c) ==
    CASE c = "lost"    -> "E071"
      [] c = "altered" -> "E072"
      [] c = "unbound" -> "E077"
      [] c = "untrusted" /\ Full -> "E073"
      [] OTHER -> "OK"

\* _challenge_da_seed: signature, issuer and expiry are looked at for FULL only.
ChallengeStatus(c) ==
    CASE c = "lost"    -> "E071"
      [] c = "altered" -> "E072"
      [] c = "unbound" -> "E077"
      [] c \in {"untrusted", "expired"} /\ Full -> "E073"
      [] OTHER -> "OK"

Challenge ==
    /\ stage = "challenge"
    /\ \E c \in Outcomes.challenge :
        /\ Found("challenge", c)
        /\ IF ChallengeStatus(c) = "OK"
           THEN /\ seeded' = (c # "absent")
                /\ stage' = "binding"
                /\ UNCHANGED <<level, warnings, audited, attempt, verdicts>>
           ELSE Degrades(ChallengeStatus(c), "binding")

\* The parts of the capsule against their hashes in the header. The instance
\* binding of a header without a row root reads row_index_ref before it is
\* assigned.
Binding ==
    \/ Check("binding", "binding", "policy")
    \/ /\ stage = "binding"
       /\ Found("binding", "rootless")
       /\ Ends(Crashed)

\* The policy document, and its inclusion proof when a registry root is given.
Policy ==
    /\ stage = "policy"
    /\ \E p \in Outcomes.policy :
        /\ Found("policy", p)
        /\ IF p = "bad" THEN Ends(Rejected("policy")) ELSE Goto("statement")

\* The proof is read; statement and row commitment must agree with the header.
Statement == Check("statement", "statement", "events")

\* The event log never rejects a capsule; a line that is JSON but not an object
\* raises AttributeError.
Events ==
    /\ stage = "events"
    /\ \/ Found("events", "ok") /\ Goto("rules")
       \/ Found("events", "bad") /\ Warns("E201", "rules")
       \/ Found("events", "misshapen") /\ Ends(Crashed)

\* _enforce_policy_rules: satisfied when there is no policy document.
Rules ==
    \/ facts.policy # "none" /\ Check("rules", "rules", "proof")
    \/ facts.policy = "none" /\ stage = "rules" /\ Goto("proof") /\ UNCHANGED facts

\* The proof itself, then the Nova state.
Proof == Check("proof", "proof", "archive")

\* The row archive's chunk roots against the row commitment; how many there are
\* is compared with the chunk handles unless there are none.
Archive ==
    /\ stage = "archive"
    /\ \E a \in Outcomes.archive :
        /\ Found("archive", a)
        /\ IF a = "bad" THEN Ends(Rejected("archive")) ELSE Goto("author")

\* A signature is required by an access list and from POLICY_SELF_REPORTED on;
\* one that is present must be valid. An access list must name the signer.
Author ==
    /\ stage = "author"
    /\ \E a \in Outcomes.author, c \in Outcomes.acl :
        /\ facts.author \in {Unknown, a} /\ facts.acl \in {Unknown, c}
        /\ facts' = [facts EXCEPT !.author = a, !.acl = c]
        /\ IF \/ a = "bad"
              \/ a = "absent" /\ (c # "none" \/ AtLeast("POLICY_SELF_REPORTED"))
              \/ c = "unlisted"
           THEN Ends(Rejected("author"))
           ELSE Goto("da")

-----------------------------------------------------------------------------
(* The data-availability audit.                                            *)

\* Without chunk roots the audit goes on below FULL.
DA ==
    /\ stage = "da"
    /\ \E d \in Outcomes.da :
        /\ Found("da", d)
        /\ IF d = "none"
           THEN \/ Full /\ Ends(Rejected("E071"))
                \/ ~Full /\ Goto("report")
           ELSE IF facts.archive # "roots" THEN Degrades("E060", "mode") ELSE Goto("mode")

Mode ==
    /\ stage = "mode"
    /\ \/ Found("mode", "local") /\ Goto("store")
       \/ Found("mode", "other") /\ Degrades("E070", "report")

Store ==
    /\ stage = "store"
    /\ \/ Found("store", "dir") /\ Goto("handles")
       \/ Found("store", "missing") /\ Degrades("E062", "report")

\* A handle may be unusable (E075) or its file missing (E062), to the same effect.
\* LocalFileSystemProvider wants as many roots as handles, or raises.
Handles ==
    /\ stage = "handles"
    /\ \E h \in Outcomes.handles :
        /\ Found("handles", h)
        /\ CASE h # "listed" -> Degrades("E075", "report")
             [] h = "listed" /\ facts.archive # "roots" -> Ends(Crashed)
             [] OTHER -> Goto("seed")


\* Mutant of Seed: the missing challenge is not noted.
SeedSilent ==
    /\ stage = "seed"
    /\ IF seeded \/ facts.da = "legacy"
       THEN Goto("audit")
       ELSE \/ Full /\ Ends(Rejected("E071"))
            \/ ~Full /\ Goto("report")
    /\ UNCHANGED facts

\* A da_policy needs a challenge; a legacy profile has a seed of its own.
Seed ==
    /\ stage = "seed"
    /\ IF seeded \/ facts.da = "legacy" THEN Goto("audit") ELSE Degrades("E071", "report")
    /\ UNCHANGED facts

\* _run_da_audit: without samples to take it is over, and has verified nothing.
\* The provider raises an error that is not handled when it cannot decode a chunk.
Audit ==
    /\ stage = "audit"
    /\ \/ Found("samples", "none") /\ Goto("report")
       \/ /\ facts.samples \in {Unknown, "some"}
          /\ \E c \in Outcomes.chunks :
              /\ facts.chunks \in {Unknown, c}
              /\ facts' = [facts EXCEPT !.samples = "some", !.chunks = c]
              /\ CASE c = "unsized"     -> Degrades("E066", "report")
                   [] c = "undecodable" -> Ends(Crashed)
                   [] OTHER             -> Goto("fetch")

\* Mutant of Sample: the chunks are not compared with their roots.
SampleUnchecked ==
    /\ stage = "fetch"
    /\ audited' = TRUE
    /\ stage' = "report"
    /\ UNCHANGED <<facts, level, warnings, seeded, attempt, verdicts>>

\* The sampled chunks and their proofs against the chunk roots.
Sample ==
    /\ stage = "fetch"
    /\ IF facts.chunks = "good"
       THEN /\ audited' = TRUE
            /\ stage' = "report"
            /\ UNCHANGED <<level, warnings, seeded, attempt, verdicts>>
       ELSE Degrades("E065", "report")
    /\ UNCHANGED facts

\* Mutant of Late: a provider without attempts left rejects at every level.
LateRejects ==
    /\ stage = "fetch"
    /\ facts.da = "policy"
    /\ IF attempt < Retries
       THEN attempt' = attempt + 1 /\ UNCHANGED <<level, stage, warnings, seeded, audited, verdicts>>
       ELSE Ends(Rejected("E074"))
    /\ UNCHANGED facts

\* Mutant of Late: after the last retry comes another one.
LateRestarts ==
    /\ stage = "fetch"
    /\ facts.da = "policy"
    /\ attempt' = IF attempt < Retries THEN attempt + 1 ELSE 0
    /\ UNCHANGED <<facts, level, stage, warnings, seeded, audited, verdicts>>

\* PolicyAwareDAClient, which only a da_policy has: an answer after the time limit
\* is thrown away and asked for again, until the retries are used up.
Late ==
    /\ stage = "fetch"
    /\ facts.da = "policy"
    /\ IF attempt < Retries
       THEN attempt' = attempt + 1 /\ UNCHANGED <<level, stage, warnings, seeded, audited, verdicts>>
       ELSE Degrades("E074", "report")
    /\ UNCHANGED facts

-----------------------------------------------------------------------------
(* The report.                                                             *)

Attested == facts.policy = "attested"
Signed   == facts.author = "signed"

\* _compute_status; header, proof, policy and access list have passed by now.
Status ==
    CASE ~Signed              -> "PROOF_ONLY"
      [] Signed /\ ~Attested  -> "POLICY_SELF_REPORTED"
      [] Signed /\ Attested   -> IF audited THEN "FULLY_VERIFIED" ELSE "POLICY_ENFORCED"

\* Warnings that reject at this level, then the level itself.
Conclude ==
    LET noted == warnings \cup IF Attested THEN {} ELSE {"W_SELF"}
    IN  /\ stage = "report"
        /\ \/ \E c \in noted \cap Rejecting : Ends(Rejected(c))
           \/ /\ noted \cap Rejecting = {}
              /\ Ends(IF Order[Status] < Order[level] THEN Rejected("E302") ELSE Report(Status, noted))
        /\ UNCHANGED facts

\* A challenge expires; nothing else changes between two verifications.
Expire ==
    /\ level = Idle
    /\ facts.challenge = "trusted"
    /\ facts' = [facts EXCEPT !.challenge = "expired"]
    /\ UNCHANGED <<level, stage, locals, verdicts>>

-----------------------------------------------------------------------------
Step ==
    /\ level # Idle
    /\ \/ Header \/ Challenge \/ Binding \/ Policy \/ Statement \/ Events \/ Rules \/ Proof
       \/ Archive \/ Author \/ DA \/ Mode \/ Store \/ Handles \/ Seed \/ Audit \/ Sample
       \/ Late \/ Conclude

Next == Step \/ Expire \/ \E l \in Levels : Begin(l)

Spec == Init /\ [][Next]_vars

\* verify_capsule.py is a sequential program that keeps running.
FairSpec == Spec /\ WF_vars(Step)

-----------------------------------------------------------------------------
TypeOK ==
    /\ DOMAIN facts = DOMAIN Outcomes
    /\ \A f \in DOMAIN Outcomes : facts[f] \in Outcomes[f] \cup {Unknown}
    /\ level \in Levels \cup {Idle}
    /\ stage \in Stages
    /\ warnings \subseteq Codes
    /\ seeded \in BOOLEAN /\ audited \in BOOLEAN
    /\ attempt \in 0..Retries
    /\ DOMAIN verdicts = Levels
    /\ \A l \in Levels : verdicts[l].kind \in {"none", "rejected", "crashed", "report"}
    /\ level = Idle => stage = "header" /\ warnings = {} /\ attempt = 0 /\ ~seeded /\ ~audited

Reports(l) == verdicts[l].kind = "report"

\* A capsule that is accepted at one level is accepted at every lower one, late
\* providers and an expired challenge notwithstanding (docs/spec/SPEC.md: "each
\* building on the previous").
LevelsNested ==
    \A l, m \in Levels :
        Reports(m) /\ Order[l] < Order[m] /\ verdicts[l] # None => Reports(l)

\* A reported status is at least the required level and rests on its checks: an
\* attested policy and a valid signature from POLICY_ENFORCED on, and for
\* FULLY_VERIFIED samples that agree with committed chunk roots.
StatusEarned ==
    \A l \in Levels : Reports(l) =>
        LET s == Order[verdicts[l].status]
        IN  /\ s >= Order[l]
            /\ s >= Order.POLICY_SELF_REPORTED => Signed
            /\ s >= Order.POLICY_ENFORCED => Attested /\ facts.rules = "ok"
            /\ s = Order.FULLY_VERIFIED =>
                  facts.archive = "roots" /\ facts.samples = "some" /\ facts.chunks = "good"

\* When a verification reports FULLY_VERIFIED for a capsule with a da_policy, its
\* audit drew from a challenge that is there, has the expected hash and is bound to
\* the capsule; at required level FULL the challenge was also signed by the trusted
\* relay and had not expired when this verification looked (_challenge_da_seed looks
\* at trust and expiry for FULL only). What an earlier verification saw is not enough.
FullChallenged ==
    [][\A l \in Levels :
         /\ verdicts'[l] # verdicts[l]
         /\ verdicts'[l].kind = "report" /\ verdicts'[l].status = "FULLY_VERIFIED"
         /\ facts.da = "policy"
         => facts.challenge \in IF l = "FULLY_VERIFIED" THEN {"trusted"}
                                ELSE {"untrusted", "expired", "trusted"}]_vars

\* An audit that was asked for and did not succeed leaves a warning: the status is
\* not lowered silently. (An audit of no samples does lower it silently.)
NoSilentDowngrade ==
    \A l \in Levels :
        Reports(l) /\ facts.da # "none" /\ facts.samples # "none"
            /\ Order[verdicts[l].status] = Order.POLICY_ENFORCED
        => verdicts[l].warnings \cap AuditCodes # {}

\* Every verification ends, however often the provider is late.
VerificationEnds == level # Idle ~> level = Idle

\* "The result is a structured verdict ... with error codes if any predicate
\* fails" (docs/primer.md).
Structured == \A l \in Levels : verdicts[l].kind # "crashed"
=============================================================================

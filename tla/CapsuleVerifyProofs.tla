------------------------- MODULE CapsuleVerifyProofs -------------------------
(***************************************************************************)
(* Theorems about CapsuleVerify, for any number of retries and             *)
(* verifications: what a reported status rests on, and why the levels are  *)
(* nested.                                                                 *)
(***************************************************************************)
EXTENDS CapsuleVerify, TLAPS

Names == {"header", "challenge", "binding", "policy", "statement", "events", "rules",
          "proof", "archive", "author", "acl", "da", "mode", "store", "handles",
          "samples", "chunks"}

LEMMA FactNames == DOMAIN Outcomes = Names
BY DEF Outcomes, Names

LEMMA LevelNames ==
  /\ Levels = {"PROOF_ONLY", "POLICY_SELF_REPORTED", "POLICY_ENFORCED", "FULLY_VERIFIED"}
  /\ Idle \notin Levels
BY DEF Levels, Order, Idle

\* What is found is what was known, and nothing else becomes known.
LEMMA FoundFacts ==
  ASSUME DOMAIN facts = Names, NEW f \in Names, NEW o, Found(f, o)
  PROVE  /\ DOMAIN facts' = Names
         /\ facts'[f] = o
         /\ \A g \in Names : g # f => facts'[g] = facts[g]
         /\ facts[f] \in {Unknown, o}
BY DEF Found

-----------------------------------------------------------------------------
(* What the verification under way has established.                        *)

AfterRules  == {"proof", "archive", "author", "da", "mode", "store", "handles", "seed",
                "audit", "fetch", "report"}
AfterPolicy == AfterRules \cup {"statement", "events", "rules"}
InAudit     == {"mode", "store", "handles", "seed", "audit", "fetch"}

Established ==
  /\ stage \in AfterPolicy => facts.policy # Unknown
  /\ stage \in AfterRules /\ Attested => facts.rules = "ok"
  /\ stage \in {"seed", "audit", "fetch"} => facts.archive = "roots"
  /\ stage = "fetch" => facts.samples = "some"
  /\ audited => facts.archive = "roots" /\ facts.samples = "some" /\ facts.chunks = "good"

\* The challenges that give no seed below FULL, and those that do.
Unseeding == {"absent", "lost", "altered", "unbound"}
Seeding   == {"untrusted", "expired", "trusted"}

\* The challenge gives a seed at the required level.
SeedChallenge ==
  /\ facts.challenge \in Seeding
  /\ level = "FULLY_VERIFIED" => facts.challenge = "trusted"

Challenged ==
  /\ seeded => SeedChallenge
  /\ stage \in InAudit => facts.da \in {"policy", "legacy"}
  /\ stage \in {"audit", "fetch"} => seeded \/ facts.da = "legacy"
  /\ audited => facts.da = "legacy" \/ (facts.da = "policy" /\ SeedChallenge)

Working == Established /\ Challenged

\* What a verification has found stays; between two a challenge may expire.
KeepsFound == \A f \in Names : facts[f] # Unknown => facts'[f] = facts[f]
KeepsFacts ==
  /\ \A f \in Names \ {"challenge"} : facts[f] # Unknown => facts'[f] = facts[f]
  /\ facts.challenge \in Unseeding => facts'.challenge \in Unseeding
  /\ facts.challenge \in Seeding => facts'.challenge \in Seeding

KeepsReports ==
  \A l \in Levels : verdicts'[l].kind = "report" => verdicts'[l] = verdicts[l]

TypedFacts    == DOMAIN facts = Names /\ \A f \in Names : facts[f] \in Outcomes[f] \cup {Unknown}
TypedVerdicts ==
  /\ DOMAIN verdicts = Levels
  /\ \A l \in Levels : verdicts[l].kind \in {"none", "rejected", "crashed", "report"}
TypedLocals ==
  /\ level \in Levels \cup {Idle}
  /\ stage \in Stages
  /\ warnings \subseteq Codes
  /\ seeded \in BOOLEAN /\ audited \in BOOLEAN
  /\ attempt \in 0..Retries
  /\ level = Idle => stage = "header" /\ warnings = {} /\ attempt = 0 /\ ~seeded /\ ~audited

LEMMA TypeParts == TypeOK <=> TypedFacts /\ TypedVerdicts /\ TypedLocals
BY FactNames DEF TypeOK, TypedFacts, TypedVerdicts, TypedLocals

LEMMA FoundIsFact ==
  ASSUME KeepsFound
  PROVE  KeepsFacts
BY DEF KeepsFound, KeepsFacts, Names, Seeding, Unseeding, Unknown

LEMMA SeedStays ==
  ASSUME KeepsFound, level' = level, SeedChallenge
  PROVE  SeedChallenge'
BY DEF KeepsFound, SeedChallenge, Seeding, Names, Unknown

LEMMA FoundKeeps ==
  ASSUME TypedFacts, NEW f \in Names, NEW o \in Outcomes[f], Found(f, o)
  PROVE  KeepsFound /\ TypedFacts'
<1>1. /\ DOMAIN facts' = Names /\ facts'[f] = o
      /\ \A g \in Names : g # f => facts'[g] = facts[g]
      /\ facts[f] \in {Unknown, o}
  BY FoundFacts DEF TypedFacts
<1>2. TypedFacts'
  BY <1>1 DEF TypedFacts
<1>3. \A g \in Names : facts[g] # Unknown => facts'[g] = facts[g]
  BY <1>1
<1> QED
  BY <1>2, <1>3 DEF KeepsFound

LEMMA EndsTyped ==
  ASSUME TypedVerdicts, TypedLocals, level \in Levels, Retries \in Nat, NEW v, Ends(v),
         v.kind \in {"rejected", "crashed", "report"}
  PROVE  /\ TypedVerdicts' /\ TypedLocals'
         /\ v.kind # "report" => KeepsReports
         /\ stage' = "header" /\ ~audited' /\ ~seeded' /\ level' = Idle
         /\ verdicts'[level] = v
         /\ \A l \in Levels : l # level => verdicts'[l] = verdicts[l]
<1>1. /\ DOMAIN verdicts' = Levels /\ verdicts'[level] = v
      /\ \A l \in Levels : l # level => verdicts'[l] = verdicts[l]
  BY DEF Ends, TypedVerdicts
<1>2. TypedVerdicts' /\ (v.kind # "report" => KeepsReports)
  BY <1>1 DEF TypedVerdicts, KeepsReports
<1>3. level' = Idle /\ stage' = "header" /\ warnings' = {} /\ attempt' = 0
  BY DEF Ends
<1>4. ~audited' /\ ~seeded' /\ audited' \in BOOLEAN /\ seeded' \in BOOLEAN
  BY Zenon DEF Ends
<1>5. "header" \in Stages /\ 0 \in 0..Retries
  BY DEF Stages
<1>6. TypedLocals'
  BY <1>3, <1>4, <1>5 DEF TypedLocals
<1> QED
  BY <1>1, <1>2, <1>3, <1>4, <1>6

-----------------------------------------------------------------------------
(* The two ways a stage goes on.                                           *)

\* What every step of a verification but its report does.
Kept == TypeOK' /\ Working' /\ KeepsFound /\ KeepsReports

LEMMA Ending ==
  ASSUME TypeOK, level \in Levels, KeepsFound, TypedFacts', NEW v, Ends(v),
         v.kind \in {"rejected", "crashed"}
  PROVE  Kept
<1>1. TypedVerdicts' /\ TypedLocals' /\ KeepsReports
  BY TypeParts, EndsTyped, VerifyAssumption
<1>2. stage' = "header" /\ ~audited' /\ ~seeded' /\ level' = Idle
  BY TypeParts, EndsTyped, VerifyAssumption
<1>3. TypeOK'
  BY <1>1, FactNames DEF TypeOK, TypedFacts, TypedVerdicts, TypedLocals
<1>4. Working'
  BY <1>2 DEF Working, Established, Challenged, AfterRules, AfterPolicy, InAudit
<1> QED
  BY <1>1, <1>3, <1>4 DEF Kept

Moves(s) ==
  /\ level' = level /\ seeded' = seeded /\ audited' = audited /\ attempt' = attempt
  /\ verdicts' = verdicts
  /\ stage' = s
  /\ warnings' = warnings \/ \E c \in Codes : warnings' = warnings \cup {c}

LEMMA Ways ==
  ASSUME NEW s, NEW c \in Codes
  PROVE  /\ Goto(s) => Moves(s)
         /\ Degrades(c, s) => Moves(s) \/ Ends(Rejected(c))
         /\ Warns(c, s) => Moves(s)
BY DEF Goto, Degrades, Warns, Moves, locals

LEMMA MovesTyped ==
  ASSUME TypeOK, level \in Levels, TypedFacts', NEW s \in Stages, Moves(s)
  PROVE  TypeOK' /\ KeepsReports
<1>1. TypedVerdicts' /\ KeepsReports
  BY TypeParts DEF Moves, TypedVerdicts, KeepsReports
<1>2. TypedLocals'
  BY TypeParts, LevelNames DEF Moves, TypedLocals
<1> QED
  BY <1>1, <1>2, FactNames DEF TypeOK, TypedFacts, TypedVerdicts, TypedLocals

LEMMA Moving ==
  ASSUME TypeOK, Working, level \in Levels, KeepsFound, TypedFacts', NEW s \in Stages, Moves(s),
         s \in AfterPolicy => stage \in AfterPolicy \/ facts'.policy # Unknown,
         s \in AfterRules => stage \in AfterRules \/ (Attested' => facts'.rules = "ok"),
         s \in {"seed", "audit", "fetch"} =>
            stage \in {"seed", "audit", "fetch"} \/ facts.archive = "roots",
         s = "fetch" => facts'.samples = "some",
         s \in InAudit => stage \in InAudit \/ facts'.da \in {"policy", "legacy"},
         s \in {"audit", "fetch"} => stage \in {"audit", "fetch"} \/ seeded \/ facts.da = "legacy"
  PROVE  Kept
<1>1. TypeOK' /\ KeepsReports
  BY MovesTyped
<1>2. \A f \in {"policy", "rules", "archive", "samples", "chunks", "da"} :
         facts[f] # Unknown => facts'[f] = facts[f]
  BY DEF KeepsFound, Names
<1>3. Established'
  BY <1>2 DEF Working, Established, Moves, Attested, Unknown, AfterRules, AfterPolicy
<1>4. Challenged'
  <2>1. SeedChallenge => SeedChallenge'
    BY SeedStays DEF Moves
  <2> QED
    BY <1>2, <2>1 DEF Working, Challenged, Moves, Unknown, InAudit
<1> QED
  BY <1>1, <1>3, <1>4 DEF Kept, Working

LEMMA Still ==
  ASSUME TypedFacts, facts' = facts
  PROVE  KeepsFound /\ TypedFacts'
BY DEF KeepsFound, TypedFacts

LEMMA Checking ==
  ASSUME TypeOK, Working, level \in Levels, NEW s, NEW f \in Names, NEW t \in Stages,
         {"ok", "bad"} \subseteq Outcomes[f], Check(s, f, t), t \notin InAudit,
         t \in AfterPolicy => s \in AfterPolicy,
         t \in AfterRules => s \in AfterRules \/ f = "rules"
  PROVE  Kept
<1>1. stage = s
  BY DEF Check
<1>2. CASE Found(f, "ok") /\ Goto(t)
  <2>1. KeepsFound /\ TypedFacts' /\ facts'[f] = "ok"
    BY <1>2, TypeParts, FoundKeeps, FoundFacts DEF TypedFacts
  <2>2. Moves(t)
    BY <1>2 DEF Goto, Moves, locals
  <2> QED
    BY <1>1, <2>1, <2>2, Moving DEF InAudit
<1>3. CASE Found(f, "bad") /\ Ends(Rejected(s))
  <2>1. KeepsFound /\ TypedFacts'
    BY <1>3, TypeParts, FoundKeeps
  <2> QED
    BY <1>3, <2>1, Ending DEF Rejected
<1> QED
  BY <1>2, <1>3 DEF Check

-----------------------------------------------------------------------------
(* The stages.                                                             *)

LEMMA Checks ==
  ASSUME TypeOK, Working, level \in Levels,
         Header \/ Statement \/ Proof \/ Check("binding", "binding", "policy")
         \/ Check("rules", "rules", "proof")
  PROVE  Kept
<1> USE DEF Names, Stages, AfterRules, AfterPolicy, InAudit
<1>1. \A f \in {"header", "statement", "proof", "binding", "rules"} :
         {"ok", "bad"} \subseteq Outcomes[f]
  BY DEF Outcomes
<1>2. Header => Kept
  BY <1>1, Checking DEF Header
<1>3. Statement => Kept
  BY <1>1, Checking DEF Statement
<1>4. Proof => Kept
  BY <1>1, Checking DEF Proof
<1>5. Check("binding", "binding", "policy") => Kept
  BY <1>1, Checking
<1>6. Check("rules", "rules", "proof") => Kept
  BY <1>1, Checking
<1> QED
  BY <1>2, <1>3, <1>4, <1>5, <1>6

LEMMA BindingKept ==
  ASSUME TypeOK, Working, level \in Levels, Binding
  PROVE  Kept
<1>1. CASE Check("binding", "binding", "policy")
  BY <1>1, Checks
<1>2. CASE Found("binding", "rootless") /\ Ends(Crashed)
  <2>1. "binding" \in Names /\ "rootless" \in Outcomes["binding"]
    BY DEF Names, Outcomes
  <2>2. KeepsFound /\ TypedFacts'
    BY <1>2, <2>1, TypeParts, FoundKeeps
  <2> QED
    BY <1>2, <2>2, Ending DEF Crashed
<1> QED
  BY <1>1, <1>2 DEF Binding

LEMMA PolicyKept ==
  ASSUME TypeOK, Working, level \in Levels, Policy
  PROVE  Kept
<1>1. PICK p \in Outcomes["policy"] :
         /\ stage = "policy" /\ Found("policy", p)
         /\ IF p = "bad" THEN Ends(Rejected("policy")) ELSE Goto("statement")
  BY DEF Policy
<1>2. "policy" \in Names /\ p # Unknown
  BY DEF Names, Outcomes, Unknown
<1>3. KeepsFound /\ TypedFacts' /\ facts'["policy"] = p
  BY <1>1, <1>2, TypeParts, FoundKeeps, FoundFacts DEF TypedFacts
<1>4. CASE Ends(Rejected("policy"))
  BY <1>3, <1>4, Ending DEF Rejected
<1>5. CASE Goto("statement")
  <2>1. Moves("statement")
    BY <1>5 DEF Goto, Moves, locals
  <2> QED
    BY <1>2, <1>3, <2>1, Moving DEF Stages, AfterRules, InAudit
<1> QED
  BY <1>1, <1>4, <1>5

LEMMA EventsKept ==
  ASSUME TypeOK, Working, level \in Levels, Events
  PROVE  Kept
<1>1. PICK e \in Outcomes["events"] :
         /\ stage = "events" /\ Found("events", e)
         /\ Goto("rules") \/ Warns("E201", "rules") \/ Ends(Crashed)
  BY DEF Events, Outcomes
<1>2. KeepsFound /\ TypedFacts'
  BY <1>1, TypeParts, FoundKeeps DEF Names
<1>3. CASE Ends(Crashed)
  BY <1>2, <1>3, Ending DEF Crashed
<1>4. CASE Goto("rules") \/ Warns("E201", "rules")
  <2>1. "E201" \in Codes
    BY DEF Codes
  <2>2. Moves("rules")
    BY <1>4, <2>1 DEF Goto, Warns, Moves, locals
  <2> QED
    BY <1>1, <1>2, <2>2, Moving DEF Stages, AfterRules, AfterPolicy, InAudit
<1> QED
  BY <1>1, <1>3, <1>4

LEMMA RulesKept ==
  ASSUME TypeOK, Working, level \in Levels, Rules
  PROVE  Kept
<1>1. CASE Check("rules", "rules", "proof")
  BY <1>1, Checks
<1>2. CASE facts.policy = "none" /\ stage = "rules" /\ Goto("proof") /\ UNCHANGED facts
  <2>1. KeepsFound /\ TypedFacts' /\ ~Attested'
    BY <1>2, TypeParts, Still DEF Attested
  <2>2. Moves("proof")
    BY <1>2 DEF Goto, Moves, locals
  <2> QED
    BY <1>2, <2>1, <2>2, Moving DEF Stages, AfterRules, AfterPolicy, InAudit
<1> QED
  BY <1>1, <1>2 DEF Rules

LEMMA ArchiveKept ==
  ASSUME TypeOK, Working, level \in Levels, Archive
  PROVE  Kept
<1>1. PICK a \in Outcomes["archive"] :
         /\ stage = "archive" /\ Found("archive", a)
         /\ IF a = "bad" THEN Ends(Rejected("archive")) ELSE Goto("author")
  BY DEF Archive
<1>2. KeepsFound /\ TypedFacts'
  BY <1>1, TypeParts, FoundKeeps DEF Names
<1>3. CASE Ends(Rejected("archive"))
  BY <1>2, <1>3, Ending DEF Rejected
<1>4. CASE Goto("author")
  <2>1. Moves("author")
    BY <1>4 DEF Goto, Moves, locals
  <2> QED
    BY <1>1, <1>2, <2>1, Moving DEF Stages, AfterRules, AfterPolicy, InAudit
<1> QED
  BY <1>1, <1>3, <1>4

LEMMA AuthorKept ==
  ASSUME TypeOK, Working, level \in Levels, Author
  PROVE  Kept
<1>1. PICK a \in Outcomes["author"], c \in Outcomes["acl"] :
         /\ facts.author \in {Unknown, a} /\ facts.acl \in {Unknown, c}
         /\ facts' = [facts EXCEPT !["author"] = a, !["acl"] = c]
  BY DEF Author
<1>2. stage = "author" /\ (Ends(Rejected("author")) \/ Goto("da"))
  BY DEF Author
<1>3. TypedFacts
  BY TypeParts
<1>4. /\ DOMAIN facts' = Names /\ facts'["author"] = a /\ facts'["acl"] = c
      /\ \A g \in Names \ {"author", "acl"} : facts'[g] = facts[g]
  BY <1>1, <1>3 DEF TypedFacts, Names
<1>5. TypedFacts'
  BY <1>3, <1>4 DEF TypedFacts
<1>6. KeepsFound
  BY <1>1, <1>4 DEF KeepsFound, Names
<1>7. CASE Ends(Rejected("author"))
  BY <1>5, <1>6, <1>7, Ending DEF Rejected
<1>8. CASE Goto("da")
  <2>1. Moves("da")
    BY <1>8 DEF Goto, Moves, locals
  <2> QED
    BY <1>2, <1>5, <1>6, <2>1, Moving DEF Stages, AfterRules, AfterPolicy, InAudit
<1> QED
  BY <1>2, <1>7, <1>8

\* A code that rejects at FULL only.
LEMMA Degrading ==
  ASSUME TypeOK, Working, level \in Levels, KeepsFound, TypedFacts',
         NEW c \in Codes, NEW t \in {"report", "mode"}, Degrades(c, t), stage \in AfterRules,
         t = "mode" => facts'.da \in {"policy", "legacy"}
  PROVE  Kept
<1>1. CASE Ends(Rejected(c))
  BY <1>1, Ending DEF Rejected
<1>2. CASE Moves(t)
  BY <1>2, Moving DEF Stages, AfterRules, AfterPolicy, InAudit
<1> QED
  BY <1>1, <1>2, Ways

LEMMA DAKept ==
  ASSUME TypeOK, Working, level \in Levels, DA
  PROVE  Kept
<1>1. PICK d \in Outcomes["da"] :
         /\ stage = "da" /\ Found("da", d)
         /\ \/ d = "none" /\ Ends(Rejected("E071"))
            \/ d = "none" /\ Goto("report")
            \/ d # "none" /\ Degrades("E060", "mode")
            \/ d # "none" /\ Goto("mode")
  BY DEF DA
<1>2. KeepsFound /\ TypedFacts' /\ facts'["da"] = d
  BY <1>1, TypeParts, FoundKeeps, FoundFacts DEF Names, TypedFacts
<1>3. d # "none" => d \in {"policy", "legacy"}
  BY DEF Outcomes
<1>4. "E060" \in Codes /\ "da" \in AfterRules
  BY DEF Codes, AuditCodes, DACodes, AfterRules
<1>5. CASE Ends(Rejected("E071"))
  BY <1>2, <1>5, Ending DEF Rejected
<1>6. CASE Goto("report")
  BY <1>1, <1>2, <1>4, <1>6, Ways, Moving DEF Stages, AfterRules, AfterPolicy, InAudit
<1>7. CASE d # "none" /\ Degrades("E060", "mode")
  BY <1>1, <1>2, <1>3, <1>4, <1>7, Degrading
<1>8. CASE d # "none" /\ Goto("mode")
  BY <1>1, <1>2, <1>3, <1>4, <1>8, Ways, Moving DEF Stages, AfterRules, AfterPolicy, InAudit
<1> QED
  BY <1>1, <1>5, <1>6, <1>7, <1>8

LEMMA ModeKept ==
  ASSUME TypeOK, Working, level \in Levels, Mode
  PROVE  Kept
<1>1. PICK m \in Outcomes["mode"] : Found("mode", m)
  BY DEF Mode, Outcomes
<1>2. KeepsFound /\ TypedFacts'
  BY <1>1, TypeParts, FoundKeeps DEF Names
<1>3. stage = "mode" /\ (Goto("store") \/ Degrades("E070", "report"))
  BY DEF Mode
<1>4. "E070" \in Codes /\ "mode" \in AfterRules
  BY DEF Codes, AuditCodes, DACodes, AfterRules
<1>5. CASE Goto("store")
  BY <1>2, <1>3, <1>4, <1>5, Ways, Moving DEF Stages, AfterRules, AfterPolicy, InAudit
<1>6. CASE Degrades("E070", "report")
  BY <1>2, <1>3, <1>4, <1>6, Degrading
<1> QED
  BY <1>3, <1>5, <1>6

LEMMA StoreKept ==
  ASSUME TypeOK, Working, level \in Levels, Store
  PROVE  Kept
<1>1. PICK m \in Outcomes["store"] : Found("store", m)
  BY DEF Store, Outcomes
<1>2. KeepsFound /\ TypedFacts'
  BY <1>1, TypeParts, FoundKeeps DEF Names
<1>3. stage = "store" /\ (Goto("handles") \/ Degrades("E062", "report"))
  BY DEF Store
<1>4. "E062" \in Codes /\ "store" \in AfterRules
  BY DEF Codes, AuditCodes, DACodes, AfterRules
<1>5. CASE Goto("handles")
  BY <1>2, <1>3, <1>4, <1>5, Ways, Moving DEF Stages, AfterRules, AfterPolicy, InAudit
<1>6. CASE Degrades("E062", "report")
  BY <1>2, <1>3, <1>4, <1>6, Degrading
<1> QED
  BY <1>3, <1>5, <1>6

LEMMA HandlesKept ==
  ASSUME TypeOK, Working, level \in Levels, Handles
  PROVE  Kept
<1>1. PICK h \in Outcomes["handles"] :
         /\ stage = "handles" /\ Found("handles", h)
         /\ \/ Degrades("E075", "report")
            \/ Ends(Crashed)
            \/ facts.archive = "roots" /\ Goto("seed")
  BY DEF Handles
<1>2. KeepsFound /\ TypedFacts'
  BY <1>1, TypeParts, FoundKeeps DEF Names
<1>3. "E075" \in Codes /\ "handles" \in AfterRules
  BY DEF Codes, AuditCodes, AfterRules
<1>4. CASE Degrades("E075", "report")
  BY <1>1, <1>2, <1>3, <1>4, Degrading
<1>5. CASE Ends(Crashed)
  BY <1>2, <1>5, Ending DEF Crashed
<1>6. CASE facts.archive = "roots" /\ Goto("seed")
  BY <1>1, <1>2, <1>3, <1>6, Ways, Moving DEF Stages, AfterRules, AfterPolicy, InAudit
<1> QED
  BY <1>1, <1>4, <1>5, <1>6

LEMMA SeedKept ==
  ASSUME TypeOK, Working, level \in Levels, Seed
  PROVE  Kept
<1>1. KeepsFound /\ TypedFacts'
  BY TypeParts, Still DEF Seed
<1>2. "E071" \in Codes /\ "seed" \in AfterRules /\ stage = "seed"
  BY DEF Codes, AuditCodes, DACodes, AfterRules, Seed
<1>3. CASE (seeded \/ facts.da = "legacy") /\ Goto("audit")
  BY <1>1, <1>2, <1>3, Ways, Moving DEF Stages, AfterRules, AfterPolicy, InAudit
<1>4. CASE Degrades("E071", "report")
  BY <1>1, <1>2, <1>4, Degrading
<1> QED
  BY <1>3, <1>4 DEF Seed

LEMMA AuditKept ==
  ASSUME TypeOK, Working, level \in Levels, Audit
  PROVE  Kept
<1>1. stage = "audit" /\ stage \in AfterRules /\ "E066" \in Codes
  BY DEF Audit, AfterRules, Codes, AuditCodes
<1>2. CASE Found("samples", "none") /\ Goto("report")
  <2>1. KeepsFound /\ TypedFacts'
    <3>1. "samples" \in Names /\ "none" \in Outcomes["samples"]
      BY DEF Names, Outcomes
    <3> QED
      BY <1>2, <3>1, TypeParts, FoundKeeps
  <2> QED
    BY <1>1, <1>2, <2>1, Ways, Moving DEF Stages, AfterRules, AfterPolicy, InAudit
<1>3. CASE facts.samples \in {Unknown, "some"} /\ ~(Found("samples", "none") /\ Goto("report"))
  <2>1. PICK c \in Outcomes["chunks"] :
           /\ facts.chunks \in {Unknown, c}
           /\ facts' = [facts EXCEPT !["samples"] = "some", !["chunks"] = c]
           /\ Degrades("E066", "report") \/ Ends(Crashed) \/ Goto("fetch")
    BY <1>3 DEF Audit
  <2>2. TypedFacts
    BY TypeParts
  <2>3. /\ DOMAIN facts' = Names /\ facts'["samples"] = "some" /\ facts'["chunks"] = c
        /\ \A g \in Names \ {"samples", "chunks"} : facts'[g] = facts[g]
    BY <2>1, <2>2 DEF TypedFacts, Names
  <2>4. "some" \in Outcomes["samples"]
    BY DEF Outcomes
  <2>5. TypedFacts'
    BY <2>2, <2>3, <2>4 DEF TypedFacts
  <2>6. KeepsFound
    BY <1>3, <2>1, <2>3 DEF KeepsFound, Names
  <2>7. CASE Degrades("E066", "report")
    BY <1>1, <2>5, <2>6, <2>7, Degrading
  <2>8. CASE Ends(Crashed)
    BY <2>5, <2>6, <2>8, Ending DEF Crashed
  <2>9. CASE Goto("fetch")
    <3>1. Moves("fetch")
      BY <2>9 DEF Goto, Moves, locals
    <3> QED
      BY <1>1, <2>3, <2>5, <2>6, <3>1, Moving DEF Stages, AfterRules, AfterPolicy, InAudit
  <2> QED
    BY <2>1, <2>7, <2>8, <2>9
<1> QED
  BY <1>2, <1>3 DEF Audit

LEMMA SampleKept ==
  ASSUME TypeOK, Working, level \in Levels, Sample
  PROVE  Kept
<1>1. KeepsFound /\ TypedFacts'
  BY TypeParts, Still DEF Sample
<1>2. "E065" \in Codes /\ "fetch" \in AfterRules /\ stage = "fetch" /\ facts' = facts
  BY DEF Codes, AuditCodes, DACodes, AfterRules, Sample
<1>3. CASE Degrades("E065", "report")
  BY <1>1, <1>2, <1>3, Degrading
<1>4. CASE /\ facts.chunks = "good"
           /\ audited' = TRUE
           /\ stage' = "report"
           /\ UNCHANGED <<level, warnings, seeded, attempt, verdicts>>
  <2>1. TypedVerdicts' /\ KeepsReports
    BY <1>4, TypeParts DEF TypedVerdicts, KeepsReports
  <2>2. TypedLocals'
    <3>1. audited' \in BOOLEAN /\ "report" \in Stages
      BY <1>4 DEF Stages
    <3>2. level' = level /\ level # Idle
      BY <1>4, LevelNames
    <3>3. /\ stage' = "report" /\ warnings' = warnings /\ attempt' = attempt
          /\ seeded' = seeded
      BY <1>4
    <3> QED
      BY <3>1, <3>2, <3>3, TypeParts DEF TypedLocals
  <2>3. TypeOK'
    BY <1>1, <2>1, <2>2, FactNames DEF TypeOK, TypedFacts, TypedVerdicts, TypedLocals
  <2>4. Established'
    BY <1>2, <1>4 DEF Working, Established, AfterRules, AfterPolicy, Attested
  <2>5. Challenged'
    BY <1>1, <1>2, <1>4, SeedStays DEF Working, Challenged, InAudit
  <2> QED
    BY <1>1, <2>1, <2>3, <2>4, <2>5 DEF Kept, Working
<1> QED
  BY <1>3, <1>4 DEF Sample

LEMMA LateKept ==
  ASSUME TypeOK, Working, level \in Levels, Late
  PROVE  Kept
<1>1. KeepsFound /\ TypedFacts'
  BY TypeParts, Still DEF Late
<1>2. "E074" \in Codes /\ "fetch" \in AfterRules /\ stage = "fetch" /\ facts' = facts
  BY DEF Codes, AuditCodes, DACodes, AfterRules, Late
<1>3. CASE Degrades("E074", "report")
  BY <1>1, <1>2, <1>3, Degrading
<1>4. CASE /\ attempt < Retries
           /\ attempt' = attempt + 1
           /\ UNCHANGED <<level, stage, warnings, seeded, audited, verdicts>>
  <2>1. TypedVerdicts' /\ KeepsReports
    BY <1>4, TypeParts DEF TypedVerdicts, KeepsReports
  <2>2. TypedLocals'
    <3>1. attempt' \in 0..Retries
      BY <1>4, TypeParts, VerifyAssumption DEF TypedLocals
    <3> QED
      BY <1>4, <3>1, LevelNames, TypeParts DEF TypedLocals
  <2>3. TypeOK'
    BY <1>1, <2>1, <2>2, FactNames DEF TypeOK, TypedFacts, TypedVerdicts, TypedLocals
  <2>4. Working'
    BY <1>1, <1>2, <1>4, SeedStays DEF Working, Established, Challenged, Attested
  <2> QED
    BY <1>1, <2>1, <2>3, <2>4 DEF Kept
<1> QED
  BY <1>3, <1>4 DEF Late

LEMMA ChallengeKept ==
  ASSUME TypeOK, Working, level \in Levels, Challenge
  PROVE  Kept
<1>1. PICK c \in Outcomes["challenge"] :
         /\ stage = "challenge" /\ Found("challenge", c)
         /\ IF ChallengeStatus(c) = "OK"
            THEN /\ seeded' = (c # "absent")
                 /\ stage' = "binding"
                 /\ UNCHANGED <<level, warnings, audited, attempt, verdicts>>
            ELSE Degrades(ChallengeStatus(c), "binding")
  BY DEF Challenge
<1>2. KeepsFound /\ TypedFacts' /\ facts'["challenge"] = c
  BY <1>1, TypeParts, FoundKeeps, FoundFacts DEF Names, TypedFacts
<1>3. ~Full => ChallengeStatus(c) \in Codes \cup {"OK"}
  BY DEF ChallengeStatus, Codes, AuditCodes, DACodes
<1>4. CASE Full /\ Ends(Rejected(ChallengeStatus(c)))
  BY <1>2, <1>4, Ending DEF Rejected
<1>5. CASE ~Full /\ ChallengeStatus(c) # "OK" /\ Warns(ChallengeStatus(c), "binding")
  <2>1. Moves("binding")
    BY <1>3, <1>5, Ways
  <2> QED
    BY <1>2, <2>1, Moving DEF Stages, AfterRules, AfterPolicy, InAudit
<1>6. CASE /\ ChallengeStatus(c) = "OK"
           /\ seeded' = (c # "absent")
           /\ stage' = "binding"
           /\ UNCHANGED <<level, warnings, audited, attempt, verdicts>>
  <2>1. TypedVerdicts' /\ KeepsReports
    BY <1>6, TypeParts DEF TypedVerdicts, KeepsReports
  <2>2. TypedLocals'
    <3>1. seeded' \in BOOLEAN
      BY <1>6
    <3>2. "binding" \in Stages /\ level' = level /\ level # Idle
      BY <1>6, LevelNames DEF Stages
    <3> QED
      BY <1>6, <3>1, <3>2, TypeParts DEF TypedLocals
  <2>3. TypeOK'
    BY <1>2, <2>1, <2>2, FactNames DEF TypeOK, TypedFacts, TypedVerdicts, TypedLocals
  <2>4. audited' = audited /\ stage' = "binding" /\ level' = level
    BY <1>6
  <2>5. Established'
    BY <1>2, <2>4 DEF Working, Established, KeepsFound, AfterRules, AfterPolicy, Names, Unknown
  <2>6. level' = "FULLY_VERIFIED" /\ seeded' => c = "trusted"
    <3>1. level = "FULLY_VERIFIED" => Full
      BY DEF Full, AtLeast, Order
    <3> QED
      BY <1>6, <3>1 DEF ChallengeStatus, Outcomes
  <2>7. SeedChallenge => SeedChallenge'
    BY <1>2, <2>4, SeedStays
  <2>8. seeded' => SeedChallenge'
    <3>1. seeded' => c \in Seeding
      BY <1>6 DEF ChallengeStatus, Outcomes, Seeding
    <3> QED
      BY <1>2, <2>6, <3>1 DEF SeedChallenge
  <2>9. facts.da \in {"policy", "legacy"} => facts'.da = facts.da
    BY <1>2 DEF KeepsFound, Names, Unknown
  <2>10. Challenged'
    BY <2>4, <2>7, <2>8, <2>9 DEF Working, Challenged, InAudit
  <2> QED
    BY <1>2, <2>1, <2>3, <2>5, <2>10 DEF Kept, Working
<1> QED
  BY <1>1, <1>4, <1>5, <1>6 DEF Degrades

-----------------------------------------------------------------------------
(* What the reports rest on.                                               *)

\* Knowledge only grows, so a report stays as justified as it was.
LEMMA ReportsStay ==
  ASSUME TypeOK, StatusEarned, KeepsFacts, KeepsReports
  PROVE  StatusEarned'
<1>1. \A f \in {"author", "policy", "rules", "archive", "samples", "chunks", "da"} :
         facts[f] # Unknown => facts'[f] = facts[f]
  BY DEF KeepsFacts, Names
<1>2. /\ Signed => Signed'
      /\ Attested => Attested'
      /\ facts.rules = "ok" => facts'.rules = "ok"
      /\ facts.archive = "roots" => facts'.archive = "roots"
      /\ facts.samples = "some" => facts'.samples = "some"
      /\ facts.chunks = "good" => facts'.chunks = "good"
  BY <1>1 DEF Signed, Attested, Unknown
<1>3. SUFFICES ASSUME NEW l \in Levels, Reports(l)'
               PROVE  (LET s == Order[verdicts[l].status]
                       IN  /\ s >= Order[l]
                           /\ s >= Order.POLICY_SELF_REPORTED => Signed
                           /\ s >= Order.POLICY_ENFORCED => Attested /\ facts.rules = "ok"
                           /\ s = Order.FULLY_VERIFIED =>
                                /\ facts.archive = "roots"
                                /\ facts.samples = "some"
                                /\ facts.chunks = "good")'
  BY DEF StatusEarned
<1>4. verdicts'[l] = verdicts[l] /\ Reports(l)
  BY <1>3 DEF KeepsReports, Reports
<1> QED
  BY <1>2, <1>4 DEF StatusEarned

LEMMA StepKept ==
  ASSUME TypeOK, Working, level \in Levels, Step
  PROVE  Kept \/ Conclude
<1>1. Binding => Kept
  BY BindingKept
<1>2. Header \/ Statement \/ Proof => Kept
  BY Checks
<1>3. Rules => Kept
  BY RulesKept
<1> QED
  BY <1>1, <1>2, <1>3, ChallengeKept, PolicyKept, EventsKept, ArchiveKept, AuthorKept, DAKept,
     ModeKept, StoreKept, HandlesKept, SeedKept, AuditKept, SampleKept, LateKept
  DEF Step

IInv == TypeOK /\ Working /\ StatusEarned

\* The report: its status is what the verification has established.
LEMMA ConcludeKeeps ==
  ASSUME IInv, level \in Levels, Conclude
  PROVE  IInv'
<1>1. facts' = facts /\ stage = "report"
  BY DEF Conclude
<1>2. KeepsFound /\ TypedFacts'
  BY <1>1, TypeParts, Still DEF IInv
<1>3. ASSUME NEW c, Ends(Rejected(c))
      PROVE  IInv'
  <2>1. Kept
    BY <1>2, <1>3, Ending DEF IInv, Rejected
  <2> QED
    BY <2>1, FoundIsFact, ReportsStay DEF IInv, Kept
<1>4. ASSUME NEW w, ~(Order[Status] < Order[level]), Ends(Report(Status, w))
      PROVE  IInv'
  <2> DEFINE v == Report(Status, w)
  <2>1. v.kind = "report" /\ v.status = Status
    BY DEF Report
  <2>2. /\ TypedVerdicts' /\ TypedLocals'
        /\ stage' = "header" /\ ~audited' /\ ~seeded' /\ level' = Idle
        /\ verdicts'[level] = v
        /\ \A l \in Levels : l # level => verdicts'[l] = verdicts[l]
    <3> HIDE DEF v
    <3>1. Ends(v)
      BY <1>4 DEF v
    <3> QED
      BY <2>1, <3>1, TypeParts, EndsTyped, VerifyAssumption DEF IInv
  <2> HIDE DEF v
  <2>3. TypeOK'
    BY <1>2, <2>2, FactNames DEF TypeOK, TypedFacts, TypedVerdicts, TypedLocals
  <2>4. Working'
    BY <2>2 DEF Working, Established, Challenged, AfterRules, AfterPolicy, InAudit
  <2>5. /\ Status \in DOMAIN Order
        /\ Order[Status] >= Order[level]
        /\ Order[Status] >= 2 => Signed
        /\ Order[Status] >= 3 => Attested
        /\ Order[Status] = 4 => audited
    BY <1>4, LevelNames DEF Status, Order
  <2>6. /\ Attested => facts.rules = "ok"
        /\ audited => facts.archive = "roots" /\ facts.samples = "some" /\ facts.chunks = "good"
    BY <1>1 DEF IInv, Working, Established, AfterRules
  <2>7. Signed' = Signed /\ Attested' = Attested
    BY <1>1 DEF Signed, Attested
  <2>8. StatusEarned'
    <3>1. /\ Order.POLICY_SELF_REPORTED = 2 /\ Order.POLICY_ENFORCED = 3
          /\ Order.FULLY_VERIFIED = 4
      BY DEF Order
    <3> QED
      BY <1>1, <2>1, <2>2, <2>5, <2>6, <2>7, <3>1 DEF IInv, StatusEarned, Reports
  <2> QED
    BY <2>3, <2>4, <2>8 DEF IInv
<1> QED
  BY <1>3, <1>4 DEF Conclude

LEMMA BeginKeeps ==
  ASSUME IInv, NEW l \in Levels, Begin(l)
  PROVE  IInv'
<1>1. /\ facts' = facts /\ stage' = stage /\ level' = l /\ warnings' = warnings
      /\ verdicts' = verdicts /\ attempt' = attempt
  BY DEF Begin, locals
<1>2. seeded' = seeded /\ audited' = audited
  BY Zenon DEF Begin, locals
<1>3. level = Idle /\ ~seeded /\ ~audited
  BY DEF Begin, IInv, TypeOK
<1>4. TypeOK'
  BY <1>1, <1>2, LevelNames DEF IInv, TypeOK
<1>5. Working'
  BY <1>1, <1>2, <1>3 DEF IInv, Working, Established, Challenged, Attested
<1>6. KeepsFacts /\ KeepsReports
  BY <1>1 DEF KeepsFacts, KeepsReports
<1> QED
  BY <1>4, <1>5, <1>6, ReportsStay DEF IInv

LEMMA ExpireKeeps ==
  ASSUME IInv, Expire
  PROVE  IInv'
<1>1. /\ level' = level /\ stage' = stage /\ warnings' = warnings /\ verdicts' = verdicts
      /\ attempt' = attempt /\ level = Idle /\ facts.challenge = "trusted"
  BY DEF Expire, locals
<1>2. seeded' = seeded /\ audited' = audited
  BY Zenon DEF Expire, locals
<1>3. TypedFacts
  BY TypeParts DEF IInv
<1>4. /\ DOMAIN facts' = Names /\ facts'["challenge"] = "expired"
      /\ \A g \in Names \ {"challenge"} : facts'[g] = facts[g]
  BY <1>3 DEF Expire, TypedFacts, Names
<1>5. TypedFacts'
  BY <1>3, <1>4 DEF TypedFacts, Outcomes
<1>6. TypeOK'
  BY <1>1, <1>2, <1>5, FactNames DEF IInv, TypeOK, TypedFacts
<1>7. Working'
  <2>1. ~seeded /\ ~audited
    BY <1>1 DEF IInv, TypeOK
  <2> QED
    BY <1>1, <1>2, <1>4, <2>1 DEF IInv, Working, Established, Challenged, Attested, Names
<1>8. KeepsFacts /\ KeepsReports
  BY <1>1, <1>4 DEF KeepsFacts, KeepsReports, Seeding, Unseeding
<1> QED
  BY <1>6, <1>7, <1>8, ReportsStay DEF IInv

LEMMA InvHolds == Spec => []IInv
<1>1. Init => IInv
  <2> SUFFICES ASSUME Init PROVE IInv
    OBVIOUS
  <2>1. /\ \A l \in Levels : verdicts[l].kind = "none"
        /\ DOMAIN verdicts = Levels
    BY DEF Init, None
  <2>2. TypeOK
    <3>1. attempt \in 0..Retries /\ "header" \in Stages
      BY VerifyAssumption DEF Init, Stages
    <3>2. /\ DOMAIN facts = DOMAIN Outcomes
          /\ \A f \in DOMAIN Outcomes : facts[f] \in Outcomes[f] \cup {Unknown}
      BY DEF Init
    <3>3. seeded \in BOOLEAN /\ audited \in BOOLEAN /\ ~seeded /\ ~audited
      BY Zenon DEF Init
    <3>4. stage = "header" /\ warnings = {} /\ level = Idle /\ attempt = 0
      BY DEF Init
    <3> QED
      BY <2>1, <3>1, <3>2, <3>3, <3>4 DEF TypeOK
  <2>3. Working
    BY DEF Init, Working, Established, Challenged, AfterRules, AfterPolicy, InAudit
  <2>4. StatusEarned
    BY <2>1, LevelNames DEF StatusEarned, Reports
  <2> QED
    BY <2>2, <2>3, <2>4 DEF IInv
<1>2. IInv /\ [Next]_vars => IInv'
  <2> SUFFICES ASSUME IInv, [Next]_vars PROVE IInv'
    OBVIOUS
  <2>1. CASE Step
    <3>1. level \in Levels
      BY <2>1 DEF Step, IInv, TypeOK
    <3>2. Kept => IInv'
      BY FoundIsFact, ReportsStay DEF IInv, Kept
    <3> QED
      BY <2>1, <3>1, <3>2, StepKept, ConcludeKeeps DEF IInv
  <2>2. CASE Expire
    BY <2>2, ExpireKeeps
  <2>3. ASSUME NEW l \in Levels, Begin(l)
        PROVE  IInv'
    BY <2>3, BeginKeeps
  <2>4. CASE UNCHANGED vars
    BY <2>4, Zenon DEF vars, locals, IInv, TypeOK, Working, Established, Challenged, SeedChallenge,
       StatusEarned, Reports, Signed, Attested
  <2> QED
    BY <2>1, <2>2, <2>3, <2>4 DEF Next
<1> QED
  BY <1>1, <1>2, PTL DEF Spec

-----------------------------------------------------------------------------
(* The theorems.                                                           *)

\* A verification keeps its type, with locals that are reset when it ends.
THEOREM TypeCorrect == Spec => []TypeOK
<1>1. IInv => TypeOK
  BY DEF IInv
<1> QED
  BY <1>1, InvHolds, PTL

\* The status _compute_status reports is never below the required level and never
\* above what the checks of _verify_capsule_core have found.
THEOREM StatusesEarned == Spec => []StatusEarned
<1>1. IInv => StatusEarned
  BY DEF IInv
<1> QED
  BY <1>1, InvHolds, PTL

\* The action FullChallenged speaks of.
FullReported ==
  \A l \in Levels :
    /\ verdicts'[l] # verdicts[l]
    /\ verdicts'[l].kind = "report" /\ verdicts'[l].status = "FULLY_VERIFIED"
    /\ facts.da = "policy"
    => facts.challenge \in IF l = "FULLY_VERIFIED" THEN {"trusted"}
                           ELSE {"untrusted", "expired", "trusted"}

LEMMA NewReport ==
  ASSUME IInv, Next, NEW l \in Levels, verdicts'[l] # verdicts[l],
         verdicts'[l].kind = "report", verdicts'[l].status = "FULLY_VERIFIED"
  PROVE  level = l /\ audited
<1>1. level \in Levels /\ Step
  <2>1. ~Expire /\ ~\E m \in Levels : Begin(m)
    BY DEF Expire, Begin
  <2> QED
    BY <2>1 DEF Next, Step, IInv, TypeOK
<1>2. Conclude
  <2>1. ~KeepsReports
    BY DEF KeepsReports
  <2> QED
    BY <1>1, <2>1, StepKept DEF Kept, IInv
<1>3. PICK v : Ends(v) /\ (v.kind = "report" => v.status = Status)
  <2>1. ASSUME NEW c, Ends(Rejected(c))
        PROVE  \E v : Ends(v) /\ (v.kind = "report" => v.status = Status)
    <3>1. Rejected(c).kind # "report"
      BY DEF Rejected
    <3> QED
      BY <2>1, <3>1
  <2>2. ASSUME NEW w, Ends(Report(Status, w))
        PROVE  \E v : Ends(v) /\ (v.kind = "report" => v.status = Status)
    <3>1. Report(Status, w).status = Status
      BY DEF Report
    <3> QED
      BY <2>2, <3>1
  <2> QED
    BY <1>2, <2>1, <2>2 DEF Conclude
<1>4. \A m \in Levels : verdicts'[m] = IF m = level THEN v ELSE verdicts[m]
  BY <1>3 DEF Ends, IInv, TypeOK
<1> QED
  BY <1>3, <1>4 DEF Status

\* A report of FULLY_VERIFIED under a da_policy rests on a challenge that gave the
\* seed in the same verification (_challenge_da_seed): at required level FULL one
\* that is trusted and has not expired, below FULL one that need not be.
THEOREM FullUnderChallenge == Spec => FullChallenged
<1>1. IInv /\ [Next]_vars => [FullReported]_vars
  <2> SUFFICES ASSUME IInv, Next, NEW l \in Levels, verdicts'[l] # verdicts[l],
                      verdicts'[l].kind = "report", verdicts'[l].status = "FULLY_VERIFIED",
                      facts.da = "policy"
               PROVE  facts.challenge \in IF l = "FULLY_VERIFIED" THEN {"trusted"}
                                          ELSE {"untrusted", "expired", "trusted"}
    BY DEF FullReported
  <2>1. level = l /\ audited
    BY NewReport
  <2> QED
    BY <2>1 DEF IInv, Working, Challenged, SeedChallenge, Seeding
<1> QED
  BY <1>1, InvHolds, PTL DEF Spec, FullChallenged, FullReported

-----------------------------------------------------------------------------
(* Why a verdict is what it is. A stage of the common part passes or       *)
(* fails by the facts alone and by the level that is asked for; an audit   *)
(* is over, or crashes, by the facts alone.                                *)

\* The order of the stages.
Rank == [header |-> 1, challenge |-> 2, binding |-> 3, policy |-> 4, statement |-> 5, events |-> 6,
         rules |-> 7, proof |-> 8, archive |-> 9, author |-> 10, da |-> 11, mode |-> 12,
         store |-> 13, handles |-> 14, seed |-> 15, audit |-> 16, fetch |-> 17, report |-> 18]

\* The stages every capsule goes through, and what lets it through.
Main == {"header", "challenge", "binding", "policy", "statement", "events", "rules", "proof",
         "archive", "author"}
Good == [header |-> {"ok"}, challenge |-> Outcomes.challenge, binding |-> {"ok"},
         policy |-> {"none", "document", "attested"}, statement |-> {"ok"},
         events |-> {"ok", "bad"}, proof |-> {"ok"}, archive |-> {"uncommitted", "empty", "roots"}]

SignedFor(l) ==
  /\ facts.author \in {"absent", "signed"} /\ facts.acl \in {"none", "listed"}
  /\ facts.author = "absent" => facts.acl = "none" /\ l = "PROOF_ONLY"

Passes(s, l) ==
  CASE s = "rules"  -> facts.policy = "none" \/ facts.rules = "ok"
    [] s = "author" -> SignedFor(l)
    [] OTHER        -> facts[s] \in Good[s]

Fails(s, l) ==
  CASE s = "rules"  -> facts.policy \in {"document", "attested"} /\ facts.rules = "bad"
    [] s = "author" -> \/ facts.author = "bad"
                       \/ facts.acl = "unlisted"
                       \/ facts.author = "absent" /\ (facts.acl = "listed" \/ l # "PROOF_ONLY")
    [] OTHER        -> facts[s] \in Outcomes[s] \ Good[s]

\* The audit has nothing left to look at, without an exception.
AuditOver ==
  \/ facts.da = "none" \/ facts.mode = "other" \/ facts.store = "missing"
  \/ facts.handles \in {"none", "bad"}
  \/ /\ facts.archive = "roots"
     /\ \/ facts.da = "policy" /\ facts.challenge \in Unseeding
        \/ facts.samples = "none"
        \/ facts.chunks \in {"good", "corrupt", "unsized"}

\* Handles without committed roots to compare, or a chunk nothing can decode.
AuditCrashes ==
  /\ facts.da \in {"policy", "legacy"} /\ facts.mode = "local" /\ facts.store = "dir"
  /\ facts.handles = "listed"
  /\ \/ facts.archive \in {"uncommitted", "empty"}
     \/ /\ facts.da = "legacy" \/ facts.challenge \in Seeding
        /\ facts.samples = "some" /\ facts.chunks = "undecodable"

\* The reasons to report at level l, and those (below FULL) to reject or to crash.
Accepts(l) == AuditOver /\ \A s \in Main : Passes(s, l)
Refuses(l) ==
  \/ \E s \in Main : Fails(s, l)
  \/ AuditCrashes
  \/ l = "POLICY_ENFORCED" /\ facts.policy \in {"none", "document"}

\* What the verification under way has passed, and what its audit has found.
Passed  == \A s \in Main : Rank[s] < Rank[stage] => Passes(s, level)

Audited ==
  /\ stage \in {"store", "handles", "seed", "audit", "fetch"} => facts.mode = "local"
  /\ stage \in {"handles", "seed", "audit", "fetch"} => facts.store = "dir"
  /\ stage \in {"seed", "audit", "fetch"} => facts.handles = "listed"
  /\ stage = "fetch" => facts.chunks \in {"good", "corrupt"}
  /\ stage = "report" =>
        /\ AuditOver
        /\ \/ audited \/ facts.da = "none" \/ facts.samples = "none"
           \/ warnings \cap AuditCodes # {}
  /\ stage \in {"header", "challenge"} => ~seeded
  /\ Rank[stage] > Rank.challenge => (seeded <=> facts.challenge \in Seeding)
  /\ "W_SELF" \notin warnings

\* Every verdict has its reason.
Explained ==
  \A l \in Levels :
    /\ verdicts[l].kind = "none" => verdicts[l] = None
    /\ Reports(l) => Accepts(l) /\ verdicts[l].status \in DOMAIN Order
    /\ verdicts[l].kind \in {"rejected", "crashed"} /\ l # "FULLY_VERIFIED" => Refuses(l)

LevelsInv == Passed /\ Audited /\ Explained /\ NoSilentDowngrade

LEMMA MainNames ==
  /\ Main \subseteq Names
  /\ DOMAIN Good = Main \ {"rules", "author"}
  /\ \A s \in DOMAIN Good : Good[s] \subseteq Outcomes[s] /\ Unknown \notin Outcomes[s]
BY DEF Main, Names, Good, Outcomes, Unknown

LEMMA KnownStays ==
  ASSUME KeepsFacts, NEW f \in Names \ {"challenge"}, facts[f] # Unknown
  PROVE  facts'[f] = facts[f]
BY DEF KeepsFacts

LEMMA PassesStay ==
  ASSUME KeepsFacts, NEW l, NEW s \in Main
  PROVE  /\ Passes(s, l) => Passes(s, l)'
         /\ Fails(s, l) => Fails(s, l)'
<1>1. \A f \in Names \ {"challenge"} : facts[f] # Unknown => facts'[f] = facts[f]
  BY DEF KeepsFacts
<1>2. CASE s = "rules"
  BY <1>1, <1>2 DEF Passes, Fails, Names, Unknown
<1>3. CASE s = "author"
  BY <1>1, <1>3 DEF Passes, Fails, SignedFor, Names, Unknown
<1>4. CASE s = "challenge"
  <2>1. Good["challenge"] = Seeding \cup Unseeding /\ Outcomes["challenge"] = Good["challenge"]
    BY DEF Good, Outcomes, Seeding, Unseeding
  <2> QED
    BY <1>4, <2>1 DEF KeepsFacts, Passes, Fails
<1>5. CASE s \in Main \ {"rules", "author", "challenge"}
  <2>1. s \in Names \ {"challenge"} /\ s \in DOMAIN Good
    BY <1>5, MainNames
  <2>2. facts[s] \in Outcomes[s] => facts'[s] = facts[s]
    BY <1>1, <2>1, MainNames
  <2> QED
    BY <1>5, <2>1, <2>2, MainNames DEF Passes, Fails
<1> QED
  BY <1>2, <1>3, <1>4, <1>5

LEMMA ReasonsStay ==
  ASSUME KeepsFacts, NEW l
  PROVE  /\ Accepts(l) => Accepts(l)'
         /\ Refuses(l) => Refuses(l)'
<1>1. \A f \in Names \ {"challenge"} : facts[f] # Unknown => facts'[f] = facts[f]
  BY DEF KeepsFacts
<1>2. AuditOver => AuditOver'
  BY <1>1 DEF AuditOver, KeepsFacts, Names, Unknown
<1>3. AuditCrashes => AuditCrashes'
  BY <1>1 DEF AuditCrashes, KeepsFacts, Names, Unknown
<1>4. facts.policy \in {"none", "document"} => facts'.policy \in {"none", "document"}
  BY <1>1 DEF Names, Unknown
<1>5. Accepts(l) => Accepts(l)'
  BY <1>2, PassesStay DEF Accepts
<1>6. Refuses(l) => Refuses(l)'
  BY <1>3, <1>4, PassesStay DEF Refuses
<1> QED
  BY <1>5, <1>6

\* What rejects a capsule at one level rejects it at every higher one.
LEMMA NotBoth ==
  ASSUME NEW l \in Levels, NEW m \in Levels, Order[l] < Order[m], Refuses(l), Accepts(m),
         m = "FULLY_VERIFIED" => Attested
  PROVE  FALSE
<1>1. m # "PROOF_ONLY" /\ l # "FULLY_VERIFIED" /\ (l = "POLICY_ENFORCED" => m = "FULLY_VERIFIED")
  BY LevelNames DEF Order
<1>2. ASSUME NEW s \in Main, Fails(s, l)
      PROVE  FALSE
  <2>1. Passes(s, m)
    BY DEF Accepts
  <2>2. CASE s = "rules"
    BY <1>2, <2>1, <2>2 DEF Passes, Fails
  <2>3. CASE s = "author"
    BY <1>1, <1>2, <2>1, <2>3 DEF Passes, Fails, SignedFor
  <2>4. CASE s \notin {"rules", "author"}
    BY <1>2, <2>1, <2>4 DEF Passes, Fails
  <2> QED
    BY <2>2, <2>3, <2>4
<1>3. ~AuditCrashes
  BY DEF Accepts, AuditOver, AuditCrashes, Seeding, Unseeding
<1>4. ~(l = "POLICY_ENFORCED" /\ facts.policy \in {"none", "document"})
  BY <1>1 DEF Attested
<1> QED
  BY <1>2, <1>3, <1>4 DEF Refuses

LEMMA VerdictsStay ==
  ASSUME KeepsFacts, NEW l \in Levels, verdicts'[l] = verdicts[l], Explained, NoSilentDowngrade
  PROVE  /\ verdicts'[l].kind = "none" => verdicts'[l] = None
         /\ Reports(l)' => Accepts(l)' /\ verdicts'[l].status \in DOMAIN Order
         /\ verdicts'[l].kind \in {"rejected", "crashed"} /\ l # "FULLY_VERIFIED" => Refuses(l)'
         /\ Reports(l)' /\ facts'.da # "none" /\ facts'.samples # "none"
               /\ Order[verdicts'[l].status] = Order.POLICY_ENFORCED
            => verdicts'[l].warnings \cap AuditCodes # {}
<1>1. facts'.da # "none" => facts.da # "none"
  BY DEF KeepsFacts, Names, Unknown
<1>2. facts'.samples # "none" => facts.samples # "none"
  BY DEF KeepsFacts, Names, Unknown
<1>3. Reports(l)' => Reports(l)
  BY DEF Reports
<1>4. /\ Reports(l)' => Accepts(l)' /\ verdicts'[l].status \in DOMAIN Order
      /\ verdicts'[l].kind = "none" => verdicts'[l] = None
  BY <1>3, ReasonsStay DEF Explained, None
<1>5. verdicts'[l].kind \in {"rejected", "crashed"} /\ l # "FULLY_VERIFIED" => Refuses(l)'
  BY ReasonsStay DEF Explained
<1> QED
  BY <1>1, <1>2, <1>3, <1>4, <1>5 DEF NoSilentDowngrade

\* Nothing of the capsule has been looked at between two verifications.
LEMMA NothingPassed ==
  ASSUME stage' = "header", ~seeded', "W_SELF" \notin warnings'
  PROVE  Passed' /\ Audited'
<1>1. \A s \in Main : ~(Rank[s] < Rank["header"])
  BY DEF Main, Rank
<1>2. ~(Rank["header"] > Rank.challenge)
  BY DEF Rank
<1> QED
  BY <1>1, <1>2 DEF Passed, Audited

LEMMA EndsExplained ==
  ASSUME TypeOK, LevelsInv, KeepsFacts, NEW l \in Levels, level = l, NEW v, Ends(v),
         v.kind \in {"rejected", "crashed"}, l = "FULLY_VERIFIED" \/ Refuses(l)'
  PROVE  LevelsInv'
<1>1. /\ verdicts'[l] = v
      /\ \A m \in Levels : m # l => verdicts'[m] = verdicts[m]
      /\ stage' = "header" /\ warnings' = {}
  BY DEF Ends, TypeOK
<1>2. ~seeded'
  BY Zenon DEF Ends
<1>3. Passed' /\ Audited'
  BY <1>1, <1>2, NothingPassed
<1>4. ~Reports(l)'
  BY <1>1 DEF Reports
<1>5. Explained' /\ NoSilentDowngrade'
  BY <1>1, <1>4, VerdictsStay DEF LevelsInv, Explained, NoSilentDowngrade
<1> QED
  BY <1>3, <1>5 DEF LevelsInv

\* The verification goes on at stage t.
GoesOn(t) ==
  /\ level' = level /\ stage' = t /\ verdicts' = verdicts
  /\ \/ warnings' = warnings
     \/ \E c \in AuditCodes \cup {"E201"} : warnings' = warnings \cup {c}

LEMMA MovesExplained ==
  ASSUME LevelsInv, KeepsFacts, NEW l \in Levels, level = l, NEW t \in Stages, GoesOn(t),
         \A s \in Main : Rank[s] < Rank[t] => Rank[s] < Rank[stage] \/ Passes(s, l)',
         t \in {"store", "handles", "seed", "audit", "fetch"} =>
            stage \in {"store", "handles", "seed", "audit", "fetch"} \/ facts'.mode = "local",
         t \in {"handles", "seed", "audit", "fetch"} =>
            stage \in {"handles", "seed", "audit", "fetch"} \/ facts'.store = "dir",
         t \in {"seed", "audit", "fetch"} =>
            stage \in {"seed", "audit", "fetch"} \/ facts'.handles = "listed",
         t = "fetch" => stage = "fetch" \/ facts'.chunks \in {"good", "corrupt"},
         t = "report" =>
            /\ AuditOver'
            /\ \/ audited' \/ facts'.da = "none" \/ facts'.samples = "none"
               \/ warnings' \cap AuditCodes # {},
         t \in {"header", "challenge"} => ~seeded',
         Rank[t] > Rank.challenge =>
            \/ seeded' <=> facts'.challenge \in Seeding
            \/ Rank[stage] > Rank.challenge /\ (seeded' <=> seeded)
  PROVE  LevelsInv'
<1>1. level' = level /\ stage' = t /\ verdicts' = verdicts
  BY DEF GoesOn
<1>2. Explained' /\ NoSilentDowngrade'
  BY <1>1, VerdictsStay DEF LevelsInv, Explained, NoSilentDowngrade
<1>3. Passed'
  <2>1. ASSUME NEW s \in Main, Rank[s] < Rank[t]
        PROVE  Passes(s, l)'
    <3>1. Rank[s] < Rank[stage] => Passes(s, l)
      BY DEF LevelsInv, Passed
    <3> QED
      BY <2>1, <3>1, PassesStay
  <2>2. ASSUME NEW s \in Main, Rank[s] < Rank[t]
        PROVE  Passes(s, level)'
    <3>1. Passes(s, l)'
      BY <2>1, <2>2
    <3>2. level' = l
      BY <1>1
    <3> QED
      BY <3>1, <3>2 DEF Passes, SignedFor
  <2> QED
    BY <1>1, <2>2 DEF Passed
<1>4. /\ facts.mode = "local" => facts'.mode = "local"
      /\ facts.store = "dir" => facts'.store = "dir"
      /\ facts.handles = "listed" => facts'.handles = "listed"
      /\ facts.chunks \in {"good", "corrupt"} => facts'.chunks \in {"good", "corrupt"}
  BY DEF KeepsFacts, Names, Unknown
<1>5. "W_SELF" \notin warnings'
  BY DEF GoesOn, LevelsInv, Audited, AuditCodes, DACodes
<1>6. Rank[t] > Rank.challenge => (seeded' <=> facts'.challenge \in Seeding)
  <2>1. CASE Rank[stage] > Rank.challenge /\ (seeded' <=> seeded) /\ Rank[t] > Rank.challenge
    <3>1. seeded <=> facts.challenge \in Seeding
      BY <2>1 DEF LevelsInv, Audited
    <3>2. Passes("challenge", l)
      BY <2>1 DEF LevelsInv, Passed, Main
    <3>3. facts.challenge \in Seeding \cup Unseeding
      BY <3>2 DEF Passes, Good, Outcomes, Seeding, Unseeding
    <3>4. Seeding \cap Unseeding = {}
      BY DEF Seeding, Unseeding
    <3>5. facts'.challenge \in Seeding <=> facts.challenge \in Seeding
      BY <3>3, <3>4 DEF KeepsFacts
    <3> QED
      BY <2>1, <3>1, <3>5
  <2> QED
    BY <2>1
<1>7. Audited'
  BY <1>1, <1>4, <1>5, <1>6 DEF LevelsInv, Audited
<1> QED
  BY <1>2, <1>3, <1>7 DEF LevelsInv
-----------------------------------------------------------------------------
(* The stages again: why each ends or goes on.                             *)

\* Stage t follows stage s among the checks every capsule goes through.
Follows(s, t) ==
  /\ t \in (Main \ {"header"}) \cup {"da"}
  /\ t = "challenge" => s = "header"
  /\ \A u \in Main : Rank[u] < Rank[t] => Rank[u] < Rank[s] \/ u = s

LEMMA Successors ==
  /\ Follows("header", "challenge") /\ Follows("challenge", "binding")
  /\ Follows("binding", "policy") /\ Follows("policy", "statement")
  /\ Follows("statement", "events") /\ Follows("events", "rules") /\ Follows("rules", "proof")
  /\ Follows("proof", "archive") /\ Follows("archive", "author") /\ Follows("author", "da")
BY DEF Follows, Main, Rank

LEMMA NextCheck ==
  ASSUME LevelsInv, KeepsFacts, NEW l \in Levels, level = l, NEW s \in Main \ {"challenge"},
         NEW t, Follows(s, t), stage = s, GoesOn(t), seeded' = seeded, Passes(s, l)'
  PROVE  LevelsInv'
<1>1. t \in Main \cup {"da"} /\ t \in Stages
  BY DEF Follows, Main, Stages
<1>2. /\ t \notin {"store", "handles", "seed", "audit", "fetch", "report"}
      /\ Rank[t] > Rank.challenge => Rank[s] > Rank.challenge \/ s = "challenge"
  <2>1. t \notin {"store", "handles", "seed", "audit", "fetch", "report"}
    BY <1>1 DEF Main
  <2>2. Rank["challenge"] < Rank[t] => Rank["challenge"] < Rank[s] \/ s = "challenge"
    BY DEF Follows, Main
  <2>3. \A u \in Main \cup {"da"} : Rank[u] \in Nat
    BY DEF Main, Rank
  <2> QED
    BY <1>1, <2>1, <2>2, <2>3 DEF Main
<1>3. \A u \in Main : Rank[u] < Rank[t] => Rank[u] < Rank[stage] \/ Passes(u, l)'
  BY DEF Follows
<1>4. Rank[t] > Rank.challenge => Rank[stage] > Rank.challenge /\ (seeded' <=> seeded)
  BY <1>2
<1>5. t \in {"header", "challenge"} => ~seeded'
  BY DEF Follows, LevelsInv, Audited
<1> QED
  BY <1>1, <1>2, <1>3, <1>4, <1>5, MovesExplained

LEMMA GotoGoesOn ==
  ASSUME NEW t, Goto(t)
  PROVE  GoesOn(t) /\ seeded' = seeded /\ audited' = audited /\ warnings' = warnings
BY DEF Goto, GoesOn, locals

LEMMA CheckExplained ==
  ASSUME TypeOK, LevelsInv, KeepsFacts, NEW l \in Levels, level = l, NEW s \in Main, NEW t,
         Follows(s, t), Check(s, s, t), s \in {"header", "binding", "statement", "proof", "rules"},
         s = "rules" => facts.policy # "none"
  PROVE  LevelsInv'
<1>1. s \in Names /\ TypedFacts
  BY TypeParts, MainNames
<1>2. CASE Found(s, "ok") /\ Goto(t)
  <2>1. facts'[s] = "ok"
    BY <1>1, <1>2, FoundFacts DEF TypedFacts
  <2>2. Passes(s, l)'
    BY <2>1 DEF Passes, Good
  <2>3. stage = s /\ s # "challenge"
    BY DEF Check
  <2> QED
    BY <1>2, <2>2, <2>3, GotoGoesOn, NextCheck
<1>3. CASE Found(s, "bad") /\ Ends(Rejected(s))
  <2>1. facts'[s] = "bad"
    BY <1>1, <1>3, FoundFacts DEF TypedFacts
  <2>2. s = "rules" => facts'.policy \in {"document", "attested"}
    <3>1. ASSUME s = "rules"
          PROVE  Passes("policy", l)
      BY <3>1 DEF Check, LevelsInv, Passed, Main, Rank
    <3>2. s = "rules" => facts.policy \in {"document", "attested"}
      BY <3>1 DEF Passes, Good
    <3> QED
      BY <3>2, KnownStays DEF Names, Unknown
  <2>3. Fails(s, l)'
    BY <2>1, <2>2 DEF Fails, Good, Outcomes
  <2>4. Refuses(l)'
    BY <2>3 DEF Refuses
  <2> QED
    BY <1>3, <2>4, EndsExplained DEF Rejected
<1> QED
  BY <1>2, <1>3 DEF Check

LEMMA ChecksExplained ==
  ASSUME TypeOK, LevelsInv, KeepsFacts, NEW l \in Levels, level = l,
         \/ Header \/ Statement \/ Proof \/ Check("binding", "binding", "policy")
         \/ facts.policy # "none" /\ Check("rules", "rules", "proof")
  PROVE  LevelsInv'
<1>1. Header => LevelsInv'
  BY CheckExplained, Successors DEF Header, Main
<1>2. Statement => LevelsInv'
  BY CheckExplained, Successors DEF Statement, Main
<1>3. Proof => LevelsInv'
  BY CheckExplained, Successors DEF Proof, Main
<1>4. Check("binding", "binding", "policy") => LevelsInv'
  BY CheckExplained, Successors DEF Main
<1>5. facts.policy # "none" /\ Check("rules", "rules", "proof") => LevelsInv'
  BY CheckExplained, Successors DEF Main
<1> QED
  BY <1>1, <1>2, <1>3, <1>4, <1>5

LEMMA BindingExplained ==
  ASSUME TypeOK, LevelsInv, KeepsFacts, NEW l \in Levels, level = l, Binding
  PROVE  LevelsInv'
<1>1. CASE Found("binding", "rootless") /\ Ends(Crashed)
  <2>1. facts'["binding"] = "rootless"
    BY <1>1, TypeParts, FoundFacts DEF TypedFacts, Names
  <2>2. Fails("binding", l)'
    BY <2>1 DEF Fails, Good, Outcomes
  <2>3. Refuses(l)'
    BY <2>2 DEF Refuses, Main
  <2> QED
    BY <1>1, <2>3, EndsExplained DEF Crashed
<1> QED
  BY <1>1, ChecksExplained DEF Binding

LEMMA PolicyExplained ==
  ASSUME TypeOK, LevelsInv, KeepsFacts, NEW l \in Levels, level = l, Policy
  PROVE  LevelsInv'
<1>1. PICK p \in Outcomes["policy"] :
         /\ stage = "policy" /\ Found("policy", p)
         /\ IF p = "bad" THEN Ends(Rejected("policy")) ELSE Goto("statement")
  BY DEF Policy
<1>2. facts'["policy"] = p
  BY <1>1, TypeParts, FoundFacts DEF TypedFacts, Names
<1>3. CASE p = "bad"
  <2>1. Fails("policy", l)'
    BY <1>2, <1>3 DEF Fails, Good, Outcomes
  <2>2. Refuses(l)'
    BY <2>1 DEF Refuses, Main
  <2> QED
    BY <1>1, <1>3, <2>2, EndsExplained DEF Rejected
<1>4. CASE p # "bad"
  <2>1. Passes("policy", l)'
    BY <1>2, <1>4 DEF Passes, Good, Outcomes
  <2> QED
    BY <1>1, <1>4, <2>1, GotoGoesOn, NextCheck, Successors DEF Main
<1> QED
  BY <1>3, <1>4

LEMMA EventsExplained ==
  ASSUME TypeOK, LevelsInv, KeepsFacts, NEW l \in Levels, level = l, Events
  PROVE  LevelsInv'
<1>1. ASSUME NEW e \in Outcomes["events"], Found("events", e)
      PROVE  facts'["events"] = e
  BY <1>1, TypeParts, FoundFacts DEF TypedFacts, Names
<1>2. CASE \/ Found("events", "ok") /\ Goto("rules")
           \/ Found("events", "bad") /\ Warns("E201", "rules")
  <2>1. Passes("events", l)'
    BY <1>1, <1>2 DEF Passes, Good, Outcomes
  <2>2. stage = "events" /\ GoesOn("rules") /\ seeded' = seeded
    BY <1>2 DEF Events, Goto, Warns, GoesOn, locals
  <2> QED
    BY <2>1, <2>2, NextCheck, Successors DEF Main
<1>3. CASE Found("events", "misshapen") /\ Ends(Crashed)
  <2>1. Fails("events", l)'
    BY <1>1, <1>3 DEF Fails, Good, Outcomes
  <2>2. Refuses(l)'
    BY <2>1 DEF Refuses, Main
  <2> QED
    BY <1>3, <2>2, EndsExplained DEF Crashed
<1> QED
  BY <1>2, <1>3 DEF Events

LEMMA RulesExplained ==
  ASSUME TypeOK, LevelsInv, KeepsFacts, NEW l \in Levels, level = l, Rules
  PROVE  LevelsInv'
<1>1. CASE facts.policy = "none" /\ stage = "rules" /\ Goto("proof") /\ UNCHANGED facts
  <2>1. Passes("rules", l)'
    BY <1>1 DEF Passes
  <2> QED
    BY <1>1, <2>1, GotoGoesOn, NextCheck, Successors DEF Main
<1> QED
  BY <1>1, ChecksExplained DEF Rules

LEMMA ArchiveExplained ==
  ASSUME TypeOK, LevelsInv, KeepsFacts, NEW l \in Levels, level = l, Archive
  PROVE  LevelsInv'
<1>1. PICK a \in Outcomes["archive"] :
         /\ stage = "archive" /\ Found("archive", a)
         /\ IF a = "bad" THEN Ends(Rejected("archive")) ELSE Goto("author")
  BY DEF Archive
<1>2. facts'["archive"] = a
  BY <1>1, TypeParts, FoundFacts DEF TypedFacts, Names
<1>3. CASE a = "bad"
  <2>1. Fails("archive", l)'
    BY <1>2, <1>3 DEF Fails, Good, Outcomes
  <2>2. Refuses(l)'
    BY <2>1 DEF Refuses, Main
  <2> QED
    BY <1>1, <1>3, <2>2, EndsExplained DEF Rejected
<1>4. CASE a # "bad"
  <2>1. Passes("archive", l)'
    BY <1>2, <1>4 DEF Passes, Good, Outcomes
  <2> QED
    BY <1>1, <1>4, <2>1, GotoGoesOn, NextCheck, Successors DEF Main
<1> QED
  BY <1>3, <1>4

LEMMA AuthorExplained ==
  ASSUME TypeOK, LevelsInv, KeepsFacts, NEW l \in Levels, level = l, Author
  PROVE  LevelsInv'
<1>1. PICK a \in Outcomes["author"], c \in Outcomes["acl"] :
         /\ stage = "author"
         /\ facts' = [facts EXCEPT !["author"] = a, !["acl"] = c]
         /\ IF \/ a = "bad"
               \/ a = "absent" /\ (c # "none" \/ AtLeast("POLICY_SELF_REPORTED"))
               \/ c = "unlisted"
            THEN Ends(Rejected("author"))
            ELSE Goto("da")
  BY DEF Author
<1>2. facts'["author"] = a /\ facts'["acl"] = c
  BY <1>1, TypeParts DEF TypedFacts, Names
<1>3. AtLeast("POLICY_SELF_REPORTED") <=> l # "PROOF_ONLY"
  BY LevelNames DEF AtLeast, Order
<1>4. CASE Ends(Rejected("author")) /\ \/ a = "bad"
                                       \/ a = "absent" /\ (c # "none" \/ l # "PROOF_ONLY")
                                       \/ c = "unlisted"
  <2>1. Fails("author", l)'
    BY <1>2, <1>4 DEF Fails, Outcomes
  <2>2. Refuses(l)'
    BY <2>1 DEF Refuses, Main
  <2> QED
    BY <1>4, <2>2, EndsExplained DEF Rejected
<1>5. CASE Goto("da") /\ ~(\/ a = "bad"
                           \/ a = "absent" /\ (c # "none" \/ l # "PROOF_ONLY")
                           \/ c = "unlisted")
  <2>1. Passes("author", l)'
    BY <1>2, <1>5 DEF Passes, SignedFor, Outcomes
  <2> QED
    BY <1>1, <1>5, <2>1, GotoGoesOn, NextCheck, Successors DEF Main
<1> QED
  BY <1>1, <1>3, <1>4, <1>5

LEMMA ChallengeExplained ==
  ASSUME TypeOK, LevelsInv, KeepsFacts, NEW l \in Levels, level = l, Challenge
  PROVE  LevelsInv'
<1>1. PICK c \in Outcomes["challenge"] :
         /\ stage = "challenge" /\ Found("challenge", c)
         /\ IF ChallengeStatus(c) = "OK"
            THEN /\ seeded' = (c # "absent")
                 /\ stage' = "binding"
                 /\ UNCHANGED <<level, warnings, audited, attempt, verdicts>>
            ELSE Degrades(ChallengeStatus(c), "binding")
  BY DEF Challenge
<1>2. facts'["challenge"] = c
  BY <1>1, TypeParts, FoundFacts DEF TypedFacts, Names
<1>3. CASE Full /\ Ends(Rejected(ChallengeStatus(c)))
  <2>1. l = "FULLY_VERIFIED"
    BY <1>3, LevelNames DEF Full, AtLeast, Order
  <2> QED
    BY <1>3, <2>1, EndsExplained DEF Rejected
<1>4. CASE GoesOn("binding") /\ (seeded' <=> c \in Seeding)
  <2>1. /\ "binding" \in Stages
        /\ \A s \in Main : Rank[s] < Rank["binding"] =>
                              Rank[s] < Rank["challenge"] \/ s = "challenge"
    BY DEF Stages, Main, Rank
  <2>2. Passes("challenge", l)'
    BY <1>2 DEF Passes, Good
  <2> QED
    BY <1>1, <1>2, <1>4, <2>1, <2>2, MovesExplained
<1>5. ASSUME ChallengeStatus(c) = "OK", seeded' = (c # "absent"), stage' = "binding",
             UNCHANGED <<level, warnings, audited, attempt, verdicts>>
      PROVE  GoesOn("binding") /\ (seeded' <=> c \in Seeding)
  <2>1. GoesOn("binding")
    BY <1>5 DEF GoesOn
  <2>2. c \notin {"lost", "altered", "unbound"}
    BY <1>5 DEF ChallengeStatus
  <2>3. c # "absent" <=> c \in Seeding
    BY <2>2 DEF Outcomes, Seeding
  <2> QED
    BY <1>5, <2>1, <2>3
<1>6. ~seeded
  BY <1>1 DEF LevelsInv, Audited
<1>7. ASSUME ~Full, ChallengeStatus(c) # "OK", Warns(ChallengeStatus(c), "binding")
      PROVE  GoesOn("binding") /\ (seeded' <=> c \in Seeding)
  <2>1. ChallengeStatus(c) \in AuditCodes /\ c \notin Seeding
    BY <1>7 DEF ChallengeStatus, AuditCodes, DACodes, Seeding
  <2>2. GoesOn("binding")
    BY <1>7, <2>1 DEF Warns, GoesOn
  <2>3. ~seeded'
    BY <1>6, <1>7, Zenon DEF Warns
  <2> QED
    BY <2>1, <2>2, <2>3
<1> QED
  BY <1>1, <1>3, <1>4, <1>5, <1>7 DEF Degrades

-----------------------------------------------------------------------------
(* The audit: it is over, or noted, when the report is written.            *)

LEMMA AuditGoesOn ==
  ASSUME LevelsInv, KeepsFacts, NEW l \in Levels, level = l, stage \in InAudit \cup {"da"},
         NEW t \in InAudit \cup {"report"}, GoesOn(t), seeded' = seeded,
         t \in {"store", "handles", "seed", "audit", "fetch"} =>
            stage \in {"store", "handles", "seed", "audit", "fetch"} \/ facts'.mode = "local",
         t \in {"handles", "seed", "audit", "fetch"} =>
            stage \in {"handles", "seed", "audit", "fetch"} \/ facts'.store = "dir",
         t \in {"seed", "audit", "fetch"} =>
            stage \in {"seed", "audit", "fetch"} \/ facts'.handles = "listed",
         t = "fetch" => stage = "fetch" \/ facts'.chunks \in {"good", "corrupt"},
         t = "report" =>
            /\ AuditOver'
            /\ \/ audited' \/ facts'.da = "none" \/ facts'.samples = "none"
               \/ warnings' \cap AuditCodes # {}
  PROVE  LevelsInv'
<1>1. t \in Stages /\ t \notin {"header", "challenge"}
  BY DEF InAudit, Stages
<1>2. \A s \in Main : Rank[s] < Rank[stage]
  BY DEF InAudit, Main, Rank
<1>3. Rank[stage] > Rank.challenge
  BY DEF InAudit, Rank
<1> QED
  BY <1>1, <1>2, <1>3, MovesExplained

\* A failed audit rejects at FULL and is noted below it.
LEMMA DegradeExplained ==
  ASSUME TypeOK, LevelsInv, KeepsFacts, NEW l \in Levels, level = l,
         stage \in InAudit \cup {"da"}, NEW c \in AuditCodes, NEW t \in {"mode", "report"},
         Degrades(c, t), t = "report" => AuditOver'
  PROVE  LevelsInv'
<1>1. CASE Full /\ Ends(Rejected(c))
  <2>1. l = "FULLY_VERIFIED"
    BY <1>1, LevelNames DEF Full, AtLeast, Order
  <2> QED
    BY <1>1, <2>1, EndsExplained DEF Rejected
<1>2. CASE Warns(c, t)
  <2>1. GoesOn(t) /\ seeded' = seeded /\ c \in warnings'
    BY <1>2 DEF Warns, GoesOn
  <2>2. t \in InAudit \cup {"report"}
    BY DEF InAudit
  <2> QED
    BY <2>1, <2>2, AuditGoesOn
<1> QED
  BY <1>1, <1>2 DEF Degrades

LEMMA DAExplained ==
  ASSUME TypeOK, LevelsInv, KeepsFacts, NEW l \in Levels, level = l, DA
  PROVE  LevelsInv'
<1>1. PICK d \in Outcomes["da"] :
         /\ stage = "da" /\ Found("da", d)
         /\ \/ d = "none" /\ Full /\ Ends(Rejected("E071"))
            \/ d = "none" /\ Goto("report")
            \/ d # "none" /\ Degrades("E060", "mode")
            \/ d # "none" /\ Goto("mode")
  BY DEF DA
<1>2. facts'["da"] = d
  BY <1>1, TypeParts, FoundFacts DEF TypedFacts, Names
<1>3. CASE Full /\ Ends(Rejected("E071"))
  <2>1. l = "FULLY_VERIFIED"
    BY <1>3, LevelNames DEF Full, AtLeast, Order
  <2> QED
    BY <1>3, <2>1, EndsExplained DEF Rejected
<1>4. CASE d = "none" /\ Goto("report")
  BY <1>1, <1>2, <1>4, GotoGoesOn, AuditGoesOn DEF AuditOver
<1>5. CASE Degrades("E060", "mode")
  BY <1>1, <1>5, DegradeExplained DEF AuditCodes, DACodes
<1>6. CASE Goto("mode")
  BY <1>1, <1>6, GotoGoesOn, AuditGoesOn DEF InAudit
<1> QED
  BY <1>1, <1>3, <1>4, <1>5, <1>6

LEMMA ModeExplained ==
  ASSUME TypeOK, LevelsInv, KeepsFacts, NEW l \in Levels, level = l, Mode
  PROVE  LevelsInv'
<1>1. stage = "mode" /\ stage \in InAudit
  BY DEF Mode, InAudit
<1>2. CASE Found("mode", "local") /\ Goto("store")
  <2>1. facts'["mode"] = "local"
    BY <1>2, TypeParts, FoundFacts DEF TypedFacts, Names
  <2> QED
    BY <1>1, <1>2, <2>1, GotoGoesOn, AuditGoesOn DEF InAudit
<1>3. CASE Found("mode", "other") /\ Degrades("E070", "report")
  <2>1. facts'["mode"] = "other"
    BY <1>3, TypeParts, FoundFacts DEF TypedFacts, Names
  <2> QED
    BY <1>1, <1>3, <2>1, DegradeExplained DEF AuditOver, AuditCodes, DACodes
<1> QED
  BY <1>2, <1>3 DEF Mode

LEMMA StoreExplained ==
  ASSUME TypeOK, LevelsInv, KeepsFacts, NEW l \in Levels, level = l, Store
  PROVE  LevelsInv'
<1>1. stage = "store" /\ stage \in InAudit
  BY DEF Store, InAudit
<1>2. CASE Found("store", "dir") /\ Goto("handles")
  <2>1. facts'["store"] = "dir"
    BY <1>2, TypeParts, FoundFacts DEF TypedFacts, Names
  <2> QED
    BY <1>1, <1>2, <2>1, GotoGoesOn, AuditGoesOn DEF InAudit
<1>3. CASE Found("store", "missing") /\ Degrades("E062", "report")
  <2>1. facts'["store"] = "missing"
    BY <1>3, TypeParts, FoundFacts DEF TypedFacts, Names
  <2> QED
    BY <1>1, <1>3, <2>1, DegradeExplained DEF AuditOver, AuditCodes, DACodes
<1> QED
  BY <1>2, <1>3 DEF Store

LEMMA HandlesExplained ==
  ASSUME TypeOK, Working, LevelsInv, KeepsFacts, NEW l \in Levels, level = l, Handles
  PROVE  LevelsInv'
<1>1. PICK h \in Outcomes["handles"] :
         /\ stage = "handles" /\ Found("handles", h)
         /\ \/ h # "listed" /\ Degrades("E075", "report")
            \/ h = "listed" /\ facts.archive # "roots" /\ Ends(Crashed)
            \/ h = "listed" /\ Goto("seed")
  BY DEF Handles
<1>2. facts'["handles"] = h
  BY <1>1, TypeParts, FoundFacts DEF TypedFacts, Names
<1>3. stage \in InAudit
  BY <1>1 DEF InAudit
<1>4. CASE h # "listed" /\ Degrades("E075", "report")
  <2>1. AuditOver'
    BY <1>2, <1>4 DEF AuditOver, Outcomes
  <2> QED
    BY <1>3, <1>4, <2>1, DegradeExplained DEF AuditCodes, DACodes
<1>5. CASE h = "listed" /\ facts.archive # "roots" /\ Ends(Crashed)
  <2>1. Passes("archive", l)
    BY <1>1 DEF LevelsInv, Passed, Main, Rank
  <2>2. facts.archive \in {"uncommitted", "empty"}
    BY <1>5, <2>1 DEF Passes, Good
  <2>3. facts.da \in {"policy", "legacy"} /\ facts.mode = "local" /\ facts.store = "dir"
    BY <1>1 DEF Working, Challenged, InAudit, LevelsInv, Audited
  <2>4. AuditCrashes'
    BY <1>2, <1>5, <2>2, <2>3 DEF AuditCrashes, KeepsFacts, Names, Unknown
  <2>5. Refuses(l)'
    BY <2>4 DEF Refuses
  <2> QED
    BY <1>5, <2>5, EndsExplained DEF Crashed
<1>6. CASE h = "listed" /\ Goto("seed")
  BY <1>1, <1>2, <1>3, <1>6, GotoGoesOn, AuditGoesOn DEF InAudit
<1> QED
  BY <1>1, <1>4, <1>5, <1>6

LEMMA SeedExplained ==
  ASSUME TypeOK, Working, LevelsInv, KeepsFacts, NEW l \in Levels, level = l, Seed
  PROVE  LevelsInv'
<1>1. stage = "seed" /\ stage \in InAudit /\ facts' = facts
  BY DEF Seed, InAudit
<1>2. CASE Goto("audit")
  BY <1>1, <1>2, GotoGoesOn, AuditGoesOn DEF InAudit
<1>3. CASE ~seeded /\ facts.da # "legacy" /\ Degrades("E071", "report")
  <2>1. facts.challenge \notin Seeding
    BY <1>1, <1>3 DEF LevelsInv, Audited, Rank
  <2>2. Passes("challenge", l)
    BY <1>1 DEF LevelsInv, Passed, Main, Rank
  <2>3. facts.challenge \in Unseeding
    BY <2>1, <2>2 DEF Passes, Good, Outcomes, Seeding, Unseeding
  <2>4. facts.da = "policy" /\ facts.archive = "roots"
    BY <1>1, <1>3 DEF Working, Challenged, Established, InAudit
  <2>5. AuditOver'
    BY <1>1, <2>3, <2>4 DEF AuditOver
  <2> QED
    BY <1>1, <1>3, <2>5, DegradeExplained DEF AuditCodes, DACodes
<1> QED
  BY <1>2, <1>3 DEF Seed

LEMMA AuditExplained ==
  ASSUME TypeOK, Working, LevelsInv, KeepsFacts, NEW l \in Levels, level = l, Audit
  PROVE  LevelsInv'
<1>1. stage = "audit" /\ stage \in InAudit
  BY DEF Audit, InAudit
<1>2. /\ facts.da \in {"policy", "legacy"} /\ facts.mode = "local" /\ facts.store = "dir"
      /\ facts.handles = "listed" /\ facts.archive = "roots"
      /\ facts.da = "legacy" \/ facts.challenge \in Seeding
  BY <1>1 DEF Working, Challenged, Established, InAudit, LevelsInv, Audited, Rank
<1>3. /\ facts'.da = facts.da /\ facts'.mode = "local" /\ facts'.store = "dir"
      /\ facts'.handles = "listed" /\ facts'.archive = "roots"
      /\ facts'.da = "legacy" \/ facts'.challenge \in Seeding
  BY <1>2 DEF KeepsFacts, Names, Unknown
<1>4. CASE Found("samples", "none") /\ Goto("report")
  <2>1. facts'["samples"] = "none"
    BY <1>4, TypeParts, FoundFacts DEF TypedFacts, Names
  <2> QED
    BY <1>1, <1>3, <1>4, <2>1, GotoGoesOn, AuditGoesOn DEF AuditOver
<1>5. ASSUME NEW c \in Outcomes["chunks"],
             facts' = [facts EXCEPT !["samples"] = "some", !["chunks"] = c],
             \/ c = "unsized" /\ Degrades("E066", "report")
             \/ c = "undecodable" /\ Ends(Crashed)
             \/ c \in {"good", "corrupt"} /\ Goto("fetch")
      PROVE  LevelsInv'
  <2>1. facts'["samples"] = "some" /\ facts'["chunks"] = c
    BY <1>5, TypeParts DEF TypedFacts, Names
  <2>2. CASE c = "unsized" /\ Degrades("E066", "report")
    <3>1. AuditOver'
      BY <1>3, <2>1, <2>2 DEF AuditOver
    <3> QED
      BY <1>1, <2>2, <3>1, DegradeExplained DEF AuditCodes, DACodes
  <2>3. CASE c = "undecodable" /\ Ends(Crashed)
    <3>1. AuditCrashes'
      BY <1>2, <1>3, <2>1, <2>3 DEF AuditCrashes
    <3>2. Refuses(l)'
      BY <3>1 DEF Refuses
    <3> QED
      BY <2>3, <3>2, EndsExplained DEF Crashed
  <2>4. CASE c \in {"good", "corrupt"} /\ Goto("fetch")
    BY <1>1, <2>1, <2>4, GotoGoesOn, AuditGoesOn DEF InAudit
  <2> QED
    BY <1>5, <2>2, <2>3, <2>4
<1>6. ASSUME ~(Found("samples", "none") /\ Goto("report"))
      PROVE  \E c \in Outcomes["chunks"] :
                /\ facts' = [facts EXCEPT !["samples"] = "some", !["chunks"] = c]
                /\ \/ c = "unsized" /\ Degrades("E066", "report")
                   \/ c = "undecodable" /\ Ends(Crashed)
                   \/ c \in {"good", "corrupt"} /\ Goto("fetch")
  <2>1. Outcomes["chunks"] = {"good", "corrupt", "unsized", "undecodable"}
    BY DEF Outcomes
  <2> QED
    BY <1>6, <2>1 DEF Audit
<1> QED
  BY <1>4, <1>5, <1>6

LEMMA SampleExplained ==
  ASSUME TypeOK, Working, LevelsInv, KeepsFacts, NEW l \in Levels, level = l, Sample \/ Late
  PROVE  LevelsInv'
<1>1. stage = "fetch" /\ stage \in InAudit /\ facts' = facts
  BY DEF Sample, Late, InAudit
<1>2. AuditOver'
  BY <1>1 DEF Working, Established, LevelsInv, Audited, AuditOver
<1>3. CASE Degrades("E065", "report") \/ Degrades("E074", "report")
  BY <1>1, <1>2, <1>3, DegradeExplained DEF AuditCodes, DACodes
<1>4. CASE /\ audited' = TRUE /\ stage' = "report"
           /\ UNCHANGED <<level, warnings, seeded, attempt, verdicts>>
  <2>1. GoesOn("report") /\ seeded' = seeded /\ audited'
    BY <1>4 DEF GoesOn
  <2> QED
    BY <1>1, <1>2, <2>1, AuditGoesOn
<1>5. CASE UNCHANGED <<level, stage, warnings, seeded, audited, verdicts>>
  <2>1. GoesOn("fetch") /\ seeded' = seeded
    BY <1>1, <1>5 DEF GoesOn
  <2> QED
    BY <1>1, <2>1, AuditGoesOn DEF InAudit
<1> QED
  BY <1>3, <1>4, <1>5 DEF Sample, Late

LEMMA ConcludeExplained ==
  ASSUME TypeOK, LevelsInv, KeepsFacts, NEW l \in Levels, level = l, Conclude
  PROVE  LevelsInv'
<1> DEFINE noted == warnings \cup IF Attested THEN {} ELSE {"W_SELF"}
<1>1. /\ stage = "report" /\ facts' = facts
      /\ \/ \E c \in noted \cap Rejecting : Ends(Rejected(c))
         \/ /\ noted \cap Rejecting = {}
            /\ \/ Order[Status] < Order[l] /\ Ends(Rejected("E302"))
               \/ Ends(Report(Status, noted))
  BY DEF Conclude
<1>2. \A s \in Main : Passes(s, l)
  BY <1>1 DEF LevelsInv, Passed, Main, Rank
<1>3. SignedFor(l) /\ facts.policy \in {"none", "document", "attested"}
  <2>1. Passes("author", l) /\ Passes("policy", l)
    BY <1>2 DEF Main
  <2> QED
    BY <2>1 DEF Passes, Good
<1>4. ASSUME NEW c \in noted \cap Rejecting
      PROVE  l = "FULLY_VERIFIED" \/ Refuses(l)'
  <2>1. CASE ~Full
    <3>1. c = "W_SELF" /\ AtLeast("POLICY_ENFORCED")
      BY <2>1 DEF Rejecting
    <3>2. ~Attested
      BY <3>1 DEF LevelsInv, Audited
    <3>3. l \in {"POLICY_ENFORCED", "FULLY_VERIFIED"}
      BY <3>1, LevelNames DEF AtLeast, Order
    <3> QED
      BY <1>1, <1>3, <3>2, <3>3 DEF Attested, Refuses
  <2>2. CASE Full
    BY <2>2, LevelNames DEF Full, AtLeast, Order
  <2> QED
    BY <2>1, <2>2
<1>5. noted \cap Rejecting = {} /\ Order[Status] < Order[l] => l = "FULLY_VERIFIED"
  <2>1. l = "POLICY_ENFORCED" => "W_SELF" \in Rejecting
    BY DEF Rejecting, AtLeast, Order
  <2>2. noted \cap Rejecting = {} /\ l = "POLICY_ENFORCED" => Attested
    BY <2>1
  <2>3. ~Signed => l = "PROOF_ONLY"
    BY <1>3 DEF SignedFor, Signed
  <2>4. CASE l = "PROOF_ONLY"
    BY <2>4 DEF Status, Order
  <2>5. CASE l = "POLICY_SELF_REPORTED"
    BY <2>3, <2>5 DEF Status, Order
  <2>6. CASE l = "POLICY_ENFORCED"
    BY <2>2, <2>3, <2>6 DEF Status, Order
  <2> QED
    BY <2>4, <2>5, <2>6, LevelNames
<1>6. ASSUME NEW c, Ends(Rejected(c)), l = "FULLY_VERIFIED" \/ Refuses(l)'
      PROVE  LevelsInv'
  BY <1>6, EndsExplained DEF Rejected
<1>7. CASE Ends(Report(Status, noted))
  <2>1. /\ verdicts'[l] = Report(Status, noted)
        /\ \A m \in Levels : m # l => verdicts'[m] = verdicts[m]
        /\ stage' = "header" /\ warnings' = {}
    BY <1>7 DEF Ends, TypeOK
  <2>2. ~seeded'
    BY <1>7, Zenon DEF Ends
  <2>3. Passed' /\ Audited'
    BY <2>1, <2>2, NothingPassed
  <2>4. Accepts(l)
    BY <1>1, <1>2 DEF Accepts, LevelsInv, Audited
  <2>5. Accepts(l)'
    BY <2>4, ReasonsStay
  <2>6. /\ verdicts'[l].kind = "report" /\ verdicts'[l].status = Status
        /\ verdicts'[l].warnings = noted /\ Status \in DOMAIN Order
    BY <2>1 DEF Report, Status, Order
  <2>7. Order[Status] = Order.POLICY_ENFORCED => ~audited
    BY DEF Status, Order
  <2>8. facts.da = "none" \/ facts.samples = "none" \/ audited \/ noted \cap AuditCodes # {}
    BY <1>1 DEF LevelsInv, Audited
  <2> HIDE DEF noted
  <2>9. Explained'
    BY <2>1, <2>5, <2>6, VerdictsStay DEF LevelsInv, Explained
  <2>10. NoSilentDowngrade'
    BY <1>1, <2>1, <2>6, <2>7, <2>8, VerdictsStay DEF LevelsInv, NoSilentDowngrade
  <2> QED
    BY <2>3, <2>9, <2>10 DEF LevelsInv
<1> QED
  BY <1>1, <1>4, <1>5, <1>6, <1>7

LEMMA BetweenExplained ==
  ASSUME TypeOK, LevelsInv, KeepsFacts, level = Idle, stage' = stage, warnings' = warnings,
         seeded' = seeded, verdicts' = verdicts
  PROVE  LevelsInv'
<1>1. stage = "header" /\ warnings = {} /\ ~seeded
  BY DEF TypeOK
<1>2. Passed' /\ Audited'
  BY <1>1, NothingPassed
<1>3. Explained' /\ NoSilentDowngrade'
  BY VerdictsStay DEF LevelsInv, Explained, NoSilentDowngrade
<1> QED
  BY <1>2, <1>3 DEF LevelsInv

LEMMA StepExplained ==
  ASSUME IInv, LevelsInv, level \in Levels, Step
  PROVE  LevelsInv'
<1>1. PICK l \in Levels : level = l
  OBVIOUS
<1>2. TypeOK /\ Working
  BY DEF IInv
<1>3. KeepsFacts
  <2>1. CASE Conclude
    BY <1>2, <2>1, TypeParts, Still, FoundIsFact DEF Conclude
  <2> QED
    BY <1>2, <2>1, StepKept, FoundIsFact DEF Kept
<1>4. CASE Header \/ Statement \/ Proof
  BY <1>1, <1>2, <1>3, <1>4, ChecksExplained
<1>5. CASE Challenge \/ Binding \/ Policy \/ Events \/ Rules \/ Archive \/ Author
  BY <1>1, <1>2, <1>3, <1>5, ChallengeExplained, BindingExplained, PolicyExplained,
     EventsExplained, RulesExplained, ArchiveExplained, AuthorExplained
<1>6. CASE DA \/ Mode \/ Store \/ Handles
  BY <1>1, <1>2, <1>3, <1>6, DAExplained, ModeExplained, StoreExplained, HandlesExplained
<1>7. CASE Seed \/ Audit \/ Sample \/ Late \/ Conclude
  BY <1>1, <1>2, <1>3, <1>7, SeedExplained, AuditExplained, SampleExplained, ConcludeExplained
<1> QED
  BY <1>4, <1>5, <1>6, <1>7 DEF Step

LEMMA LevelsInvHolds == Spec => []LevelsInv
<1>1. Init => LevelsInv
  <2> SUFFICES ASSUME Init PROVE LevelsInv
    OBVIOUS
  <2>1. \A l \in Levels : verdicts[l].kind = "none"
    BY DEF Init, None
  <2>2. \A l \in Levels : verdicts[l] = None
    BY DEF Init
  <2>3. ~seeded
    BY Zenon DEF Init
  <2>4. Passed
    BY DEF Init, Passed, Main, Rank
  <2>5. Audited
    BY <2>3 DEF Init, Audited, Rank
  <2> QED
    BY <2>1, <2>2, <2>4, <2>5 DEF LevelsInv, Explained, NoSilentDowngrade, Reports
<1>2. IInv /\ LevelsInv /\ [Next]_vars => LevelsInv'
  <2> SUFFICES ASSUME IInv, LevelsInv, [Next]_vars PROVE LevelsInv'
    OBVIOUS
  <2>1. CASE Step
    <3>1. level \in Levels
      BY <2>1 DEF Step, IInv, TypeOK
    <3> QED
      BY <2>1, <3>1, StepExplained
  <2>2. ASSUME facts' = facts \/ Expire, level = Idle,
               stage' = stage, warnings' = warnings, seeded' = seeded, verdicts' = verdicts
        PROVE  LevelsInv'
    <3>1. TypedFacts
      BY TypeParts DEF IInv
    <3>2. CASE Expire
      <4>1. /\ facts.challenge = "trusted" /\ facts'["challenge"] = "expired"
            /\ \A g \in Names \ {"challenge"} : facts'[g] = facts[g]
        BY <3>1, <3>2 DEF Expire, TypedFacts, Names
      <4>2. KeepsFacts
        BY <4>1 DEF KeepsFacts, Seeding, Unseeding
      <4> QED
        BY <2>2, <4>2, BetweenExplained DEF IInv
    <3>3. CASE facts' = facts
      BY <2>2, <3>1, <3>3, Still, FoundIsFact, BetweenExplained DEF IInv
    <3> QED
      BY <2>2, <3>2, <3>3
  <2>3. CASE Expire
    <3>1. seeded' = seeded
      BY <2>3, Zenon DEF Expire, locals
    <3> QED
      BY <2>2, <2>3, <3>1 DEF Expire, locals
  <2>4. ASSUME NEW l \in Levels, Begin(l)
        PROVE  LevelsInv'
    <3>1. seeded' = seeded
      BY <2>4, Zenon DEF Begin, locals
    <3> QED
      BY <2>2, <2>4, <3>1 DEF Begin, locals
  <2>5. CASE UNCHANGED vars
    <3>1. /\ facts' = facts /\ level' = level /\ stage' = stage /\ warnings' = warnings
          /\ verdicts' = verdicts
      BY <2>5 DEF vars, locals
    <3>2. seeded' = seeded /\ audited' = audited
      BY <2>5, Zenon DEF vars, locals
    <3>3. KeepsFacts
      BY <3>1, TypeParts, Still, FoundIsFact DEF IInv
    <3>4. Passed'
      BY <3>1 DEF LevelsInv, Passed, Passes, SignedFor
    <3>5. Audited'
      BY <3>1, <3>2 DEF LevelsInv, Audited, AuditOver
    <3>6. Explained' /\ NoSilentDowngrade'
      BY <3>1, <3>3, VerdictsStay DEF LevelsInv, Explained, NoSilentDowngrade
    <3> QED
      BY <3>4, <3>5, <3>6 DEF LevelsInv
  <2> QED
    BY <2>1, <2>3, <2>4, <2>5 DEF Next
<1> QED
  BY <1>1, <1>2, InvHolds, PTL DEF Spec

\* A capsule that verify_capsule.py accepts at one level is accepted at every lower
\* level: whatever rejects (or crashes) a lower one would have stopped the higher.
THEOREM AcceptanceIsNested == Spec => []LevelsNested
<1>1. IInv /\ LevelsInv => LevelsNested
  <2> SUFFICES ASSUME IInv, LevelsInv, NEW l \in Levels, NEW m \in Levels, Reports(m),
                      Order[l] < Order[m], verdicts[l] # None, ~Reports(l)
               PROVE  FALSE
    BY DEF LevelsNested
  <2>1. l # "FULLY_VERIFIED"
    BY LevelNames DEF Order
  <2>2. Accepts(m)
    BY DEF LevelsInv, Explained
  <2>3. m = "FULLY_VERIFIED" => Attested
    <3>1. verdicts[m].status \in DOMAIN Order
      BY DEF LevelsInv, Explained
    <3>2. m = "FULLY_VERIFIED" => Order[verdicts[m].status] >= Order.FULLY_VERIFIED
      BY DEF IInv, StatusEarned
    <3>3. m = "FULLY_VERIFIED" => Order[verdicts[m].status] >= Order.POLICY_ENFORCED
      BY <3>1, <3>2 DEF Order
    <3> QED
      BY <3>3 DEF IInv, StatusEarned
  <2>4. verdicts[l].kind \in {"none", "rejected", "crashed"}
    BY DEF IInv, TypeOK, Reports
  <2>5. verdicts[l].kind # "none"
    BY DEF LevelsInv, Explained
  <2>6. Refuses(l)
    BY <2>1, <2>4, <2>5 DEF LevelsInv, Explained
  <2> QED
    BY <2>2, <2>3, <2>6, NotBoth
<1> QED
  BY <1>1, InvHolds, LevelsInvHolds, PTL

\* An audit that was asked for and did not succeed is never lost without a warning,
\* unless it had no samples to take: the status does not drop silently.
THEOREM DowngradesAreNoted == Spec => []NoSilentDowngrade
<1>1. LevelsInv => NoSilentDowngrade
  BY DEF LevelsInv
<1> QED
  BY <1>1, LevelsInvHolds, PTL
=============================================================================

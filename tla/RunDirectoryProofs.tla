------------------------- MODULE RunDirectoryProofs -------------------------
(***************************************************************************)
(* Proofs about run directories, for any number of attempts, whatever they *)
(* are invoked with and wherever they stop or overlap.                     *)
(*                                                                         *)
(* A bundle that is accepted passed every check (ChecksHold), and these    *)
(* tie every file of it to the capsule. So it remains to show that every   *)
(* capsule that can be found was sealed by one attempt over what it had in *)
(* memory (Genuine, SealedBy), and that the attempt that ran with no other *)
(* has its own files in the directory as far as it got (OwnFiles).         *)
(***************************************************************************)
EXTENDS RunDirectory, FiniteSetTheorems, SequenceTheorems, TLAPS

(***************************************************************************)
(* The verifier: it returns OK exactly if every check holds.               *)
(***************************************************************************)
Codes == {"OK", "raises", "E011", "E013", "E033", "E036", "E052", "E053", "E054", "E062",
          "E063", "E064", "E065", "E071", "E072", "E073", "E075", "E104", "E106", "E107",
          "E301", "W_POLICY_SELF_REPORTED"}

\* A check that fails has a code that is not OK.
CheckPairs == {p \in BOOLEAN \X Codes : p[1] \/ p[2] # "OK"}
Hold(s) == \A i \in DOMAIN s : s[i][1]

LEMMA CheckPair ==
  ASSUME NEW P \in BOOLEAN, NEW code \in Codes, P \/ code # "OK"
  PROVE  <<P, code>> \in CheckPairs
BY DEF CheckPairs

LEMMA HoldConcat ==
  ASSUME NEW s \in Seq(CheckPairs), NEW t \in Seq(CheckPairs)
  PROVE  /\ s \o t \in Seq(CheckPairs)
         /\ Hold(s \o t) <=> Hold(s) /\ Hold(t)
<1>1. /\ s \o t \in Seq(CheckPairs) /\ Len(s \o t) = Len(s) + Len(t)
      /\ \A i \in 1 .. Len(s) + Len(t) :
            (s \o t)[i] = IF i <= Len(s) THEN s[i] ELSE t[i - Len(s)]
      /\ Len(s) \in Nat /\ Len(t) \in Nat
  BY ConcatProperties, LenProperties
<1>2. DOMAIN s = 1 .. Len(s) /\ DOMAIN t = 1 .. Len(t) /\ DOMAIN (s \o t) = 1 .. Len(s) + Len(t)
  BY <1>1, LenProperties
<1>3. ASSUME Hold(s), Hold(t), NEW i \in DOMAIN (s \o t)
      PROVE  (s \o t)[i][1]
  <2>1. CASE i <= Len(s)
    BY <1>1, <1>2, <1>3, <2>1 DEF Hold
  <2>2. CASE i > Len(s)
    <3>1. i - Len(s) \in DOMAIN t /\ (s \o t)[i] = t[i - Len(s)]
      BY <1>1, <1>2, <1>3, <2>2
    <3> QED
      BY <1>3, <3>1 DEF Hold
  <2> QED
    BY <1>1, <1>2, <2>1, <2>2
<1>4. ASSUME Hold(s \o t), NEW i \in DOMAIN s
      PROVE  s[i][1]
  <2>1. i \in DOMAIN (s \o t) /\ (s \o t)[i] = s[i]
    BY <1>1, <1>2
  <2> QED
    BY <1>4, <2>1 DEF Hold
<1>5. ASSUME Hold(s \o t), NEW i \in DOMAIN t
      PROVE  t[i][1]
  <2>1. i + Len(s) \in DOMAIN (s \o t) /\ (s \o t)[i + Len(s)] = t[i]
    <3>1. /\ i + Len(s) \in 1 .. Len(s) + Len(t) /\ ~(i + Len(s) <= Len(s))
          /\ (i + Len(s)) - Len(s) = i
      BY <1>1, <1>2
    <3> QED
      BY <1>1, <1>2, <3>1
  <2> QED
    BY <1>5, <2>1 DEF Hold
<1> QED
  BY <1>1, <1>3, <1>4, <1>5 DEF Hold

\* The verifier returns OK exactly if no check fails.
LEMMA NoFailure ==
  ASSUME NEW s \in Seq(CheckPairs)
  PROVE  /\ FirstFailure(s) = "OK" <=> Hold(s)
         /\ FirstFailure(s) \in Codes
<1>1. DOMAIN s = 1 .. Len(s) /\ Len(s) \in Nat /\ \A i \in DOMAIN s : s[i] \in CheckPairs
  BY LenProperties
<1>2. CASE Hold(s)
  <2>1. \A i \in DOMAIN s : s[i][1]
    BY <1>2 DEF Hold
  <2>2. FirstFailure(s) = "OK"
    BY <2>1 DEF FirstFailure
  <2>3. "OK" \in Codes
    BY DEF Codes
  <2> QED
    BY <1>2, <2>2, <2>3, Zenon
<1>3. CASE ~Hold(s)
  <2> DEFINE F == {i \in DOMAIN s : ~s[i][1]}
             First(i) == ~s[i][1] /\ \A j \in 1 .. i - 1 : s[j][1]
  <2>1. PICK m \in F : \A n \in F : m <= n
    <3>1. F # {} /\ F \subseteq Nat
      BY <1>1, <1>3 DEF Hold
    <3> HIDE DEF F
    <3>2. PICK m \in F : \A n \in F : <<n, m>> \notin OpToRel(<, Nat)
      BY <3>1, NatLessThanWellFounded, WFMin
    <3>3. \A n \in F : m \in Nat /\ n \in Nat /\ ~ (n < m)
      BY <3>1, <3>2 DEF OpToRel
    <3> QED
      BY <3>3
  <2>2. First(m)
    BY <1>1, <2>1
  <2>3. PICK i \in DOMAIN s : First(i) /\ i = CHOOSE k \in DOMAIN s : First(k)
    BY <2>1, <2>2
  <2>4. FirstFailure(s) = s[i][2]
    BY <1>3, <2>3 DEF FirstFailure, Hold
  <2>5. s[i] \in CheckPairs /\ ~s[i][1]
    BY <1>1, <2>3
  <2> QED
    BY <1>3, <2>4, <2>5 DEF CheckPairs
<1> QED
  BY <1>2, <1>3

LEMMA OneCheck ==
  ASSUME NEW P1 \in BOOLEAN,
         NEW d1 \in Codes,
         P1 \/ d1 # "OK"
  PROVE  /\ << <<P1, d1>> >> \in Seq(CheckPairs)
         /\ Hold(<< <<P1, d1>> >>) <=> P1
<1> DEFINE s == << <<P1, d1>> >>
<1>1. <<P1, d1>> \in CheckPairs
  BY CheckPair
<1>2. s \in Seq(CheckPairs)
  BY <1>1
<1>3. DOMAIN s = 1 .. 1 /\ s[1] = <<P1, d1>>
  OBVIOUS
<1> HIDE DEF s
<1>4. (s[1][1] <=> P1)
  BY <1>3
<1>5. Hold(s) <=> P1
  BY <1>3, <1>4 DEF Hold
<1> QED
  BY <1>2, <1>5 DEF s

LEMMA TwoChecks ==
  ASSUME NEW P1 \in BOOLEAN, NEW P2 \in BOOLEAN,
         NEW d1 \in Codes, NEW d2 \in Codes,
         P1 \/ d1 # "OK", P2 \/ d2 # "OK"
  PROVE  /\ << <<P1, d1>>, <<P2, d2>> >> \in Seq(CheckPairs)
         /\ Hold(<< <<P1, d1>>, <<P2, d2>> >>) <=> P1 /\ P2
<1> DEFINE s == << <<P1, d1>>, <<P2, d2>> >>
<1>1. <<P1, d1>> \in CheckPairs /\ <<P2, d2>> \in CheckPairs
  BY CheckPair
<1>2. s \in Seq(CheckPairs)
  BY <1>1
<1>3. DOMAIN s = 1 .. 2 /\ s[1] = <<P1, d1>> /\ s[2] = <<P2, d2>>
  OBVIOUS
<1> HIDE DEF s
<1>4. (s[1][1] <=> P1) /\ (s[2][1] <=> P2)
  BY <1>3
<1>5. Hold(s) <=> P1 /\ P2
  BY <1>3, <1>4 DEF Hold
<1> QED
  BY <1>2, <1>5 DEF s

LEMMA ThreeChecks ==
  ASSUME NEW P1 \in BOOLEAN, NEW P2 \in BOOLEAN, NEW P3 \in BOOLEAN,
         NEW d1 \in Codes, NEW d2 \in Codes, NEW d3 \in Codes,
         P1 \/ d1 # "OK", P2 \/ d2 # "OK", P3 \/ d3 # "OK"
  PROVE  /\ << <<P1, d1>>, <<P2, d2>>, <<P3, d3>> >> \in Seq(CheckPairs)
         /\ Hold(<< <<P1, d1>>, <<P2, d2>>, <<P3, d3>> >>) <=> P1 /\ P2 /\ P3
<1> DEFINE s == << <<P1, d1>>, <<P2, d2>>, <<P3, d3>> >>
<1>1. <<P1, d1>> \in CheckPairs /\ <<P2, d2>> \in CheckPairs /\ <<P3, d3>> \in CheckPairs
  BY CheckPair
<1>2. s \in Seq(CheckPairs)
  BY <1>1
<1>3. DOMAIN s = 1 .. 3 /\ s[1] = <<P1, d1>> /\ s[2] = <<P2, d2>> /\ s[3] = <<P3, d3>>
  OBVIOUS
<1> HIDE DEF s
<1>4. (s[1][1] <=> P1) /\ (s[2][1] <=> P2) /\ (s[3][1] <=> P3)
  BY <1>3
<1>5. Hold(s) <=> P1 /\ P2 /\ P3
  BY <1>3, <1>4 DEF Hold
<1> QED
  BY <1>2, <1>5 DEF s

LEMMA HashesHold ==
  ASSUME NEW c
  PROVE  /\ HashesAgree(c) \in Seq(CheckPairs)
         /\ Hold(HashesAgree(c)) <=>
              /\ c.payload_hash = PayloadView(c.payload)
              /\ c.capsule_hash = CapsuleHash(CommitHash(c.header), PayloadView(c.payload))
              /\ c.header.payload = PayloadView(c.payload)
              /\ c.header_commit_hash = CommitHash(c.header)
<1> DEFINE P1 == c.payload_hash = PayloadView(c.payload)
           P2 == c.capsule_hash = CapsuleHash(CommitHash(c.header), PayloadView(c.payload))
           P3 == c.header.payload = PayloadView(c.payload)
           P4 == c.header_commit_hash = CommitHash(c.header)
<1>1. HashesAgree(c) = << <<P1, "E011">>, <<P2, "E011">>, <<P3, "E013">>, <<P4, "E013">> >>
  BY DEF HashesAgree
<1>2. P1 \in BOOLEAN /\ P2 \in BOOLEAN /\ P3 \in BOOLEAN /\ P4 \in BOOLEAN
  OBVIOUS
<1> HIDE DEF P1, P2, P3, P4
<1>3. /\ <<P1, "E011">> \in CheckPairs /\ <<P2, "E011">> \in CheckPairs
      /\ <<P3, "E013">> \in CheckPairs /\ <<P4, "E013">> \in CheckPairs
  BY <1>2, CheckPair DEF Codes
<1> DEFINE s == HashesAgree(c)
<1>4. s \in Seq(CheckPairs)
  BY <1>1, <1>3
<1>5. /\ DOMAIN s = 1 .. 4 /\ s[1] = <<P1, "E011">> /\ s[2] = <<P2, "E011">>
      /\ s[3] = <<P3, "E013">> /\ s[4] = <<P4, "E013">>
  BY <1>1
<1> HIDE DEF s
<1>6. (s[1][1] <=> P1) /\ (s[2][1] <=> P2) /\ (s[3][1] <=> P3) /\ (s[4][1] <=> P4)
  BY <1>2, <1>5
<1>7. Hold(s) <=> P1 /\ P2 /\ P3 /\ P4
  BY <1>5, <1>6 DEF Hold
<1> QED
  BY <1>4, <1>7 DEF s, P1, P2, P3, P4

LEMMA HeaderHolds ==
  ASSUME NEW c
  PROVE  /\ HeaderBindsPayload(c) \in Seq(CheckPairs)
         /\ Hold(HeaderBindsPayload(c)) <=>
              /\ c.payload.anchor = c.header.anchor
              /\ c.payload.handles = c.header.handles
              /\ c.header.instance = Instance(c.header.statement, c.header.root)
              /\ c.payload.policy = c.header.policyRef
              /\ SanitizedPolicy(c.payload.da_policy) = c.header.daPolicy
              /\ c.payload.rowRef = c.header.root
<1> DEFINE P1 == c.payload.anchor = c.header.anchor
           P2 == c.payload.handles = c.header.handles
           P3 == c.header.instance = Instance(c.header.statement, c.header.root)
           P4 == c.payload.policy = c.header.policyRef
           P5 == SanitizedPolicy(c.payload.da_policy) = c.header.daPolicy
           P6 == c.payload.rowRef = c.header.root
<1>1. HeaderBindsPayload(c) = << <<P1, "E013">>, <<P2, "E013">>, <<P3, "E301">>,
                                 <<P4, "E013">>, <<P5, "E013">>, <<P6, "E013">> >>
  BY DEF HeaderBindsPayload
<1>2. /\ P1 \in BOOLEAN /\ P2 \in BOOLEAN /\ P3 \in BOOLEAN /\ P4 \in BOOLEAN /\ P5 \in BOOLEAN
      /\ P6 \in BOOLEAN
  OBVIOUS
<1> HIDE DEF P1, P2, P3, P4, P5, P6
<1>3. /\ <<P1, "E013">> \in CheckPairs /\ <<P2, "E013">> \in CheckPairs
      /\ <<P3, "E301">> \in CheckPairs /\ <<P4, "E013">> \in CheckPairs
      /\ <<P5, "E013">> \in CheckPairs /\ <<P6, "E013">> \in CheckPairs
  BY <1>2, CheckPair DEF Codes
<1> DEFINE s == HeaderBindsPayload(c)
<1>4. s \in Seq(CheckPairs)
  BY <1>1, <1>3
<1>5. /\ DOMAIN s = 1 .. 6 /\ s[1] = <<P1, "E013">> /\ s[2] = <<P2, "E013">>
      /\ s[3] = <<P3, "E301">> /\ s[4] = <<P4, "E013">> /\ s[5] = <<P5, "E013">>
      /\ s[6] = <<P6, "E013">>
  BY <1>1
<1> HIDE DEF s
<1>6. /\ (s[1][1] <=> P1) /\ (s[2][1] <=> P2) /\ (s[3][1] <=> P3) /\ (s[4][1] <=> P4)
      /\ (s[5][1] <=> P5) /\ (s[6][1] <=> P6)
  BY <1>2, <1>5
<1>7. Hold(s) <=> P1 /\ P2 /\ P3 /\ P4 /\ P5 /\ P6
  BY <1>5, <1>6 DEF Hold
<1> QED
  BY <1>4, <1>7 DEF s, P1, P2, P3, P4, P5, P6

LEMMA StatementHolds ==
  ASSUME NEW c
  PROVE  /\ StatementBound(c) \in Seq(CheckPairs)
         /\ Hold(StatementBound(c)) <=>
              /\ c.payload.statement = c.header.statement
              /\ c.payload.statement.policy = c.payload.policy
              /\ c.payload.statement.root = c.payload.rowRef
              /\ c.payload.statement.anchor
                       = [ref |-> c.payload.anchor.ref, head |-> c.payload.anchor.head]
<1> DEFINE P1 == c.payload.statement = c.header.statement
           P2 == c.payload.statement.policy = c.payload.policy
           P3 == c.payload.statement.root = c.payload.rowRef
           P4 == c.payload.statement.anchor
                    = [ref |-> c.payload.anchor.ref, head |-> c.payload.anchor.head]
<1>1. StatementBound(c) = << <<P1, "E053">>, <<P2, "E053">>, <<P3, "E053">>, <<P4, "E053">> >>
  BY DEF StatementBound
<1>2. P1 \in BOOLEAN /\ P2 \in BOOLEAN /\ P3 \in BOOLEAN /\ P4 \in BOOLEAN
  OBVIOUS
<1> HIDE DEF P1, P2, P3, P4
<1>3. /\ <<P1, "E053">> \in CheckPairs /\ <<P2, "E053">> \in CheckPairs
      /\ <<P3, "E053">> \in CheckPairs /\ <<P4, "E053">> \in CheckPairs
  BY <1>2, CheckPair DEF Codes
<1> DEFINE s == StatementBound(c)
<1>4. s \in Seq(CheckPairs)
  BY <1>1, <1>3
<1>5. /\ DOMAIN s = 1 .. 4 /\ s[1] = <<P1, "E053">> /\ s[2] = <<P2, "E053">>
      /\ s[3] = <<P3, "E053">> /\ s[4] = <<P4, "E053">>
  BY <1>1
<1> HIDE DEF s
<1>6. (s[1][1] <=> P1) /\ (s[2][1] <=> P2) /\ (s[3][1] <=> P3) /\ (s[4][1] <=> P4)
  BY <1>2, <1>5
<1>7. Hold(s) <=> P1 /\ P2 /\ P3 /\ P4
  BY <1>5, <1>6 DEF Hold
<1> QED
  BY <1>4, <1>7 DEF s, P1, P2, P3, P4

LEMMA PolicyHolds ==
  ASSUME NEW b, NEW c
  PROVE  /\ PolicyChecks(b, c) \in Seq(CheckPairs)
         /\ Hold(PolicyChecks(b, c)) <=>
              /\ b.policy # Absent
              /\ b.policy = c.payload.policy
<1> DEFINE P1 == b.policy # Absent
           P2 == b.policy = c.payload.policy
<1>1. PolicyChecks(b, c) = << <<P1, "E036">>, <<P2, "E033">> >>
  BY DEF PolicyChecks
<1>2. P1 \in BOOLEAN /\ P2 \in BOOLEAN
  OBVIOUS
<1>3. {"E033", "E036"} \subseteq Codes \ {"OK"}
  BY DEF Codes
<1> HIDE DEF P1, P2
<1>4. /\ PolicyChecks(b, c) \in Seq(CheckPairs)
      /\ Hold(PolicyChecks(b, c)) <=> P1 /\ P2
  BY <1>1, <1>2, <1>3, TwoChecks
<1> QED
  BY <1>4 DEF P1, P2

LEMMA ProofFileHolds ==
  ASSUME NEW b, NEW c
  PROVE  /\ ProofFileChecks(b, c) \in Seq(CheckPairs)
         /\ Hold(ProofFileChecks(b, c)) <=>
              /\ b.proof # Absent
              /\ b.proof = c.payload.proof
<1> DEFINE P1 == b.proof # Absent
           P2 == b.proof = c.payload.proof
<1>1. ProofFileChecks(b, c) = << <<P1, "raises">>, <<P2, "E052">> >>
  BY DEF ProofFileChecks
<1>2. P1 \in BOOLEAN /\ P2 \in BOOLEAN
  OBVIOUS
<1>3. {"E052", "raises"} \subseteq Codes \ {"OK"}
  BY DEF Codes
<1> HIDE DEF P1, P2
<1>4. /\ ProofFileChecks(b, c) \in Seq(CheckPairs)
      /\ Hold(ProofFileChecks(b, c)) <=> P1 /\ P2
  BY <1>1, <1>2, <1>3, TwoChecks
<1> QED
  BY <1>4 DEF P1, P2

LEMMA ManifestsHold ==
  ASSUME NEW b, NEW c
  PROVE  /\ ManifestChecks(b, c) \in Seq(CheckPairs)
         /\ Hold(ManifestChecks(b, c)) <=>
              /\ b.manifests # Absent /\ b.manifests = c.payload.anchor.ref
              /\ b.signature # Absent /\ b.signature # Torn
              /\ b.signature = b.manifests
<1> DEFINE P1 == b.manifests # Absent /\ b.manifests = c.payload.anchor.ref
           P2 == b.signature # Absent /\ b.signature # Torn
           P3 == b.signature = b.manifests
<1>1. ManifestChecks(b, c) = << <<P1, "E104">>, <<P2, "E106">>, <<P3, "E107">> >>
  BY DEF ManifestChecks
<1>2. P1 \in BOOLEAN /\ P2 \in BOOLEAN /\ P3 \in BOOLEAN
  OBVIOUS
<1>3. {"E104", "E106", "E107"} \subseteq Codes \ {"OK"}
  BY DEF Codes
<1> HIDE DEF P1, P2, P3
<1>4. /\ ManifestChecks(b, c) \in Seq(CheckPairs)
      /\ Hold(ManifestChecks(b, c)) <=> P1 /\ P2 /\ P3
  BY <1>1, <1>2, <1>3, ThreeChecks
<1> QED
  BY <1>4 DEF P1, P2, P3

LEMMA ArchiveHolds ==
  ASSUME NEW b, NEW c
  PROVE  /\ ArchiveChecks(b, c) \in Seq(CheckPairs)
         /\ Hold(ArchiveChecks(b, c)) <=>
              /\ b.rows # Absent /\ b.roots # Absent
              /\ b.roots = c.payload.digest
              /\ b.roots = c.payload.rowRef
<1> DEFINE P1 == b.rows # Absent /\ b.roots # Absent
           P2 == b.roots = c.payload.digest
           P3 == b.roots = c.payload.rowRef
<1>1. ArchiveChecks(b, c) = << <<P1, "raises">>, <<P2, "E063">>, <<P3, "E064">> >>
  BY DEF ArchiveChecks
<1>2. P1 \in BOOLEAN /\ P2 \in BOOLEAN /\ P3 \in BOOLEAN
  OBVIOUS
<1>3. {"E063", "E064", "raises"} \subseteq Codes \ {"OK"}
  BY DEF Codes
<1> HIDE DEF P1, P2, P3
<1>4. /\ ArchiveChecks(b, c) \in Seq(CheckPairs)
      /\ Hold(ArchiveChecks(b, c)) <=> P1 /\ P2 /\ P3
  BY <1>1, <1>2, <1>3, ThreeChecks
<1> QED
  BY <1>4 DEF P1, P2, P3

LEMMA ChallengeHolds ==
  ASSUME NEW c, NEW full \in BOOLEAN
  PROVE  /\ ChallengeStatus(c, full) \in Codes
         /\ ChallengeStatus(c, full) = "OK" <=>
              /\ c.header.challenge = None \/ c.challenge # None
              /\ c.challenge = None \/ c.header.challenge \in {None, c.challenge}
              /\ c.challenge = None \/ c.challenge.commit = CommitHash(c.header)
              /\ ~full \/ c.challenge = None \/ c.challenge.signer = "relay"
<1> DEFINE P1 == c.header.challenge = None \/ c.challenge # None
           P2 == c.challenge = None \/ c.header.challenge \in {None, c.challenge}
           P3 == c.challenge = None \/ c.challenge.commit = CommitHash(c.header)
           P4 == ~full \/ c.challenge = None \/ c.challenge.signer = "relay"
<1>1. ChallengeStatus(c, full) = FirstFailure(<< <<P1, "E071">>, <<P2, "E072">>,
                                                 <<P3, "E072">>, <<P4, "E073">> >>)
  BY DEF ChallengeStatus
<1>2. P1 \in BOOLEAN /\ P2 \in BOOLEAN /\ P3 \in BOOLEAN /\ P4 \in BOOLEAN
  OBVIOUS
<1> HIDE DEF P1, P2, P3, P4
<1>3. /\ <<P1, "E071">> \in CheckPairs
      /\ <<P2, "E072">> \in CheckPairs
      /\ <<P3, "E072">> \in CheckPairs
      /\ <<P4, "E073">> \in CheckPairs
  BY <1>2, CheckPair DEF Codes
<1> DEFINE s == << <<P1, "E071">>, <<P2, "E072">>, <<P3, "E072">>, <<P4, "E073">> >>
<1>4. s \in Seq(CheckPairs)
  BY <1>3
<1>5. /\ DOMAIN s = 1 .. 4 /\ s[1] = <<P1, "E071">> /\ s[2] = <<P2, "E072">>
      /\ s[3] = <<P3, "E072">> /\ s[4] = <<P4, "E073">>
  OBVIOUS
<1> HIDE DEF s
<1>6. (s[1][1] <=> P1) /\ (s[2][1] <=> P2) /\ (s[3][1] <=> P3) /\ (s[4][1] <=> P4)
  BY <1>2, <1>5
<1>7. Hold(s) <=> P1 /\ P2 /\ P3 /\ P4
  BY <1>5, <1>6 DEF Hold
<1>8. ChallengeStatus(c, full) \in Codes /\ (ChallengeStatus(c, full) = "OK" <=> Hold(s))
  <2>1. ChallengeStatus(c, full) = FirstFailure(s)
    BY <1>1 DEF s
  <2> QED
    BY <1>4, <2>1, NoFailure
<1> QED
  BY <1>7, <1>8 DEF P1, P2, P3, P4

LEMMA AuditHolds ==
  ASSUME NEW c, NEW b
  PROVE  /\ AuditStatus(c, b) \in Codes
         /\ AuditStatus(c, b) = "OK" <=>
              /\ b.audited # Absent
              /\ b.audited = c.payload.handles
              /\ c.challenge # None
              /\ b.audited = b.roots
<1> DEFINE P1 == b.audited # Absent
           P2 == b.audited = c.payload.handles
           P3 == c.challenge # None
           P4 == b.audited = b.roots
<1>1. AuditStatus(c, b) = FirstFailure(<< <<P1, "E062">>, <<P2, "E075">>,
                                          <<P3, "E071">>, <<P4, "E065">> >>)
  BY DEF AuditStatus
<1>2. P1 \in BOOLEAN /\ P2 \in BOOLEAN /\ P3 \in BOOLEAN /\ P4 \in BOOLEAN
  OBVIOUS
<1> HIDE DEF P1, P2, P3, P4
<1>3. /\ <<P1, "E062">> \in CheckPairs
      /\ <<P2, "E075">> \in CheckPairs
      /\ <<P3, "E071">> \in CheckPairs
      /\ <<P4, "E065">> \in CheckPairs
  BY <1>2, CheckPair DEF Codes
<1> DEFINE s == << <<P1, "E062">>, <<P2, "E075">>, <<P3, "E071">>, <<P4, "E065">> >>
<1>4. s \in Seq(CheckPairs)
  BY <1>3
<1>5. /\ DOMAIN s = 1 .. 4 /\ s[1] = <<P1, "E062">> /\ s[2] = <<P2, "E075">>
      /\ s[3] = <<P3, "E071">> /\ s[4] = <<P4, "E065">>
  OBVIOUS
<1> HIDE DEF s
<1>6. (s[1][1] <=> P1) /\ (s[2][1] <=> P2) /\ (s[3][1] <=> P3) /\ (s[4][1] <=> P4)
  BY <1>2, <1>5
<1>7. Hold(s) <=> P1 /\ P2 /\ P3 /\ P4
  BY <1>5, <1>6 DEF Hold
<1>8. AuditStatus(c, b) \in Codes /\ (AuditStatus(c, b) = "OK" <=> Hold(s))
  <2>1. AuditStatus(c, b) = FirstFailure(s)
    BY <1>1 DEF s
  <2> QED
    BY <1>4, <2>1, NoFailure
<1> QED
  BY <1>7, <1>8 DEF P1, P2, P3, P4

\* The verdict is OK exactly if every group of checks holds.
AllHold(b, c, full, attested) ==
  /\ Hold(HashesAgree(c)) /\ Hold(HeaderBindsPayload(c)) /\ Hold(StatementBound(c))
  /\ Hold(PolicyChecks(b, c)) /\ Hold(ProofFileChecks(b, c)) /\ Hold(ManifestChecks(b, c))
  /\ Hold(ArchiveChecks(b, c))
  /\ ChallengeStatus(c, full) = "OK" \/ ~(full \/ ChallengeStatus(c, full) = "E073")
  /\ b.index = c.header.manifest
  /\ ProofVerifies(b.proof, c.header.instance)
  /\ full => AuditStatus(c, b) = "OK" /\ attested

LEMMA ChecksHold ==
  ASSUME NEW b, NEW c, NEW full \in BOOLEAN, NEW attested \in BOOLEAN
  PROVE  FirstFailure(Checks(b, c, full, attested)) = "OK" <=> AllHold(b, c, full, attested)
<1> DEFINE challenge == ChallengeStatus(c, full)
           audit == AuditStatus(c, b)
           A1 == challenge = "OK" \/ ~(full \/ challenge = "E073")
           A2 == b.index = c.header.manifest
           A3 == ProofVerifies(b.proof, c.header.instance)
           A4 == ~full \/ audit = "OK"
           A5 == ~full \/ attested
           s1 == HashesAgree(c)
           s2 == << <<A1, challenge>>, <<A2, "E013">> >>
           s3 == HeaderBindsPayload(c)
           s4 == PolicyChecks(b, c)
           s5 == ProofFileChecks(b, c)
           s6 == StatementBound(c)
           s7 == ManifestChecks(b, c)
           s8 == << <<A3, "E054">> >>
           s9 == ArchiveChecks(b, c)
           s10 == << <<A4, audit>>, <<A5, "W_POLICY_SELF_REPORTED">> >>
<1>1. Checks(b, c, full, attested) = s1 \o s2 \o s3 \o s4 \o s5 \o s6 \o s7 \o s8 \o s9 \o s10
  BY DEF Checks
<1>2. challenge \in Codes /\ audit \in Codes
  BY ChallengeHolds, AuditHolds
<1>3. /\ A1 \in BOOLEAN /\ A2 \in BOOLEAN /\ A3 \in BOOLEAN /\ A4 \in BOOLEAN /\ A5 \in BOOLEAN
      /\ A1 \/ challenge # "OK"
      /\ A4 \/ audit # "OK"
  BY DEF ProofVerifies
<1>4. {"E013", "E054", "W_POLICY_SELF_REPORTED"} \subseteq Codes \ {"OK"}
  BY DEF Codes
<1> HIDE DEF challenge, audit, A1, A2, A3, A4, A5
<1>5. /\ s2 \in Seq(CheckPairs) /\ (Hold(s2) <=> A1 /\ A2)
      /\ s10 \in Seq(CheckPairs) /\ (Hold(s10) <=> A4 /\ A5)
  BY <1>2, <1>3, <1>4, TwoChecks
<1>6. s8 \in Seq(CheckPairs) /\ (Hold(s8) <=> A3)
  BY <1>3, <1>4, OneCheck
<1>7. /\ s1 \in Seq(CheckPairs) /\ s3 \in Seq(CheckPairs) /\ s4 \in Seq(CheckPairs)
      /\ s5 \in Seq(CheckPairs) /\ s6 \in Seq(CheckPairs) /\ s7 \in Seq(CheckPairs)
      /\ s9 \in Seq(CheckPairs)
  BY HashesHold, HeaderHolds, PolicyHolds, ProofFileHolds, StatementHolds, ManifestsHold,
     ArchiveHolds
<1> HIDE DEF s1, s2, s3, s4, s5, s6, s7, s8, s9, s10
<1>8. /\ s1 \o s2 \in Seq(CheckPairs)
      /\ Hold(s1 \o s2) <=> Hold(s1) /\ Hold(s2)
  BY <1>5, <1>7, HoldConcat
<1>9. /\ s1 \o s2 \o s3 \in Seq(CheckPairs)
      /\ Hold(s1 \o s2 \o s3) <=> Hold(s1 \o s2) /\ Hold(s3)
  BY <1>7, <1>8, HoldConcat
<1>10. /\ s1 \o s2 \o s3 \o s4 \in Seq(CheckPairs)
       /\ Hold(s1 \o s2 \o s3 \o s4) <=> Hold(s1 \o s2 \o s3) /\ Hold(s4)
  BY <1>7, <1>9, HoldConcat
<1>11. /\ s1 \o s2 \o s3 \o s4 \o s5 \in Seq(CheckPairs)
       /\ Hold(s1 \o s2 \o s3 \o s4 \o s5) <=> Hold(s1 \o s2 \o s3 \o s4) /\ Hold(s5)
  BY <1>7, <1>10, HoldConcat
<1>12. /\ s1 \o s2 \o s3 \o s4 \o s5 \o s6 \in Seq(CheckPairs)
       /\ Hold(s1 \o s2 \o s3 \o s4 \o s5 \o s6)
            <=> Hold(s1 \o s2 \o s3 \o s4 \o s5) /\ Hold(s6)
  BY <1>7, <1>11, HoldConcat
<1>13. /\ s1 \o s2 \o s3 \o s4 \o s5 \o s6 \o s7 \in Seq(CheckPairs)
       /\ Hold(s1 \o s2 \o s3 \o s4 \o s5 \o s6 \o s7)
            <=> Hold(s1 \o s2 \o s3 \o s4 \o s5 \o s6) /\ Hold(s7)
  BY <1>7, <1>12, HoldConcat
<1>14. /\ s1 \o s2 \o s3 \o s4 \o s5 \o s6 \o s7 \o s8 \in Seq(CheckPairs)
       /\ Hold(s1 \o s2 \o s3 \o s4 \o s5 \o s6 \o s7 \o s8)
            <=> Hold(s1 \o s2 \o s3 \o s4 \o s5 \o s6 \o s7) /\ Hold(s8)
  BY <1>6, <1>13, HoldConcat
<1>15. /\ s1 \o s2 \o s3 \o s4 \o s5 \o s6 \o s7 \o s8 \o s9 \in Seq(CheckPairs)
       /\ Hold(s1 \o s2 \o s3 \o s4 \o s5 \o s6 \o s7 \o s8 \o s9)
            <=> Hold(s1 \o s2 \o s3 \o s4 \o s5 \o s6 \o s7 \o s8) /\ Hold(s9)
  BY <1>7, <1>14, HoldConcat
<1>16. /\ s1 \o s2 \o s3 \o s4 \o s5 \o s6 \o s7 \o s8 \o s9 \o s10 \in Seq(CheckPairs)
       /\ Hold(s1 \o s2 \o s3 \o s4 \o s5 \o s6 \o s7 \o s8 \o s9 \o s10)
            <=> Hold(s1 \o s2 \o s3 \o s4 \o s5 \o s6 \o s7 \o s8 \o s9) /\ Hold(s10)
  BY <1>5, <1>15, HoldConcat
<1>17. FirstFailure(Checks(b, c, full, attested)) = "OK" <=>
          /\ Hold(s1) /\ Hold(s2) /\ Hold(s3) /\ Hold(s4) /\ Hold(s5)
          /\ Hold(s6) /\ Hold(s7) /\ Hold(s8) /\ Hold(s9) /\ Hold(s10)
  <2> DEFINE s == s1 \o s2 \o s3 \o s4 \o s5 \o s6 \o s7 \o s8 \o s9 \o s10
  <2>1. FirstFailure(s) = "OK" <=> Hold(s)
    BY <1>16, NoFailure
  <2> QED
    BY <1>1, <1>8, <1>9, <1>10, <1>11, <1>12, <1>13, <1>14, <1>15, <1>16, <2>1
<1>18. A1 /\ A2 /\ A3 /\ A4 /\ A5 <=>
          /\ ChallengeStatus(c, full) = "OK" \/ ~(full \/ ChallengeStatus(c, full) = "E073")
          /\ b.index = c.header.manifest
          /\ ProofVerifies(b.proof, c.header.instance)
          /\ full => AuditStatus(c, b) = "OK" /\ attested
  BY DEF A1, A2, A3, A4, A5, challenge, audit
<1> QED
  BY <1>5, <1>6, <1>17, <1>18 DEF AllHold, s1, s3, s4, s5, s6, s7, s9

-----------------------------------------------------------------------------
(***************************************************************************)
(* The inductive invariant.                                                *)
(***************************************************************************)
\* The order of the steps. An attempt that was stopped is past every step.
Pos == [new |-> 0, manifests |-> 1, signature |-> 2, policy |-> 3, register |-> 4, start |-> 5,
        clear |-> 6, rows |-> 7, roots |-> 8, digest |-> 9, proof |-> 10, challenge |-> 11,
        capsule |-> 12, index |-> 13, meta |-> 14, done |-> 15, stopped |-> 16]
Past(a, s) == Pos[at[a]] > Pos[s]

Fields  == {"anchor", "policy", "rows", "digest", "proof", "capsule"}
CopyPcs == {"none", "capsule", "index", "proof", "archive", "policy", "manifests", "challenge",
            "done", "failed"}

Kept ==
  /\ DOMAIN dir = Files
  /\ at \in [Attempts -> DOMAIN Pos]
  /\ alive \subseteq {a \in Attempts : at[a] \notin {"new", "stopped", "done"}}
  /\ in \in [Attempts -> Inputs \cup {None}]
  /\ \A a \in Attempts : at[a] # "new" => in[a] \in Inputs
  /\ DOMAIN mem = Attempts
  /\ \A a \in Attempts : DOMAIN mem[a] = Fields /\ mem[a].proof # Torn
  /\ last \in Attempts \cup {None}
  /\ mixed \subseteq Attempts
  /\ steady \in BOOLEAN

\* Attempts that run with no other: the one started last, or none.
Alone ==
  /\ alive \ mixed \subseteq {last}
  /\ last # None /\ last \notin mixed => alive \subseteq {last}

\* Contents a file can have: what an attempt has sealed is found in a file only
\* after that attempt wrote the file.
Genuine(f, x) ==
  CASE f \in {"manifests", "signature"} -> x \in Attempts \cup {Absent, Torn}
    [] f = "policy" -> x \in Policies \cup {Absent, Torn}
    [] f \in {"rows", "roots"} -> x \in Traces \cup {Absent, Torn}
    [] f = "meta" -> x \in [challenge : {Absent, "present"}] \cup {Absent, Torn}
    [] f = "challenge" -> x \in {Absent, "present"}
    [] f = "proof" -> \/ x \in {Absent, Torn}
                      \/ \E a \in Attempts : Past(a, "proof") /\ x = HonestProof(a)
    [] f = "index" -> \/ x \in {Absent, Torn}
                      \/ \E a \in Attempts : Past(a, "index") /\ x = ManifestOf(mem[a].proof)
    [] f = "capsule" -> \/ x \in {Absent, Torn}
                        \/ \E a \in Attempts : Past(a, "capsule") /\ x = mem[a].capsule
    [] OTHER -> FALSE

Written == \A f \in Files : \E x \in {dir[f]} : Genuine(f, x)

Commit(a) == CommitHash(Header(Payload(Held(a)), ManifestOf(mem[a].proof)))

\* The capsule in memory is a seal of what is in memory.
ChallengeOf(a, signer) == Challenge(Commit(a), signer, Stamp(a))
SealedWith(a, challenge) ==
  /\ mem[a].capsule = Seal(Held(a), challenge)
  /\ in[a].da = "relay" => challenge = ChallengeOf(a, "relay")

Running(a, s) == Past(a, s) /\ at[a] # "stopped"

SealedBy(a) ==
  /\ mem[a].capsule # Absent =>
       \/ Past(a, "challenge")
       \/ at[a] = "challenge" /\ a \notin alive
  /\ mem[a].capsule # Absent \/ Running(a, "challenge") =>
       \E challenge \in {None, ChallengeOf(a, "relay"), ChallengeOf(a, "self")} :
          SealedWith(a, challenge)
  /\ a \notin mixed =>
       /\ mem[a].capsule # Absent \/ Running(a, "signature") => mem[a].anchor = Stamp(a)
       /\ mem[a].capsule # Absent \/ Running(a, "start") => mem[a].policy = in[a].policy

Sealing == \A a \in Attempts : SealedBy(a)

\* The files of the attempt started last, if it ran with no other.
OwnFiles(a) ==
  /\ Past(a, "manifests") => dir["manifests"] = Stamp(a)
  /\ Past(a, "signature") /\ in[a].signed => dir["signature"] = Stamp(a)
  /\ Past(a, "policy") => dir["policy"] = in[a].policy
  /\ Past(a, "rows") => dir["rows"] = in[a].trace
  /\ Past(a, "roots") => dir["roots"] = in[a].trace
  /\ Past(a, "digest") => mem[a].digest = in[a].trace
  /\ Past(a, "proof") => mem[a].rows = in[a].trace /\ dir["proof"] = HonestProof(a)
  /\ Past(a, "challenge") => mem[a].proof = HashOf(HonestProof(a))
  /\ Past(a, "capsule") => dir["capsule"] = mem[a].capsule
  /\ Past(a, "index") => dir["index"] = ManifestOf(mem[a].proof)

Own == \A a \in Attempts : a = last /\ a \notin mixed /\ at[a] # "stopped" => OwnFiles(a)

\* The copy: what it has taken, and when it is the same as what is there.
Taken(pc) ==
  CASE pc = "index"     -> {"capsule"}
    [] pc = "proof"     -> {"capsule", "index"}
    [] pc = "archive"   -> {"capsule", "index", "proof"}
    [] pc = "policy"    -> {"capsule", "index", "proof", "rows", "roots"}
    [] pc = "manifests" -> {"capsule", "index", "proof", "rows", "roots", "policy"}
    [] pc = "done"      -> BundleFiles
    [] OTHER            -> {}

Copying ==
  /\ DOMAIN copy = {"kind", "pc", "meta", "files"}
  /\ copy.kind \in Kinds \cup {None} /\ copy.pc \in CopyPcs
  /\ copy.pc # "none" => copy.kind \in Kinds
  /\ copy.files = [f \in BundleFiles |-> copy.files[f]]
  /\ copy.pc = "challenge" => copy.kind # "emit"
  /\ copy.pc = "index" => copy.kind # "pack"
  /\ \E x \in {copy.files["capsule"]} : Genuine("capsule", x)
  /\ steady =>
       /\ alive = {}
       /\ copy.kind = "emit" => \A f \in Taken(copy.pc) : copy.files[f] = dir[f]

IInv == Kept /\ Alone /\ Written /\ Sealing /\ Own /\ Copying
-----------------------------------------------------------------------------
(* What a step of one attempt leaves of the others, and of the past.       *)

LEMMA Distinct == {None, Absent, Torn} \cap (Policies \cup Traces \cup Attempts) = {}
BY SealAssumption, DirectoryAssumption

Frame(a) ==
  /\ \A b \in Attempts \ {a} : at'[b] = at[b] /\ in'[b] = in[b] /\ mem'[b] = mem[b]
  /\ \A s \in DOMAIN Pos : Past(a, s) => Past(a, s)'
  /\ Past(a, "proof") =>
        in'[a] = in[a] /\ mem'[a].anchor = mem[a].anchor /\ mem'[a].policy = mem[a].policy
  /\ Past(a, "capsule") \/ Past(a, "index") => mem'[a] = mem[a]
  /\ mixed \subseteq mixed' /\ alive' \subseteq alive \cup {a}

LEMMA SameMemory ==
  ASSUME NEW b, in'[b] = in[b], mem'[b] = mem[b]
  PROVE  /\ Held(b)' = Held(b) /\ HonestProof(b)' = HonestProof(b)
         /\ \A challenge : SealedWith(b, challenge)' <=> SealedWith(b, challenge)
         /\ \A signer : ChallengeOf(b, signer)' = ChallengeOf(b, signer)
<1>1. Held(b)' = Held(b)
  BY DEF Held
<1>2. HonestProof(b)' = HonestProof(b)
  BY <1>1 DEF HonestProof
<1>3. Commit(b)' = Commit(b)
  BY <1>1 DEF Commit
<1>4. \A signer : ChallengeOf(b, signer)' = ChallengeOf(b, signer)
  BY <1>3 DEF ChallengeOf
<1>5. \A challenge : SealedWith(b, challenge)' <=> SealedWith(b, challenge)
  BY <1>1, <1>4 DEF SealedWith
<1> QED
  BY <1>1, <1>2, <1>4, <1>5

\* The proof is made of the manifests and the policy that were read before.
LEMMA SameProof ==
  ASSUME NEW b, in'[b] = in[b], mem'[b].anchor = mem[b].anchor, mem'[b].policy = mem[b].policy
  PROVE  HonestProof(b)' = HonestProof(b)
<1>1. Statement(Held(b))' = Statement(Held(b))
  BY DEF Statement, Held
<1> QED
  BY <1>1 DEF HonestProof

LEMMA GenuineStays ==
  ASSUME NEW a \in Attempts, Frame(a), NEW f \in Files, NEW x, Genuine(f, x)
  PROVE  Genuine(f, x)'
<1>1. \A b \in Attempts, s \in {"proof", "capsule", "index"} : Past(b, s) => Past(b, s)'
  BY DEF Frame, Past, Pos
<1>2. ASSUME NEW b \in Attempts, Past(b, "proof")
      PROVE  HonestProof(b)' = HonestProof(b)
  BY <1>2, SameProof DEF Frame
<1>3. ASSUME NEW b \in Attempts, Past(b, "index") \/ Past(b, "capsule")
      PROVE  mem'[b] = mem[b]
  BY <1>3 DEF Frame
<1>4. CASE f = "proof"
  BY <1>1, <1>2, <1>4 DEF Genuine
<1>5. CASE f = "index"
  BY <1>1, <1>3, <1>5 DEF Genuine
<1>6. CASE f = "capsule"
  BY <1>1, <1>3, <1>6 DEF Genuine
<1>7. CASE f \notin {"proof", "index", "capsule"}
  BY <1>7 DEF Genuine
<1> QED
  BY <1>4, <1>5, <1>6, <1>7

\* A file is rewritten with something it may hold, or it is left alone.
LEMMA StillWritten ==
  ASSUME Written, NEW a \in Attempts, Frame(a),
         \A f \in Files : dir'[f] = dir[f] \/ \E x \in {dir'[f]} : Genuine(f, x)'
  PROVE  Written'
<1> SUFFICES ASSUME NEW f \in Files
             PROVE  \E x \in {dir'[f]} : Genuine(f, x)'
  BY DEF Written
<1>1. CASE dir'[f] = dir[f]
  BY <1>1, GenuineStays DEF Written
<1> QED
  BY <1>1

LEMMA OthersSealed ==
  ASSUME NEW a \in Attempts, Frame(a), NEW b \in Attempts \ {a}, SealedBy(b)
  PROVE  SealedBy(b)'
<1>1. in'[b] = in[b] /\ mem'[b] = mem[b] /\ at'[b] = at[b]
  BY DEF Frame
<1>2. \A s \in {"challenge", "signature", "start"} :
         (Past(b, s)' <=> Past(b, s)) /\ (Running(b, s)' <=> Running(b, s))
  BY <1>1 DEF Past, Running
<1>3. b \notin alive => b \notin alive'
  BY DEF Frame
<1>4. b \notin mixed' => b \notin mixed
  BY DEF Frame
<1>5. (\E challenge \in {None, ChallengeOf(b, "relay"), ChallengeOf(b, "self")} :
          SealedWith(b, challenge))
      => (\E challenge \in {None, ChallengeOf(b, "relay"), ChallengeOf(b, "self")} :
             SealedWith(b, challenge))'
  BY <1>1, SameMemory
<1> QED
  BY <1>1, <1>2, <1>3, <1>4, <1>5 DEF SealedBy, Stamp

\* No copy sees a change and stays steady.
LEMMA StillCopying ==
  ASSUME Copying, NEW a \in Attempts, Frame(a), UNCHANGED copy, steady' = FALSE
  PROVE  Copying'
<1>1. \E x \in {copy.files["capsule"]} : Genuine("capsule", x)'
  BY GenuineStays DEF Copying, Files, BundleFiles
<1> QED
  BY <1>1 DEF Copying

-----------------------------------------------------------------------------
(* A step of an attempt that goes on.                                      *)

LEMMA Positions ==
  /\ \A s \in DOMAIN Pos : Pos[s] \in 0 .. 16
  /\ \A s \in DOMAIN Pos : Pos[s] <= 0 => s = "new"
  /\ \A s \in DOMAIN Pos : Pos[s] >= 16 => s = "stopped"
BY DEF Pos

LEMMA StepOrder ==
  /\ DOMAIN Steps = 1 .. 15
  /\ \A k \in 1 .. 15 : Pos[Steps[k]] = k
<1>1. DOMAIN Steps = 1 .. 15
  BY DEF Steps
<1>2. /\ Pos[Steps[1]] = 1 /\ Pos[Steps[2]] = 2 /\ Pos[Steps[3]] = 3 /\ Pos[Steps[4]] = 4
      /\ Pos[Steps[5]] = 5 /\ Pos[Steps[6]] = 6 /\ Pos[Steps[7]] = 7 /\ Pos[Steps[8]] = 8
      /\ Pos[Steps[9]] = 9 /\ Pos[Steps[10]] = 10 /\ Pos[Steps[11]] = 11
      /\ Pos[Steps[12]] = 12 /\ Pos[Steps[13]] = 13 /\ Pos[Steps[14]] = 14
      /\ Pos[Steps[15]] = 15
  BY DEF Steps, Pos
<1> QED
  BY <1>1, <1>2

LEMMA Successor ==
  ASSUME NEW k \in 1 .. 14
  PROVE  After(Steps[k]) = Steps[k + 1]
<1>1. \A i \in DOMAIN Steps : Steps[i] = Steps[k] => i = k
  <2>1. SUFFICES ASSUME NEW i \in DOMAIN Steps, Steps[i] = Steps[k]
                 PROVE  i = k
    OBVIOUS
  <2>2. Pos[Steps[i]] = i /\ Pos[Steps[k]] = k
    BY StepOrder
  <2> QED
    BY <2>1, <2>2
<1>2. k \in DOMAIN Steps
  BY StepOrder
<1>3. (CHOOSE i \in DOMAIN Steps : Steps[i] = Steps[k]) = k
  BY <1>1, <1>2
<1>4. After(Steps[k]) = Steps[1 + CHOOSE i \in DOMAIN Steps : Steps[i] = Steps[k]]
  BY DEF After
<1>5. After(Steps[k]) = Steps[1 + k]
  BY ONLY <1>3, <1>4
<1>6. 1 + k = k + 1
  OBVIOUS
<1> QED
  BY <1>5, <1>6

LEMMA Successors ==
  /\ After("manifests") = "signature" /\ After("signature") = "policy"
  /\ After("policy") = "register" /\ After("register") = "start" /\ After("start") = "clear"
  /\ After("clear") = "rows" /\ After("rows") = "roots" /\ After("roots") = "digest"
  /\ After("digest") = "proof" /\ After("proof") = "challenge"
  /\ After("challenge") = "capsule" /\ After("capsule") = "index" /\ After("index") = "meta"
  /\ After("meta") = "done"
<1>1. \A k \in 1 .. 14 : After(Steps[k]) = Steps[k + 1]
  BY Successor
<1>2. /\ After(Steps[1]) = Steps[2] /\ After(Steps[2]) = Steps[3] /\ After(Steps[3]) = Steps[4]
      /\ After(Steps[4]) = Steps[5] /\ After(Steps[5]) = Steps[6] /\ After(Steps[6]) = Steps[7]
      /\ After(Steps[7]) = Steps[8] /\ After(Steps[8]) = Steps[9] /\ After(Steps[9]) = Steps[10]
      /\ After(Steps[10]) = Steps[11] /\ After(Steps[11]) = Steps[12]
      /\ After(Steps[12]) = Steps[13] /\ After(Steps[13]) = Steps[14]
      /\ After(Steps[14]) = Steps[15]
  BY <1>1
<1>3. /\ Steps[1] = "manifests" /\ Steps[2] = "signature" /\ Steps[3] = "policy"
      /\ Steps[4] = "register" /\ Steps[5] = "start" /\ Steps[6] = "clear" /\ Steps[7] = "rows"
      /\ Steps[8] = "roots" /\ Steps[9] = "digest" /\ Steps[10] = "proof"
      /\ Steps[11] = "challenge" /\ Steps[12] = "capsule" /\ Steps[13] = "index"
      /\ Steps[14] = "meta" /\ Steps[15] = "done"
  BY DEF Steps
<1> QED
  BY <1>2, <1>3

\* An attempt that runs with no other is the last, and sees its own files only.
LEMMA RunsAlone ==
  ASSUME IInv, NEW a \in Attempts, a \in alive, a \notin mixed
  PROVE  /\ alive = {a} /\ last = a /\ OwnFiles(a)
         /\ \A f \in Files : f # at[a] /\ (f \in {"rows", "roots"} => at[a] # "clear")
                                => Seen(f) = {dir[f]}
         /\ \A f : at[a] = f => \A content : Left(a, f, content) = {content}
<1>1. last = a
  BY DEF IInv, Alone
<1>2. a # None
  BY Distinct
<1>3. alive = {a}
  BY <1>1, <1>2 DEF IInv, Alone
<1>4. at[a] # "stopped"
  BY DEF IInv, Kept
<1>5. OwnFiles(a)
  BY <1>1, <1>4 DEF IInv, Own
<1>6. ASSUME NEW f, f # at[a], f \in {"rows", "roots"} => at[a] # "clear"
      PROVE  Seen(f) = {dir[f]}
  BY <1>3, <1>6 DEF Seen, Changing, Writing
<1>7. ASSUME NEW f, at[a] = f, NEW content
      PROVE  Left(a, f, content) = {content}
  BY <1>3, <1>7 DEF Left, Writing
<1> QED
  BY <1>1, <1>3, <1>5, <1>6, <1>7

Advances(a, s, t) ==
  /\ a \in alive /\ at[a] = s /\ at' = [at EXCEPT ![a] = t]
  /\ in' = in /\ last' = last /\ mixed' = mixed /\ copy' = copy /\ steady' = FALSE
  /\ alive' = IF t = "done" THEN alive \ {a} ELSE alive
  /\ DOMAIN dir' = Files /\ DOMAIN mem' = Attempts /\ DOMAIN mem'[a] = Fields
  /\ \A b \in Attempts \ {a} : mem'[b] = mem[b]
  /\ mem'[a].proof # Torn

\* What the memory of the attempt may change at step s.
Remembers(a, s) ==
  /\ s # "signature" => mem'[a].anchor = mem[a].anchor
  /\ s # "start" => mem'[a].policy = mem[a].policy
  /\ s # "proof" => mem'[a].rows = mem[a].rows
  /\ s # "digest" => mem'[a].digest = mem[a].digest
  /\ s # "challenge" => mem'[a].capsule = mem[a].capsule /\ mem'[a].proof = mem[a].proof
  /\ s \in {"capsule", "index", "meta"} => mem'[a] = mem[a]

LEMMA AdvanceFrames ==
  ASSUME IInv, NEW a \in Attempts, NEW s \in DOMAIN Pos, NEW t \in DOMAIN Pos,
         Pos[t] = Pos[s] + 1, Advances(a, s, t), Remembers(a, s)
  PROVE  Frame(a)
<1>1. at'[a] = t /\ \A b \in Attempts \ {a} : at'[b] = at[b]
  BY DEF Advances, IInv, Kept
<1>2. \A u \in DOMAIN Pos : Past(a, u) => Past(a, u)'
  BY <1>1, Positions DEF Past, Advances
<1>3. Past(a, "proof") => s \notin {"signature", "start"}
  BY DEF Past, Pos, Advances
<1>4. Past(a, "capsule") \/ Past(a, "index")
        => s \in {"capsule", "index", "meta", "done", "stopped"}
  BY Positions DEF Past, Pos, Advances
<1>5. s \notin {"done", "stopped"}
  BY DEF Advances, IInv, Kept
<1>6. mixed \subseteq mixed' /\ alive' \subseteq alive \cup {a}
  BY DEF Advances
<1>7. in' = in /\ \A b \in Attempts \ {a} : mem'[b] = mem[b]
  BY DEF Advances
<1> QED
  BY <1>1, <1>2, <1>3, <1>4, <1>5, <1>6, <1>7 DEF Frame, Remembers

\* What an attempt that runs with no other does at step s.
Owns(a, s) ==
  /\ \A f \in Files \ {s} : Past(a, f) => dir'[f] = dir[f]
  /\ s = "manifests" => dir'["manifests"] = Stamp(a)
  /\ s = "signature" => /\ mem'[a].anchor = Stamp(a)
                        /\ in[a].signed => dir'["signature"] = Stamp(a)
  /\ s = "policy" => dir'["policy"] = in[a].policy
  /\ s = "start" => mem'[a].policy = in[a].policy
  /\ s = "rows" => dir'["rows"] = in[a].trace
  /\ s = "roots" => dir'["roots"] = in[a].trace
  /\ s = "digest" => mem'[a].digest = in[a].trace
  /\ s = "proof" => mem'[a].rows = in[a].trace /\ dir'["proof"] = HonestProof(a)
  /\ s = "challenge" => mem'[a].proof = HashOf(HonestProof(a))
  /\ s = "capsule" => dir'["capsule"] = mem[a].capsule
  /\ s = "index" => dir'["index"] = ManifestOf(mem[a].proof)

LEMMA Passing ==
  ASSUME NEW a, NEW s \in DOMAIN Pos, NEW t \in DOMAIN Pos, Pos[t] = Pos[s] + 1,
         at[a] = s, at'[a] = t
  PROVE  \A u \in DOMAIN Pos : Past(a, u)' <=> Past(a, u) \/ u = s
<1>1. \A u \in DOMAIN Pos : Pos[u] = Pos[s] <=> u = s
  BY DEF Pos
<1>2. ASSUME NEW u \in DOMAIN Pos
      PROVE  Past(a, u)' <=> Past(a, u) \/ u = s
  <2>1. /\ Past(a, u)' <=> Pos[s] + 1 > Pos[u]
        /\ Past(a, u) <=> Pos[s] > Pos[u]
    BY DEF Past
  <2>2. Pos[s] \in 0 .. 16 /\ Pos[u] \in 0 .. 16
    BY Positions
  <2> QED
    BY <1>1, <2>1, <2>2
<1> QED
  BY <1>2

LEMMA OwnFilesGrow ==
  ASSUME IInv, NEW a \in Attempts, NEW s \in DOMAIN Pos, NEW t \in DOMAIN Pos,
         Pos[t] = Pos[s] + 1, Advances(a, s, t), Remembers(a, s), a \notin mixed, Owns(a, s)
  PROVE  OwnFiles(a)'
<1>1. at[a] = s /\ at'[a] = t /\ in'[a] = in[a]
  BY DEF Advances, IInv, Kept
<1>2. \A u \in DOMAIN Pos : Past(a, u)' <=> Past(a, u) \/ u = s
  BY <1>1, Passing
<1>3. OwnFiles(a)
  BY RunsAlone DEF Advances
<1>4. s = "proof" \/ Past(a, "proof") => HonestProof(a)' = HonestProof(a)
  <2>1. Past(a, "proof") => s \notin {"signature", "start"}
    BY <1>1 DEF Past, Pos
  <2> QED
    BY <1>1, <2>1, SameProof DEF Remembers
<1>5. Past(a, "challenge") => Past(a, "proof") /\ s # "challenge"
  BY <1>1, Positions DEF Past, Pos
<1>6. ASSUME NEW f \in Files \ {s}, Past(a, f)'
      PROVE  Past(a, f) /\ dir'[f] = dir[f]
  <2>1. f \in DOMAIN Pos
    BY DEF Files, BundleFiles, Pos
  <2> QED
    BY <1>2, <1>6, <2>1 DEF Owns
<1>7. {"manifests", "signature", "policy", "rows", "roots", "digest", "proof", "challenge",
       "capsule", "index"} \subseteq DOMAIN Pos
  BY DEF Pos
<1>8. {"manifests", "signature", "policy", "rows", "roots", "proof", "capsule", "index"}
        \subseteq Files
  BY DEF Files, BundleFiles
<1>9. Past(a, "manifests")' => dir'["manifests"] = Stamp(a)
  BY <1>3, <1>6, <1>8 DEF Owns, OwnFiles
<1>10. Past(a, "signature")' /\ in'[a].signed => dir'["signature"] = Stamp(a)
  <2>1. in'[a].signed <=> in[a].signed
    BY <1>1, Zenon
  <2>2. CASE s = "signature"
    BY <2>1, <2>2 DEF Owns
  <2>3. CASE s # "signature"
    BY <1>3, <1>6, <1>8, <2>1, <2>3 DEF OwnFiles
  <2> QED
    BY <2>2, <2>3
<1>11. Past(a, "policy")' => dir'["policy"] = in'[a].policy
  BY <1>1, <1>3, <1>6, <1>8 DEF Owns, OwnFiles
<1>12. Past(a, "rows")' => dir'["rows"] = in'[a].trace
  BY <1>1, <1>3, <1>6, <1>8 DEF Owns, OwnFiles
<1>13. Past(a, "roots")' => dir'["roots"] = in'[a].trace
  BY <1>1, <1>3, <1>6, <1>8 DEF Owns, OwnFiles
<1>14. Past(a, "digest")' => mem'[a].digest = in'[a].trace
  BY <1>1, <1>2, <1>3, <1>7 DEF Owns, OwnFiles, Remembers
<1>15. Past(a, "proof")' => mem'[a].rows = in'[a].trace /\ dir'["proof"] = HonestProof(a)'
  <2>1. CASE s = "proof"
    BY <1>1, <1>4, <2>1 DEF Owns
  <2>2. CASE s # "proof"
    BY <1>1, <1>2, <1>3, <1>4, <1>6, <1>7, <1>8, <2>2 DEF OwnFiles, Remembers
  <2> QED
    BY <2>1, <2>2
<1>16. Past(a, "challenge")' => mem'[a].proof = HashOf(HonestProof(a)')
  <2>1. CASE s = "challenge"
    <3>1. Past(a, "proof")
      BY <1>1, <2>1 DEF Past, Pos
    <3> QED
      BY <1>4, <2>1, <3>1 DEF Owns
  <2>2. CASE s # "challenge"
    BY <1>2, <1>3, <1>4, <1>5, <1>7, <2>2 DEF OwnFiles, Remembers
  <2> QED
    BY <2>1, <2>2
<1>17. Past(a, "capsule")' => dir'["capsule"] = mem'[a].capsule
  <2>1. Past(a, "capsule")' => s # "challenge"
    BY <1>1, <1>2, <1>7 DEF Past, Pos
  <2> QED
    BY <1>3, <1>6, <1>8, <2>1 DEF Owns, OwnFiles, Remembers
<1>18. Past(a, "index")' => dir'["index"] = ManifestOf(mem'[a].proof)
  <2>1. Past(a, "index")' => s # "challenge"
    BY <1>1, <1>2, <1>7 DEF Past, Pos
  <2> QED
    BY <1>3, <1>6, <1>8, <2>1 DEF Owns, OwnFiles, Remembers
<1> QED
  BY <1>9, <1>10, <1>11, <1>12, <1>13, <1>14, <1>15, <1>16, <1>17, <1>18
     DEF OwnFiles, HashOf, Stamp

LEMMA Advance ==
  ASSUME IInv, NEW a \in Attempts, NEW s \in DOMAIN Pos, NEW t \in DOMAIN Pos \ {"stopped"},
         Pos[t] = Pos[s] + 1, Advances(a, s, t), Remembers(a, s),
         \A f \in Files : dir'[f] = dir[f] \/ \E x \in {dir'[f]} : Genuine(f, x)',
         s = "challenge" =>
           (\E challenge \in {None, ChallengeOf(a, "relay"), ChallengeOf(a, "self")} :
              SealedWith(a, challenge))',
         a \notin mixed => Owns(a, s)
  PROVE  IInv'
<1>1. Frame(a)
  BY AdvanceFrames
<1>2. Written'
  BY <1>1, StillWritten DEF IInv
<1>3. Copying'
  BY <1>1, StillCopying DEF IInv, Advances
<1>4. at'[a] = t /\ \A b \in Attempts \ {a} : at'[b] = at[b]
  BY DEF Advances, IInv, Kept
<1>5. /\ s \notin {"new", "done", "stopped"} /\ t \notin {"new", "stopped"}
      /\ alive' \subseteq alive
  <2>1. s \notin {"new", "done", "stopped"} /\ alive' \subseteq alive
    BY DEF Advances, IInv, Kept
  <2>2. Pos[t] # 0
    BY Positions
  <2> QED
    BY <2>1, <2>2 DEF Pos
<1>6. Kept'
  <2>1. at' \in [Attempts -> DOMAIN Pos]
    BY DEF Advances, IInv, Kept
  <2>2. alive' \subseteq {b \in Attempts : at'[b] \notin {"new", "stopped", "done"}}
    BY <1>4, <1>5 DEF Advances, IInv, Kept
  <2>3. \A b \in Attempts : at'[b] # "new" => in'[b] \in Inputs
    BY <1>4, <1>5 DEF Advances, IInv, Kept
  <2>4. \A b \in Attempts : DOMAIN mem'[b] = Fields /\ mem'[b].proof # Torn
    BY DEF Advances, IInv, Kept
  <2> QED
    BY <2>1, <2>2, <2>3, <2>4 DEF Advances, IInv, Kept
<1>7. Alone'
  BY <1>5 DEF Advances, IInv, Alone
<1>8. SealedBy(a)'
  <2>1. s \in {"capsule", "index", "meta"} <=> Past(a, "challenge")
    BY <1>5, Positions DEF Past, Pos, Advances
  <2>2. Past(a, "challenge") => Past(a, "challenge")'
    BY <1>1 DEF Frame, Pos
  <2>3. Past(a, "challenge")' => s = "challenge" \/ Past(a, "challenge")
    BY <1>4, <1>5, <2>1, Positions DEF Past, Pos
  <2>4. s = "challenge" => Past(a, "challenge")'
    BY <1>4 DEF Past, Pos
  <2>5. mem[a].capsule # Absent => Past(a, "challenge")
    BY DEF IInv, Sealing, SealedBy, Advances
  <2>6. mem'[a].capsule # Absent => Past(a, "challenge")'
    BY <2>2, <2>4, <2>5 DEF Remembers
  <2>7. ASSUME Past(a, "challenge")
        PROVE  (\E challenge \in {None, ChallengeOf(a, "relay"), ChallengeOf(a, "self")} :
                  SealedWith(a, challenge))'
    <3>1. mem'[a] = mem[a] /\ in'[a] = in[a]
      BY <2>1, <2>7 DEF Remembers, Advances
    <3>2. \E challenge \in {None, ChallengeOf(a, "relay"), ChallengeOf(a, "self")} :
            SealedWith(a, challenge)
      BY <1>5, <2>7 DEF IInv, Sealing, SealedBy, Running, Advances
    <3> QED
      BY <3>1, <3>2, SameMemory
  <2>8. (\E challenge \in {None, ChallengeOf(a, "relay"), ChallengeOf(a, "self")} :
           SealedWith(a, challenge))' \/ ~Past(a, "challenge")'
    BY <2>3, <2>7
  <2>9. ASSUME a \notin mixed
        PROVE  /\ Past(a, "signature")' => mem'[a].anchor = Stamp(a)
               /\ Past(a, "start")' => mem'[a].policy = in'[a].policy
    <3>1. Past(a, "signature")' => s = "signature" \/ Running(a, "signature")
      BY <1>4, <1>5, Positions DEF Past, Pos, Running, Advances
    <3>2. Past(a, "start")' => s = "start" \/ Running(a, "start")
      BY <1>4, <1>5, Positions DEF Past, Pos, Running, Advances
    <3>3. /\ Running(a, "signature") => mem[a].anchor = Stamp(a) /\ s # "signature"
          /\ Running(a, "start") => mem[a].policy = in[a].policy /\ s # "start"
      BY <2>9 DEF IInv, Sealing, SealedBy, Running, Past, Advances, Pos
    <3>4. Owns(a, s)
      BY <2>9
    <3>5. Past(a, "signature")' => mem'[a].anchor = Stamp(a)
      BY <3>1, <3>3, <3>4 DEF Remembers, Owns
    <3>6. Past(a, "start")' => mem'[a].policy = in'[a].policy
      BY <3>2, <3>3, <3>4 DEF Remembers, Advances, Owns
    <3> QED
      BY <3>5, <3>6
  <2>10. Past(a, "challenge")' => Past(a, "signature")' /\ Past(a, "start")'
    BY <1>4, <1>5, Positions DEF Past, Pos
  <2>11. mixed' = mixed
    BY DEF Advances
  <2> QED
    BY <2>6, <2>8, <2>9, <2>10, <2>11 DEF SealedBy, Running, Stamp
<1>9. Sealing'
  BY <1>1, <1>8, OthersSealed DEF IInv, Sealing
<1>10. Own'
  <2>1. SUFFICES ASSUME NEW b \in Attempts, b = last', b \notin mixed'
                 PROVE  OwnFiles(b)'
    BY DEF Own
  <2>2. last = b /\ b \notin mixed /\ b # None
    BY <2>1, Distinct DEF Advances
  <2>3. alive \subseteq {b}
    BY <2>2 DEF IInv, Alone
  <2>4. b = a
    BY <2>3 DEF Advances
  <2> QED
    BY <2>2, <2>4, OwnFilesGrow
<1> QED
  BY <1>2, <1>3, <1>6, <1>7, <1>9, <1>10 DEF IInv


-----------------------------------------------------------------------------
(* The steps of an attempt, one by one.                                    *)

LEMMA Arguments ==
  ASSUME IInv, NEW a \in Attempts, a \in alive
  PROVE  /\ in[a] \in Inputs
         /\ in[a].policy \in Policies /\ in[a].trace \in Traces
         /\ in[a].da \in {"none", "insecure", "relay", "file"}
<1>1. in[a] \in Inputs
  BY DEF IInv, Kept
<1> QED
  BY <1>1, DirectoryAssumption

\* What a write leaves: the file, whole or cut short, and the attempt at its next step.
Wrote(a, f, t, content) ==
  /\ at' = [at EXCEPT ![a] = t] /\ DOMAIN dir' = Files
  /\ \A g \in Files \ {f} : dir'[g] = dir[g]
  /\ dir'[f] \in {content, Torn} /\ (a \notin mixed => dir'[f] = content)

LEMMA WriteLeaves ==
  ASSUME IInv, NEW a \in Attempts, a \in alive, NEW f \in Files, at[a] = f,
         NEW content, Write(a, f, content)
  PROVE  Wrote(a, f, After(f), content) /\ at'[a] = After(f)
<1>1. PICK left \in Left(a, f, content) : dir' = [dir EXCEPT ![f] = left]
  BY DEF Write
<1>2. left \in {content, Torn}
  BY DEF Left
<1>3. a \notin mixed => left = content
  BY RunsAlone
<1>4. at' = [at EXCEPT ![a] = After(at[a])]
  BY DEF Write, Continue
<1> QED
  BY <1>1, <1>2, <1>3, <1>4 DEF IInv, Kept, Wrote

LEMMA KeepLeaves ==
  ASSUME IInv, NEW a \in Attempts, NEW field \in Fields, NEW value, Keep(a, field, value),
         field = "proof" => value # Torn
  PROVE  /\ DOMAIN mem' = Attempts /\ DOMAIN mem'[a] = Fields
         /\ \A b \in Attempts \ {a} : mem'[b] = mem[b]
         /\ mem'[a] = [mem[a] EXCEPT ![field] = value]
         /\ mem'[a].proof # Torn
         /\ field = "anchor" => mem'[a].anchor = value
         /\ field = "policy" => mem'[a].policy = value
         /\ field = "digest" => mem'[a].digest = value
         /\ field = "rows" => mem'[a].rows = value
         /\ field # "anchor" => mem'[a].anchor = mem[a].anchor
         /\ field # "policy" => mem'[a].policy = mem[a].policy
         /\ field # "rows" => mem'[a].rows = mem[a].rows
         /\ field # "digest" => mem'[a].digest = mem[a].digest
         /\ field # "proof" => mem'[a].proof = mem[a].proof
         /\ field # "capsule" => mem'[a].capsule = mem[a].capsule
<1>1. DOMAIN mem = Attempts /\ DOMAIN mem[a] = Fields /\ mem[a].proof # Torn
  BY DEF IInv, Kept
<1>2. mem' = [mem EXCEPT ![a][field] = value]
  BY DEF Keep
<1>3. /\ DOMAIN mem' = Attempts
      /\ mem'[a] = [mem[a] EXCEPT ![field] = value]
      /\ \A b \in Attempts \ {a} : mem'[b] = mem[b]
  BY <1>1, <1>2
<1>4. DOMAIN mem'[a] = Fields
  BY <1>1, <1>3
<1>5. \A g \in Fields : mem'[a][g] = IF g = field THEN value ELSE mem[a][g]
  BY <1>1, <1>3
<1>6. {"anchor", "policy", "rows", "digest", "proof", "capsule"} \subseteq Fields
  BY DEF Fields
<1> QED
  BY <1>1, <1>3, <1>4, <1>5, <1>6

\* A step that leaves the memory of the attempt alone.
LEMMA SameMind ==
  ASSUME IInv, NEW a \in Attempts, NEW s, mem' = mem
  PROVE  /\ DOMAIN mem' = Attempts /\ DOMAIN mem'[a] = Fields /\ mem'[a].proof # Torn
         /\ \A b \in Attempts \ {a} : mem'[b] = mem[b]
         /\ Remembers(a, s)
BY DEF IInv, Kept, Remembers

\* What is found in a file, or in one that is being changed.
LEMMA SeenGenuine ==
  ASSUME IInv, NEW f \in {"manifests", "signature", "policy", "rows", "roots", "proof"}
  PROVE  \A x \in Seen(f) : Genuine(f, x)
<1>1. f \in Files /\ \E x \in {dir[f]} : Genuine(f, x)
  BY DEF Files, BundleFiles, IInv, Written
<1>2. Seen(f) \subseteq {dir[f], Torn}
  BY DEF Seen
<1>3. Genuine(f, Torn)
  BY DEF Genuine
<1> QED
  BY <1>1, <1>2, <1>3

Going(a) ==
  /\ a \in alive /\ UNCHANGED <<alive, in, last, mixed, copy>> /\ steady' = FALSE

LEMMA CollectManifestsStep ==
  ASSUME IInv, NEW a \in Attempts, Going(a), CollectManifests(a)
  PROVE  IInv'
<1> DEFINE s == "manifests"  t == "signature"
<1>1. s \in DOMAIN Pos /\ t \in DOMAIN Pos \ {"stopped"} /\ Pos[t] = Pos[s] + 1 /\ s \in Files
  BY DEF Pos, Files, BundleFiles
<1>2. at[a] = s /\ Write(a, s, Stamp(a)) /\ mem' = mem
  BY DEF CollectManifests
<1>3. /\ at' = [at EXCEPT ![a] = t] /\ DOMAIN dir' = Files
      /\ \A g \in Files \ {s} : dir'[g] = dir[g]
      /\ dir'[s] \in {Stamp(a), Torn} /\ (a \notin mixed => dir'[s] = Stamp(a))
  <2>1. Wrote(a, s, After(s), Stamp(a))
    BY <1>1, <1>2, WriteLeaves DEF Going
  <2> QED BY <2>1, Successors DEF Wrote
<1>4. Advances(a, s, t)
  BY <1>2, <1>3, SameMind DEF Advances, Going
<1>5. Remembers(a, s)
  BY <1>2, SameMind
<1>6. \A f \in Files : dir'[f] = dir[f] \/ \E x \in {dir'[f]} : Genuine(f, x)'
  BY <1>3 DEF Genuine, Stamp
<1>7. a \notin mixed => Owns(a, s)
  BY <1>3 DEF Owns
<1> QED
  BY <1>1, <1>4, <1>5, <1>6, <1>7, Advance

LEMMA SignManifestsStep ==
  ASSUME IInv, NEW a \in Attempts, Going(a), SignManifests(a)
  PROVE  IInv'
<1> DEFINE s == "signature"  t == "policy"
<1>1. s \in DOMAIN Pos /\ t \in DOMAIN Pos \ {"stopped"} /\ Pos[t] = Pos[s] + 1 /\ s \in Files
  BY DEF Pos, Files, BundleFiles
<1>2. PICK anchor \in Seen("manifests") :
        /\ Keep(a, "anchor", HashOf(anchor))
        /\ IF in[a].signed THEN Write(a, s, HashOf(anchor)) ELSE Continue(a) /\ UNCHANGED dir
  BY DEF SignManifests
<1>3. at[a] = s /\ DOMAIN dir = Files
  BY DEF SignManifests, IInv, Kept
<1>4. /\ at' = [at EXCEPT ![a] = t] /\ DOMAIN dir' = Files
      /\ \A g \in Files \ {s} : dir'[g] = dir[g]
      /\ dir'[s] = dir[s] \/ dir'[s] \in {HashOf(anchor), Torn}
      /\ a \notin mixed /\ in[a].signed => dir'[s] = HashOf(anchor)
  <2>1. CASE in[a].signed
    <3>1. Write(a, s, HashOf(anchor))
      BY <1>2, <2>1
    <3>2. /\ at' = [at EXCEPT ![a] = After(at[a])] /\ DOMAIN dir' = Files
          /\ \A g \in Files \ {s} : dir'[g] = dir[g]
          /\ dir'[s] \in {HashOf(anchor), Torn}
          /\ a \notin mixed => dir'[s] = HashOf(anchor)
      <4>1. Wrote(a, s, After(s), HashOf(anchor))
        BY <1>1, <1>3, <3>1, WriteLeaves DEF Going
      <4> QED BY <1>3, <4>1 DEF Wrote
    <3> QED
      BY <1>3, <3>2, Successors
  <2>2. CASE ~in[a].signed
    BY <1>2, <1>3, <2>2, Successors DEF Continue
  <2> QED
    BY <2>1, <2>2
<1>5. /\ DOMAIN mem' = Attempts /\ DOMAIN mem'[a] = Fields /\ mem'[a].proof # Torn
      /\ \A b \in Attempts \ {a} : mem'[b] = mem[b]
      /\ mem'[a].anchor = HashOf(anchor) /\ Remembers(a, s)
  BY <1>2, KeepLeaves DEF Remembers, Fields
<1>6. Advances(a, s, t)
  BY <1>3, <1>4, <1>5 DEF Advances, Going
<1>7. HashOf(anchor) \in Attempts \cup {Absent, Torn}
  <2>1. Genuine("manifests", anchor)
    BY <1>2, SeenGenuine
  <2> QED
    BY <2>1 DEF Genuine, HashOf
<1>8. \A f \in Files : dir'[f] = dir[f] \/ \E x \in {dir'[f]} : Genuine(f, x)'
  BY <1>4, <1>7 DEF Genuine
<1>9. ASSUME a \notin mixed
      PROVE  Owns(a, s)
  <2>1. Seen("manifests") = {dir["manifests"]} /\ OwnFiles(a)
    BY <1>3, <1>9, RunsAlone DEF Going, Files, BundleFiles
  <2>2. Past(a, "manifests")
    BY <1>3 DEF Past, Pos
  <2>3. anchor = a
    BY <1>2, <2>1, <2>2 DEF OwnFiles, Stamp
  <2>4. HashOf(anchor) = Stamp(a)
    BY <2>3, Distinct DEF HashOf, Stamp
  <2> QED
    BY <1>4, <1>5, <1>9, <2>4 DEF Owns
<1> QED
  BY <1>1, <1>5, <1>6, <1>8, <1>9, Advance

LEMMA CopyPolicyStep ==
  ASSUME IInv, NEW a \in Attempts, Going(a), CopyPolicy(a)
  PROVE  IInv'
<1> DEFINE s == "policy"  t == "register"
<1>1. s \in DOMAIN Pos /\ t \in DOMAIN Pos \ {"stopped"} /\ Pos[t] = Pos[s] + 1 /\ s \in Files
  BY DEF Pos, Files, BundleFiles
<1>2. at[a] = s /\ Write(a, s, in[a].policy) /\ mem' = mem
  BY DEF CopyPolicy
<1>3. /\ at' = [at EXCEPT ![a] = t] /\ DOMAIN dir' = Files
      /\ \A g \in Files \ {s} : dir'[g] = dir[g]
      /\ dir'[s] \in {in[a].policy, Torn} /\ (a \notin mixed => dir'[s] = in[a].policy)
  <2>1. Wrote(a, s, After(s), in[a].policy)
    BY <1>1, <1>2, WriteLeaves DEF Going
  <2> QED BY <2>1, Successors DEF Wrote
<1>4. Advances(a, s, t)
  BY <1>2, <1>3, SameMind DEF Advances, Going
<1>5. Remembers(a, s)
  BY <1>2, SameMind
<1>6. \A f \in Files : dir'[f] = dir[f] \/ \E x \in {dir'[f]} : Genuine(f, x)'
  BY <1>3, Arguments DEF Genuine, Going
<1>7. a \notin mixed => Owns(a, s)
  BY <1>3 DEF Owns
<1> QED
  BY <1>1, <1>4, <1>5, <1>6, <1>7, Advance

LEMMA RegisterRunStep ==
  ASSUME IInv, NEW a \in Attempts, Going(a), RegisterRun(a)
  PROVE  IInv'
<1> DEFINE s == "register"  t == "start"
<1>1. s \in DOMAIN Pos /\ t \in DOMAIN Pos \ {"stopped"} /\ Pos[t] = Pos[s] + 1
  BY DEF Pos
<1>2. at[a] = s /\ at' = [at EXCEPT ![a] = t] /\ dir' = dir /\ mem' = mem
  BY Successors DEF RegisterRun, Continue
<1>3. Advances(a, s, t)
  BY <1>2, SameMind DEF Advances, Going, IInv, Kept
<1>4. Remembers(a, s)
  BY <1>2, SameMind
<1>5. a \notin mixed => Owns(a, s)
  BY <1>2 DEF Owns
<1> QED
  BY <1>1, <1>2, <1>3, <1>4, <1>5, Advance

LEMMA StartPipelineStep ==
  ASSUME IInv, NEW a \in Attempts, Going(a), StartPipeline(a)
  PROVE  IInv'
<1> DEFINE s == "start"  t == "clear"
<1>1. s \in DOMAIN Pos /\ t \in DOMAIN Pos \ {"stopped"} /\ Pos[t] = Pos[s] + 1
  BY DEF Pos
<1>2. PICK policy \in Seen("policy") : Keep(a, "policy", HashOf(policy))
  BY DEF StartPipeline
<1>3. at[a] = s /\ at' = [at EXCEPT ![a] = t] /\ dir' = dir
  BY Successors DEF StartPipeline, Continue
<1>4. /\ DOMAIN mem' = Attempts /\ DOMAIN mem'[a] = Fields /\ mem'[a].proof # Torn
      /\ \A b \in Attempts \ {a} : mem'[b] = mem[b]
      /\ mem'[a].policy = HashOf(policy) /\ Remembers(a, s)
  BY <1>2, KeepLeaves DEF Remembers, Fields
<1>5. Advances(a, s, t)
  BY <1>3, <1>4 DEF Advances, Going, IInv, Kept
<1>6. ASSUME a \notin mixed
      PROVE  Owns(a, s)
  <2>1. Seen("policy") = {dir["policy"]} /\ OwnFiles(a)
    BY <1>3, <1>6, RunsAlone DEF Going, Files, BundleFiles
  <2>2. Past(a, "policy")
    BY <1>3 DEF Past, Pos
  <2>3. policy = in[a].policy
    BY <1>2, <2>1, <2>2 DEF OwnFiles
  <2>4. HashOf(policy) = in[a].policy
    BY <2>3, Arguments, Distinct DEF HashOf, Going
  <2> QED
    BY <1>3, <1>4, <2>4 DEF Owns
<1> QED
  BY <1>1, <1>3, <1>4, <1>5, <1>6, Advance

LEMMA ClearArchiveStep ==
  ASSUME IInv, NEW a \in Attempts, Going(a), ClearArchive(a)
  PROVE  IInv'
<1> DEFINE s == "clear"  t == "rows"
<1>1. s \in DOMAIN Pos /\ t \in DOMAIN Pos \ {"stopped"} /\ Pos[t] = Pos[s] + 1
  BY DEF Pos
<1>2. at[a] = s /\ at' = [at EXCEPT ![a] = t] /\ mem' = mem
  BY Successors DEF ClearArchive, Continue
<1>3. /\ DOMAIN dir' = Files
      /\ \A g \in Files \ {"rows", "roots"} : dir'[g] = dir[g]
      /\ \A g \in {"rows", "roots"} : dir'[g] = Absent
  BY DEF ClearArchive, IInv, Kept, Files, BundleFiles
<1>4. Advances(a, s, t)
  BY <1>2, <1>3, SameMind DEF Advances, Going
<1>5. Remembers(a, s)
  BY <1>2, SameMind
<1>6. \A f \in Files : dir'[f] = dir[f] \/ \E x \in {dir'[f]} : Genuine(f, x)'
  BY <1>3 DEF Genuine
<1>7. ~Past(a, "rows") /\ ~Past(a, "roots")
  BY <1>2 DEF Past, Pos
<1>8. a \notin mixed => Owns(a, s)
  BY <1>3, <1>7 DEF Owns
<1> QED
  BY <1>1, <1>4, <1>5, <1>6, <1>8, Advance

LEMMA CommitRowsStep ==
  ASSUME IInv, NEW a \in Attempts, Going(a), CommitRows(a)
  PROVE  IInv'
<1> DEFINE s == "rows"  t == "roots"
<1>1. s \in DOMAIN Pos /\ t \in DOMAIN Pos \ {"stopped"} /\ Pos[t] = Pos[s] + 1 /\ s \in Files
  BY DEF Pos, Files, BundleFiles
<1>2. at[a] = s /\ Write(a, s, in[a].trace) /\ mem' = mem
  BY DEF CommitRows
<1>3. /\ at' = [at EXCEPT ![a] = t] /\ DOMAIN dir' = Files
      /\ \A g \in Files \ {s} : dir'[g] = dir[g]
      /\ dir'[s] \in {in[a].trace, Torn} /\ (a \notin mixed => dir'[s] = in[a].trace)
  <2>1. Wrote(a, s, After(s), in[a].trace)
    BY <1>1, <1>2, WriteLeaves DEF Going
  <2> QED BY <2>1, Successors DEF Wrote
<1>4. Advances(a, s, t)
  BY <1>2, <1>3, SameMind DEF Advances, Going
<1>5. Remembers(a, s)
  BY <1>2, SameMind
<1>6. \A f \in Files : dir'[f] = dir[f] \/ \E x \in {dir'[f]} : Genuine(f, x)'
  BY <1>3, Arguments DEF Genuine, Going
<1>7. a \notin mixed => Owns(a, s)
  BY <1>3 DEF Owns
<1> QED
  BY <1>1, <1>4, <1>5, <1>6, <1>7, Advance

LEMMA WriteRootsStep ==
  ASSUME IInv, NEW a \in Attempts, Going(a), WriteRoots(a)
  PROVE  IInv'
<1> DEFINE s == "roots"  t == "digest"
<1>1. s \in DOMAIN Pos /\ t \in DOMAIN Pos \ {"stopped"} /\ Pos[t] = Pos[s] + 1 /\ s \in Files
  BY DEF Pos, Files, BundleFiles
<1>2. at[a] = s /\ Write(a, s, in[a].trace) /\ mem' = mem
  BY DEF WriteRoots
<1>3. /\ at' = [at EXCEPT ![a] = t] /\ DOMAIN dir' = Files
      /\ \A g \in Files \ {s} : dir'[g] = dir[g]
      /\ dir'[s] \in {in[a].trace, Torn} /\ (a \notin mixed => dir'[s] = in[a].trace)
  <2>1. Wrote(a, s, After(s), in[a].trace)
    BY <1>1, <1>2, WriteLeaves DEF Going
  <2> QED BY <2>1, Successors DEF Wrote
<1>4. Advances(a, s, t)
  BY <1>2, <1>3, SameMind DEF Advances, Going
<1>5. Remembers(a, s)
  BY <1>2, SameMind
<1>6. \A f \in Files : dir'[f] = dir[f] \/ \E x \in {dir'[f]} : Genuine(f, x)'
  BY <1>3, Arguments DEF Genuine, Going
<1>7. a \notin mixed => Owns(a, s)
  BY <1>3 DEF Owns
<1> QED
  BY <1>1, <1>4, <1>5, <1>6, <1>7, Advance

LEMMA DigestRootsStep ==
  ASSUME IInv, NEW a \in Attempts, Going(a), DigestRoots(a)
  PROVE  IInv'
<1> DEFINE s == "digest"  t == "proof"
<1>1. s \in DOMAIN Pos /\ t \in DOMAIN Pos \ {"stopped"} /\ Pos[t] = Pos[s] + 1
  BY DEF Pos
<1>2. PICK roots \in Seen("roots") : Keep(a, "digest", HashOf(roots))
  BY DEF DigestRoots
<1>3. at[a] = s /\ at' = [at EXCEPT ![a] = t] /\ dir' = dir
  BY Successors DEF DigestRoots, Continue
<1>4. /\ DOMAIN mem' = Attempts /\ DOMAIN mem'[a] = Fields /\ mem'[a].proof # Torn
      /\ \A b \in Attempts \ {a} : mem'[b] = mem[b]
      /\ mem'[a].digest = HashOf(roots) /\ Remembers(a, s)
  BY <1>2, KeepLeaves DEF Remembers, Fields
<1>5. Advances(a, s, t)
  BY <1>3, <1>4 DEF Advances, Going, IInv, Kept
<1>6. ASSUME a \notin mixed
      PROVE  Owns(a, s)
  <2>1. Seen("roots") = {dir["roots"]} /\ OwnFiles(a)
    BY <1>3, <1>6, RunsAlone DEF Going, Files, BundleFiles
  <2>2. Past(a, "roots")
    BY <1>3 DEF Past, Pos
  <2>3. roots = in[a].trace
    BY <1>2, <2>1, <2>2 DEF OwnFiles
  <2>4. HashOf(roots) = in[a].trace
    BY <2>3, Arguments, Distinct DEF HashOf, Going
  <2> QED
    BY <1>3, <1>4, <2>4 DEF Owns
<1> QED
  BY <1>1, <1>3, <1>4, <1>5, <1>6, Advance

LEMMA WriteProofStep ==
  ASSUME IInv, NEW a \in Attempts, Going(a), WriteProof(a)
  PROVE  IInv'
<1> DEFINE s == "proof"  t == "challenge"
<1>1. s \in DOMAIN Pos /\ t \in DOMAIN Pos \ {"stopped"} /\ Pos[t] = Pos[s] + 1 /\ s \in Files
  BY DEF Pos, Files, BundleFiles
<1>2. PICK rows \in Seen("rows") : Keep(a, "rows", HashOf(rows))
  BY DEF WriteProof
<1>3. at[a] = s /\ Write(a, s, HonestProof(a))
  BY DEF WriteProof
<1>4. /\ at' = [at EXCEPT ![a] = t] /\ DOMAIN dir' = Files
      /\ \A g \in Files \ {s} : dir'[g] = dir[g]
      /\ dir'[s] \in {HonestProof(a), Torn} /\ (a \notin mixed => dir'[s] = HonestProof(a))
  <2>1. Wrote(a, s, After(s), HonestProof(a))
    BY <1>1, <1>3, WriteLeaves DEF Going
  <2> QED BY <2>1, Successors DEF Wrote
<1>5. /\ DOMAIN mem' = Attempts /\ DOMAIN mem'[a] = Fields /\ mem'[a].proof # Torn
      /\ \A b \in Attempts \ {a} : mem'[b] = mem[b]
      /\ mem'[a].rows = HashOf(rows) /\ Remembers(a, s)
  BY <1>2, KeepLeaves DEF Remembers, Fields
<1>6. Advances(a, s, t)
  BY <1>3, <1>4, <1>5 DEF Advances, Going
<1>7. HonestProof(a)' = HonestProof(a) /\ Past(a, "proof")'
  <2>1. at'[a] = t
    BY <1>4 DEF IInv, Kept
  <2>2. Past(a, "proof")'
    BY <2>1 DEF Past, Pos
  <2> QED
    BY <1>5, <2>2, SameProof DEF Going, Remembers
<1>8. \A f \in Files : dir'[f] = dir[f] \/ \E x \in {dir'[f]} : Genuine(f, x)'
  <2>1. Genuine("proof", HonestProof(a))' /\ Genuine("proof", Torn)'
    BY <1>7 DEF Genuine
  <2> QED
    BY <1>4, <1>7, <2>1
<1>9. ASSUME a \notin mixed
      PROVE  Owns(a, s)
  <2>1. Seen("rows") = {dir["rows"]} /\ OwnFiles(a)
    BY <1>3, <1>9, RunsAlone DEF Going, Files, BundleFiles
  <2>2. Past(a, "rows")
    BY <1>3 DEF Past, Pos
  <2>3. rows = in[a].trace
    BY <1>2, <2>1, <2>2 DEF OwnFiles
  <2>4. HashOf(rows) = in[a].trace
    BY <2>3, Arguments, Distinct DEF HashOf, Going
  <2> QED
    BY <1>4, <1>5, <1>9, <2>4 DEF Owns
<1> QED
  BY <1>1, <1>5, <1>6, <1>8, <1>9, Advance

LEMMA WriteCapsuleStep ==
  ASSUME IInv, NEW a \in Attempts, Going(a), WriteCapsule(a)
  PROVE  IInv'
<1> DEFINE s == "capsule"  t == "index"
<1>1. s \in DOMAIN Pos /\ t \in DOMAIN Pos \ {"stopped"} /\ Pos[t] = Pos[s] + 1 /\ s \in Files
  BY DEF Pos, Files, BundleFiles
<1>2. at[a] = s /\ Write(a, s, mem[a].capsule) /\ mem' = mem
  BY DEF WriteCapsule
<1>3. /\ at' = [at EXCEPT ![a] = t] /\ DOMAIN dir' = Files
      /\ \A g \in Files \ {s} : dir'[g] = dir[g]
      /\ dir'[s] \in {mem[a].capsule, Torn} /\ (a \notin mixed => dir'[s] = mem[a].capsule)
  <2>1. Wrote(a, s, After(s), mem[a].capsule)
    BY <1>1, <1>2, WriteLeaves DEF Going
  <2> QED BY <2>1, Successors DEF Wrote
<1>4. Advances(a, s, t)
  BY <1>2, <1>3, SameMind DEF Advances, Going
<1>5. Remembers(a, s)
  BY <1>2, SameMind
<1>6. \A f \in Files : dir'[f] = dir[f] \/ \E x \in {dir'[f]} : Genuine(f, x)'
  <2>1. at'[a] = t
    BY <1>3 DEF IInv, Kept
  <2>2. Past(a, "capsule")'
    BY <2>1 DEF Past, Pos
  <2>3. Genuine("capsule", mem[a].capsule)' /\ Genuine("capsule", Torn)'
    BY <1>2, <2>2 DEF Genuine
  <2> QED
    BY <1>2, <1>3, <2>3
<1>7. a \notin mixed => Owns(a, s)
  BY <1>3 DEF Owns
<1> QED
  BY <1>1, <1>4, <1>5, <1>6, <1>7, Advance

LEMMA WriteIndexStep ==
  ASSUME IInv, NEW a \in Attempts, Going(a), WriteIndex(a)
  PROVE  IInv'
<1> DEFINE s == "index"  t == "meta"
<1>1. s \in DOMAIN Pos /\ t \in DOMAIN Pos \ {"stopped"} /\ Pos[t] = Pos[s] + 1 /\ s \in Files
  BY DEF Pos, Files, BundleFiles
<1>2. at[a] = s /\ Write(a, s, ManifestOf(mem[a].proof)) /\ mem' = mem
  BY DEF WriteIndex
<1>3. /\ at' = [at EXCEPT ![a] = t] /\ DOMAIN dir' = Files
      /\ \A g \in Files \ {s} : dir'[g] = dir[g]
      /\ dir'[s] \in {ManifestOf(mem[a].proof), Torn}
      /\ a \notin mixed => dir'[s] = ManifestOf(mem[a].proof)
  <2>1. Wrote(a, s, After(s), ManifestOf(mem[a].proof))
    BY <1>1, <1>2, WriteLeaves DEF Going
  <2> QED BY <2>1, Successors DEF Wrote
<1>4. Advances(a, s, t)
  BY <1>2, <1>3, SameMind DEF Advances, Going
<1>5. Remembers(a, s)
  BY <1>2, SameMind
<1>6. \A f \in Files : dir'[f] = dir[f] \/ \E x \in {dir'[f]} : Genuine(f, x)'
  <2>1. at'[a] = t
    BY <1>3 DEF IInv, Kept
  <2>2. Past(a, "index")'
    BY <2>1 DEF Past, Pos
  <2>3. Genuine("index", ManifestOf(mem[a].proof))' /\ Genuine("index", Torn)'
    BY <1>2, <2>2 DEF Genuine
  <2> QED
    BY <1>2, <1>3, <2>3
<1>7. a \notin mixed => Owns(a, s)
  BY <1>3 DEF Owns
<1> QED
  BY <1>1, <1>4, <1>5, <1>6, <1>7, Advance

Ending(a) == a \in alive /\ UNCHANGED <<in, last, mixed, copy>> /\ steady' = FALSE

LEMMA WriteMetaStep ==
  ASSUME IInv, NEW a \in Attempts, Ending(a), WriteMeta(a)
  PROVE  IInv'
<1> DEFINE s == "meta"  t == "done"  m == [challenge |-> dir["challenge"]]
<1>1. s \in DOMAIN Pos /\ t \in DOMAIN Pos \ {"stopped"} /\ Pos[t] = Pos[s] + 1 /\ s \in Files
  BY DEF Pos, Files, BundleFiles
<1>2. at[a] = s /\ Write(a, s, m) /\ mem' = mem /\ alive' = alive \ {a}
  BY DEF WriteMeta
<1>3. /\ at' = [at EXCEPT ![a] = t] /\ DOMAIN dir' = Files
      /\ \A g \in Files \ {s} : dir'[g] = dir[g]
      /\ dir'[s] \in {m, Torn}
  <2>1. Wrote(a, s, After(s), m)
    BY <1>1, <1>2, WriteLeaves DEF Ending
  <2> QED BY <2>1, Successors DEF Wrote
<1>4. Advances(a, s, t)
  BY <1>2, <1>3, SameMind DEF Advances, Ending
<1>5. Remembers(a, s)
  BY <1>2, SameMind
<1>6. \A f \in Files : dir'[f] = dir[f] \/ \E x \in {dir'[f]} : Genuine(f, x)'
  <2>1. dir["challenge"] \in {Absent, "present"}
    BY DEF IInv, Written, Genuine, Files
  <2>2. PICK challenge \in {Absent, "present"} : challenge = dir["challenge"]
    BY <2>1
  <2>3. Genuine("meta", [challenge |-> challenge])' /\ Genuine("meta", Torn)'
    BY DEF Genuine
  <2>4. dir'[s] \in {[challenge |-> challenge], Torn}
    BY <1>3, <2>2
  <2> QED
    BY <1>3, <2>3, <2>4
<1>7. a \notin mixed => Owns(a, s)
  BY <1>3 DEF Owns
<1> QED
  BY <1>1, <1>4, <1>5, <1>6, <1>7, Advance

LEMMA ChallengeLeaves ==
  ASSUME IInv, NEW a \in Attempts, a \in alive, in' = in, ObtainChallenge(a)
  PROVE  /\ at[a] = "challenge"
         /\ DOMAIN dir' = Files
         /\ \A g \in Files \ {"challenge"} : dir'[g] = dir[g]
         /\ \A f \in Files : dir'[f] = dir[f] \/ \E x \in {dir'[f]} : Genuine(f, x)'
         /\ DOMAIN mem' = Attempts /\ DOMAIN mem'[a] = Fields /\ mem'[a].proof # Torn
         /\ \A b \in Attempts \ {a} : mem'[b] = mem[b]
         /\ Remembers(a, "challenge")
         /\ (\E challenge \in {None, ChallengeOf(a, "relay"), ChallengeOf(a, "self")} :
               SealedWith(a, challenge))'
         /\ a \notin mixed => mem'[a].proof = HashOf(HonestProof(a))
<1>1. at[a] = "challenge"
  BY DEF ObtainChallenge
<1>2. /\ DOMAIN dir' = Files
      /\ \A g \in Files \ {"challenge"} : dir'[g] = dir[g]
      /\ \A f \in Files : dir'[f] = dir[f] \/ \E x \in {dir'[f]} : Genuine(f, x)'
  BY DEF ObtainChallenge, IInv, Kept, Files, Genuine
<1> DEFINE Mind(p) == [Held(a) EXCEPT !.proof = HashOf(p)]
           Bound(p) == CommitHash(Header(Payload(Mind(p)), ManifestOf(Mind(p).proof)))
           Drawn(p) == CASE in[a].da = "relay" -> Challenge(Bound(p), "relay", Stamp(a))
                         [] in[a].da = "insecure" -> Challenge(Bound(p), "self", Stamp(a))
                         [] OTHER -> None
<1>3. PICK p \in Seen("proof") : mem' = [mem EXCEPT ![a].proof = Mind(p).proof,
                                                    ![a].capsule = Seal(Mind(p), Drawn(p))]
  BY DEF ObtainChallenge
<1>4. DOMAIN mem = Attempts /\ DOMAIN mem[a] = Fields
  BY DEF IInv, Kept
<1>5. Mind(p).proof = HashOf(p)
  BY DEF Held
<1>6. HashOf(p) # Torn
  BY SealAssumption DEF HashOf
<1>7. /\ DOMAIN mem' = Attempts /\ DOMAIN mem'[a] = Fields
      /\ \A b \in Attempts \ {a} : mem'[b] = mem[b]
      /\ mem'[a].proof = HashOf(p) /\ mem'[a].capsule = Seal(Mind(p), Drawn(p))
      /\ mem'[a].anchor = mem[a].anchor /\ mem'[a].policy = mem[a].policy
      /\ mem'[a].rows = mem[a].rows /\ mem'[a].digest = mem[a].digest
  <2> HIDE DEF Mind, Drawn
  <2> QED
    BY <1>3, <1>4, <1>5 DEF Fields
<1>8. Remembers(a, "challenge")
  BY <1>7 DEF Remembers
<1>9. Held(a)' = Mind(p)
  BY <1>7 DEF Held
<1>10. Commit(a)' = Bound(p)
  <2> HIDE DEF Mind
  <2> QED
    BY <1>5, <1>7, <1>9 DEF Commit
<1>11. \A signer : ChallengeOf(a, signer)' = Challenge(Bound(p), signer, Stamp(a))
  BY <1>10 DEF ChallengeOf, Stamp
<1>12. /\ Drawn(p) \in {None, ChallengeOf(a, "relay")', ChallengeOf(a, "self")'}
       /\ in[a].da = "relay" => Drawn(p) = ChallengeOf(a, "relay")'
  <2> HIDE DEF Bound
  <2> QED
    BY <1>11
<1>13. (\E challenge \in {None, ChallengeOf(a, "relay"), ChallengeOf(a, "self")} :
          SealedWith(a, challenge))'
  <2> HIDE DEF Mind, Drawn
  <2> QED
    BY <1>7, <1>9, <1>12 DEF SealedWith
<1>14. ASSUME a \notin mixed
       PROVE  mem'[a].proof = HashOf(HonestProof(a))
  <2>1. Seen("proof") = {dir["proof"]} /\ OwnFiles(a)
    BY <1>1, <1>14, RunsAlone DEF Files, BundleFiles
  <2>2. Past(a, "proof")
    BY <1>1 DEF Past, Pos
  <2>3. p = HonestProof(a)
    BY <1>3, <2>1, <2>2 DEF OwnFiles
  <2> QED
    BY <1>7, <2>3
<1> QED
  BY <1>1, <1>2, <1>6, <1>7, <1>8, <1>13, <1>14

\* The challenge was obtained: the attempt goes on.
LEMMA ObtainChallengeStep ==
  ASSUME IInv, NEW a \in Attempts, Ending(a), ObtainChallenge(a), in[a].da # "file"
  PROVE  IInv'
<1> DEFINE s == "challenge"  t == "capsule"
<1>1. s \in DOMAIN Pos /\ t \in DOMAIN Pos \ {"stopped"} /\ Pos[t] = Pos[s] + 1
  BY DEF Pos
<1>2. a \in alive /\ in' = in /\ at' = [at EXCEPT ![a] = t] /\ alive' = alive
  <2>1. at[a] = s /\ at' = [at EXCEPT ![a] = After(at[a])] /\ alive' = alive
    BY DEF ObtainChallenge, Continue
  <2> QED
    BY <2>1, Successors DEF Ending
<1>3. Advances(a, s, t)
  BY <1>2, ChallengeLeaves DEF Advances, Ending
<1>4. a \notin mixed => Owns(a, s)
  BY <1>2, ChallengeLeaves DEF Owns
<1> QED
  BY <1>1, <1>2, <1>3, <1>4, ChallengeLeaves, Advance

\* If an attempt runs and the last ran with no other, it is that one.
LEMMA OnlyLast ==
  ASSUME IInv, NEW a \in alive, NEW b \in Attempts, b = last, b \notin mixed
  PROVE  b = a
<1>1. last # None
  BY Distinct
<1>2. alive \subseteq {last}
  BY <1>1 DEF IInv, Alone
<1> QED
  BY <1>2

\* The challenge file was made for another commit: the attempt raises.
LEMMA ChallengeMismatchStep ==
  ASSUME IInv, NEW a \in Attempts, Ending(a), ObtainChallenge(a), in[a].da = "file"
  PROVE  IInv'
<1>1. a \in alive /\ in' = in /\ at' = at /\ alive' = alive \ {a}
  BY DEF ObtainChallenge, Ending
<1>2. /\ at[a] = "challenge"
      /\ DOMAIN dir' = Files
      /\ \A g \in Files \ {"challenge"} : dir'[g] = dir[g]
      /\ \A f \in Files : dir'[f] = dir[f] \/ \E x \in {dir'[f]} : Genuine(f, x)'
      /\ DOMAIN mem' = Attempts /\ DOMAIN mem'[a] = Fields /\ mem'[a].proof # Torn
      /\ \A b \in Attempts \ {a} : mem'[b] = mem[b]
      /\ Remembers(a, "challenge")
      /\ (\E challenge \in {None, ChallengeOf(a, "relay"), ChallengeOf(a, "self")} :
            SealedWith(a, challenge))'
  BY <1>1, ChallengeLeaves
<1>3. \A u \in DOMAIN Pos : Past(a, u)' <=> Past(a, u)
  BY <1>1 DEF Past
<1>4. ~Past(a, "challenge") /\ ~Past(a, "capsule") /\ ~Past(a, "index")
  BY <1>2 DEF Past, Pos
<1>5. Frame(a)
  BY <1>1, <1>2, <1>3, <1>4 DEF Frame, Remembers, Ending
<1>6. Written'
  BY <1>2, <1>5, StillWritten DEF IInv
<1>7. Copying'
  BY <1>5, StillCopying DEF IInv, Ending
<1>8. Kept'
  <2>1. \A b \in Attempts : DOMAIN mem'[b] = Fields /\ mem'[b].proof # Torn
    BY <1>2 DEF IInv, Kept
  <2> QED
    BY <1>1, <1>2, <2>1 DEF IInv, Kept, Ending
<1>9. Alone'
  BY <1>1 DEF IInv, Alone, Ending
<1>10. SealedBy(a)'
  <2>1. Running(a, "signature") /\ Running(a, "start")
    BY <1>2 DEF Running, Past, Pos
  <2>2. a \notin mixed => mem'[a].anchor = Stamp(a) /\ mem'[a].policy = in'[a].policy
    BY <1>1, <1>2, <2>1 DEF IInv, Sealing, SealedBy, Remembers
  <2>3. at'[a] = "challenge" /\ a \notin alive' /\ mixed' = mixed
    BY <1>1, <1>2 DEF Ending
  <2> QED
    BY <1>2, <2>2, <2>3 DEF SealedBy, Stamp
<1>11. Sealing'
  BY <1>5, <1>10, OthersSealed DEF IInv, Sealing
<1>12. Own'
  <2>1. SUFFICES ASSUME NEW b \in Attempts, b = last', b \notin mixed'
                 PROVE  OwnFiles(b)'
    BY DEF Own
  <2>2. b = a /\ a \notin mixed
    BY <1>1, <2>1, OnlyLast DEF Ending
  <2>3. OwnFiles(a)
    BY <1>1, <2>2, RunsAlone
  <2>4. HonestProof(a)' = HonestProof(a)
    BY <1>1, <1>2, SameProof DEF Remembers
  <2>5. {"manifests", "signature", "policy", "rows", "roots", "digest", "proof", "challenge",
         "capsule", "index"} \subseteq DOMAIN Pos
    BY DEF Pos
  <2>6. \A g \in {"manifests", "signature", "policy", "rows", "roots", "proof"} :
           dir'[g] = dir[g]
    BY <1>2 DEF Files, BundleFiles
  <2>7. OwnFiles(a)'
    BY <1>1, <1>2, <1>3, <1>4, <2>3, <2>4, <2>5, <2>6 DEF OwnFiles, Remembers, Stamp
  <2> QED
    BY <2>2, <2>7
<1> QED
  BY <1>6, <1>7, <1>8, <1>9, <1>11, <1>12 DEF IInv

LEMMA StartStep ==
  ASSUME IInv, NEW a \in Attempts, Start(a), copy' = copy, steady' = FALSE
  PROVE  IInv'
<1>1. /\ at[a] = "new" /\ at' = [at EXCEPT ![a] = "manifests"] /\ last' = a
      /\ alive' = alive \cup {a} /\ dir' = dir /\ mem' = mem
      /\ mixed' = IF alive = {} THEN mixed ELSE mixed \cup alive \cup {a}
  BY DEF Start
<1>2. PICK i \in Inputs : in' = [in EXCEPT ![a] = i]
  BY DEF Start
<1>3. at'[a] = "manifests" /\ \A b \in Attempts \ {a} : at'[b] = at[b] /\ in'[b] = in[b]
  BY <1>1, <1>2 DEF IInv, Kept
<1>4. \A u \in DOMAIN Pos : ~Past(a, u)
  <2>1. Pos[at[a]] = 0
    BY <1>1 DEF Pos
  <2> QED
    BY <2>1, Positions DEF Past
<1>5. {"proof", "capsule", "index", "challenge"} \subseteq DOMAIN Pos
  BY DEF Pos
<1>6. Frame(a)
  BY <1>1, <1>3, <1>4, <1>5 DEF Frame
<1>7. Written'
  BY <1>1, <1>6, StillWritten DEF IInv
<1>8. Copying'
  BY <1>6, StillCopying DEF IInv
<1>9. Kept'
  <2>1. at' \in [Attempts -> DOMAIN Pos] /\ in' \in [Attempts -> Inputs \cup {None}]
    BY <1>1, <1>2 DEF IInv, Kept, Pos
  <2>2. \A b \in Attempts : at'[b] # "new" => in'[b] \in Inputs
    BY <1>2, <1>3 DEF IInv, Kept
  <2>3. alive' \subseteq {b \in Attempts : at'[b] \notin {"new", "stopped", "done"}}
    BY <1>1, <1>3 DEF IInv, Kept
  <2>4. mixed' \subseteq Attempts
    BY <1>1 DEF IInv, Kept
  <2> QED
    BY <1>1, <2>1, <2>2, <2>3, <2>4 DEF IInv, Kept
<1>10. Alone'
  BY <1>1 DEF Alone
<1>11. SealedBy(a)'
  <2>1. mem[a].capsule = Absent
    BY <1>1, <1>4, <1>5 DEF IInv, Sealing, SealedBy
  <2>2. ~Past(a, "challenge")' /\ ~Past(a, "signature")' /\ ~Past(a, "start")'
    BY <1>3 DEF Past, Pos
  <2> QED
    BY <1>1, <2>1, <2>2 DEF SealedBy, Running
<1>12. Sealing'
  BY <1>6, <1>11, OthersSealed DEF IInv, Sealing
<1>13. Own'
  <2>1. \A u \in {"manifests", "signature", "policy", "rows", "roots", "digest", "proof",
                  "challenge", "capsule", "index"} : ~Past(a, u)'
    BY <1>3 DEF Past, Pos
  <2>2. OwnFiles(a)'
    BY <2>1 DEF OwnFiles
  <2> QED
    BY <1>1, <2>2 DEF Own
<1> QED
  BY <1>7, <1>8, <1>9, <1>10, <1>12, <1>13 DEF IInv

LEMMA StopStep ==
  ASSUME IInv, NEW a \in Attempts, Ending(a), Stop(a)
  PROVE  IInv'
<1>1. /\ a \in alive \ mixed /\ alive' = alive \ {a} /\ at' = [at EXCEPT ![a] = "stopped"]
      /\ mem' = mem /\ in' = in
  BY DEF Stop, Ending
<1>2. /\ DOMAIN dir' = Files
      /\ \A f \in Files : dir'[f] = dir[f] \/ \E x \in {dir'[f]} : Genuine(f, x)'
  <2>1. DOMAIN dir = Files
    BY DEF IInv, Kept
  <2>2. CASE dir' = dir
    BY <2>1, <2>2
  <2>3. ASSUME NEW f \in Files \ {"challenge"}, dir' = [dir EXCEPT ![f] = Torn]
        PROVE  /\ DOMAIN dir' = Files
               /\ \A g \in Files : dir'[g] = dir[g] \/ \E x \in {dir'[g]} : Genuine(g, x)'
    <3>1. Genuine(f, Torn)'
      BY DEF Genuine, Files, BundleFiles
    <3>2. dir'[f] = Torn /\ DOMAIN dir' = Files /\ \A g \in Files \ {f} : dir'[g] = dir[g]
      BY <2>1, <2>3
    <3> QED
      BY <3>1, <3>2
  <2>4. dir' = dir \/ \E f \in Files \ {"challenge"} : dir' = [dir EXCEPT ![f] = Torn]
    BY DEF Stop
  <2> QED
    BY <2>2, <2>3, <2>4
<1>3. at'[a] = "stopped" /\ \A b \in Attempts \ {a} : at'[b] = at[b]
  BY <1>1 DEF IInv, Kept
<1>4. at[a] \in DOMAIN Pos /\ at[a] # "stopped"
  BY <1>1 DEF IInv, Kept
<1>5. \A u \in DOMAIN Pos : Past(a, u) => Past(a, u)'
  <2>1. Pos[at'[a]] = 16
    BY <1>3 DEF Pos
  <2> QED
    BY <1>4, <2>1, Positions DEF Past
<1>6. Frame(a)
  BY <1>1, <1>3, <1>5 DEF Frame, Ending
<1>7. Written'
  BY <1>2, <1>6, StillWritten DEF IInv
<1>8. Copying'
  BY <1>6, StillCopying DEF IInv, Ending
<1>9. Kept'
  <2>1. at' \in [Attempts -> DOMAIN Pos]
    BY <1>1 DEF IInv, Kept, Pos
  <2>2. alive' \subseteq {b \in Attempts : at'[b] \notin {"new", "stopped", "done"}}
    BY <1>1, <1>3 DEF IInv, Kept
  <2>3. \A b \in Attempts : at'[b] # "new" => in'[b] \in Inputs
    BY <1>1, <1>3 DEF IInv, Kept
  <2> QED
    BY <1>1, <1>2, <2>1, <2>2, <2>3 DEF IInv, Kept, Ending
<1>10. Alone'
  BY <1>1 DEF IInv, Alone, Ending
<1>11. SealedBy(a)'
  <2>1. Past(a, "challenge")'
    BY <1>3 DEF Past, Pos
  <2>2. ~Running(a, "challenge")' /\ ~Running(a, "signature")' /\ ~Running(a, "start")'
    BY <1>3 DEF Running
  <2>3. SealedBy(a)
    BY DEF IInv, Sealing
  <2>4. (\E challenge \in {None, ChallengeOf(a, "relay"), ChallengeOf(a, "self")} :
          SealedWith(a, challenge))
      => (\E challenge \in {None, ChallengeOf(a, "relay"), ChallengeOf(a, "self")} :
             SealedWith(a, challenge))'
    BY <1>1, SameMemory
  <2> QED
    BY <1>1, <2>1, <2>2, <2>3, <2>4 DEF SealedBy, Ending, Stamp
<1>12. Sealing'
  BY <1>6, <1>11, OthersSealed DEF IInv, Sealing
<1>13. Own'
  <2>1. last' = a
    BY <1>1, RunsAlone DEF Ending
  <2> QED
    BY <1>3, <2>1 DEF Own
<1> QED
  BY <1>7, <1>8, <1>9, <1>10, <1>12, <1>13 DEF IInv

-----------------------------------------------------------------------------
(* Copies, and steps that change nothing of the run.                       *)

LEMMA Rest ==
  ASSUME IInv, UNCHANGED <<dir, attemptVars>>, steady' \in BOOLEAN
  PROVE  /\ Kept' /\ Alone' /\ Written' /\ Sealing' /\ Own'
         /\ \A x : Genuine("capsule", x) => Genuine("capsule", x)'
<1>1. /\ dir' = dir /\ at' = at /\ alive' = alive /\ in' = in /\ mem' = mem /\ last' = last
      /\ mixed' = mixed
  BY DEF attemptVars
<1>2. \A a : /\ \A s : (Past(a, s)' <=> Past(a, s)) /\ (Running(a, s)' <=> Running(a, s))
             /\ HonestProof(a)' = HonestProof(a)
             /\ in'[a] = in[a] /\ mem'[a] = mem[a] /\ at'[a] = at[a]
  BY <1>1, SameMemory DEF Past, Running
<1>3. Kept'
  BY <1>1 DEF IInv, Kept
<1>4. Alone'
  BY <1>1 DEF IInv, Alone
<1>5. ASSUME NEW f, NEW x, Genuine(f, x)
      PROVE  Genuine(f, x)'
  BY <1>1, <1>2, <1>5 DEF Genuine
<1>6. Written'
  BY <1>1, <1>5 DEF IInv, Written
<1>7. ASSUME NEW a \in Attempts, SealedBy(a)
      PROVE  SealedBy(a)'
  <2>1. (\E challenge \in {None, ChallengeOf(a, "relay"), ChallengeOf(a, "self")} :
          SealedWith(a, challenge))
      => (\E challenge \in {None, ChallengeOf(a, "relay"), ChallengeOf(a, "self")} :
             SealedWith(a, challenge))'
    BY <1>1, SameMemory
  <2> QED
    BY <1>1, <1>2, <1>7, <2>1 DEF SealedBy, Stamp
<1>8. Sealing'
  BY <1>7 DEF IInv, Sealing
<1>9. ASSUME NEW a \in Attempts, OwnFiles(a)
      PROVE  OwnFiles(a)'
  BY <1>1, <1>2, <1>9 DEF OwnFiles, HashOf, Stamp
<1>10. Own'
  BY <1>1, <1>9 DEF IInv, Own
<1> QED
  BY <1>3, <1>4, <1>5, <1>6, <1>8, <1>10

LEMMA StutterStep ==
  ASSUME IInv, UNCHANGED vars
  PROVE  IInv'
<1>1. UNCHANGED <<dir, attemptVars>> /\ copy' = copy /\ steady' = steady /\ alive' = alive
      /\ dir' = dir
  BY DEF vars, attemptVars
<1>2. steady' \in BOOLEAN
  BY <1>1 DEF IInv, Kept
<1>3. /\ Kept' /\ Alone' /\ Written' /\ Sealing' /\ Own'
      /\ \A x : Genuine("capsule", x) => Genuine("capsule", x)'
  BY <1>1, <1>2, Rest
<1>4. Copying'
  BY <1>1, <1>3 DEF IInv, Copying
<1> QED
  BY <1>3, <1>4 DEF IInv

LEMMA BeginCopyStep ==
  ASSUME IInv, NEW kind \in Kinds, BeginCopy(kind), UNCHANGED <<dir, attemptVars>>
  PROVE  IInv'
<1>1. steady' \in BOOLEAN /\ (steady' => alive' = {})
  BY DEF BeginCopy, attemptVars
<1>2. /\ Kept' /\ Alone' /\ Written' /\ Sealing' /\ Own'
      /\ \A x : Genuine("capsule", x) => Genuine("capsule", x)'
  BY <1>1, Rest
<1>3. /\ DOMAIN copy' = {"kind", "pc", "meta", "files"}
      /\ copy'.kind = kind /\ copy'.pc = "capsule" /\ copy'.files = copy.files
  BY DEF BeginCopy, IInv, Copying
<1>4. Taken("capsule") = {}
  BY DEF Taken
<1>5. Copying'
  BY <1>1, <1>2, <1>3, <1>4 DEF IInv, Copying, CopyPcs
<1> QED
  BY <1>2, <1>5 DEF IInv

LEMMA CopySuccessors ==
  /\ CopyAfter("emit", "capsule") = "index" /\ CopyAfter("emit", "index") = "proof"
  /\ CopyAfter("emit", "proof") = "archive" /\ CopyAfter("emit", "archive") = "policy"
  /\ CopyAfter("emit", "policy") = "manifests" /\ CopyAfter("emit", "manifests") = "done"
  /\ CopyAfter("pack", "capsule") = "policy" /\ CopyAfter("pack", "policy") = "manifests"
  /\ CopyAfter("pack", "manifests") = "challenge" /\ CopyAfter("pack", "challenge") = "archive"
  /\ CopyAfter("pack", "archive") = "proof" /\ CopyAfter("pack", "proof") = "done"
<1> DEFINE emit == <<"capsule", "index", "proof", "archive", "policy", "manifests", "done">>
           pack == <<"capsule", "policy", "manifests", "challenge", "archive", "proof",
                     "done">>
<1>1. CopySteps("emit") = emit /\ CopySteps("pack") = pack
  BY DEF CopySteps
<1>2. DOMAIN emit = 1 .. 7 /\ DOMAIN pack = 1 .. 7
  OBVIOUS
<1>3. /\ emit[1] = "capsule" /\ emit[2] = "index" /\ emit[3] = "proof" /\ emit[4] = "archive"
      /\ emit[5] = "policy" /\ emit[6] = "manifests" /\ emit[7] = "done"
      /\ pack[1] = "capsule" /\ pack[2] = "policy" /\ pack[3] = "manifests"
      /\ pack[4] = "challenge" /\ pack[5] = "archive" /\ pack[6] = "proof"
      /\ pack[7] = "done"
  OBVIOUS
<1> HIDE DEF emit, pack
<1>4. ASSUME NEW steps, NEW k \in 1 .. 7, DOMAIN steps = 1 .. 7,
             \A i \in 1 .. 7 : steps[i] = steps[k] => i = k
      PROVE  (CHOOSE i \in DOMAIN steps : steps[i] = steps[k]) = k
  BY <1>4
<1>5. ASSUME NEW kind \in {"emit", "pack"}, NEW k \in 1 .. 6,
             NEW steps, steps = CopySteps(kind), DOMAIN steps = 1 .. 7,
             \A i \in 1 .. 7 : steps[i] = steps[k] => i = k
      PROVE  CopyAfter(kind, steps[k]) = steps[k + 1]
  <2>1. CopyAfter(kind, steps[k])
          = steps[1 + CHOOSE i \in DOMAIN steps : steps[i] = steps[k]]
    BY <1>5 DEF CopyAfter
  <2>2. (CHOOSE i \in DOMAIN steps : steps[i] = steps[k]) = k
    BY <1>4, <1>5
  <2>3. CopyAfter(kind, steps[k]) = steps[1 + k]
    BY ONLY <2>1, <2>2
  <2>4. 1 + k = k + 1
    OBVIOUS
  <2> QED
    BY <2>3, <2>4
<1>6. \A k \in 1 .. 6 : CopyAfter("emit", emit[k]) = emit[k + 1]
  <2>1. \A i, k \in 1 .. 7 : emit[i] = emit[k] => i = k
    BY <1>3
  <2> QED
    BY <1>1, <1>2, <1>5, <2>1
<1>7. \A k \in 1 .. 6 : CopyAfter("pack", pack[k]) = pack[k + 1]
  <2>1. \A i, k \in 1 .. 7 : pack[i] = pack[k] => i = k
    BY <1>3
  <2> QED
    BY <1>1, <1>2, <1>5, <2>1
<1>8. /\ CopyAfter("emit", emit[1]) = emit[2] /\ CopyAfter("emit", emit[2]) = emit[3]
      /\ CopyAfter("emit", emit[3]) = emit[4] /\ CopyAfter("emit", emit[4]) = emit[5]
      /\ CopyAfter("emit", emit[5]) = emit[6] /\ CopyAfter("emit", emit[6]) = emit[7]
  BY <1>6
<1>9. /\ CopyAfter("pack", pack[1]) = pack[2] /\ CopyAfter("pack", pack[2]) = pack[3]
      /\ CopyAfter("pack", pack[3]) = pack[4] /\ CopyAfter("pack", pack[4]) = pack[5]
      /\ CopyAfter("pack", pack[5]) = pack[6] /\ CopyAfter("pack", pack[6]) = pack[7]
  BY <1>7
<1> QED
  BY <1>3, <1>8, <1>9

LEMMA CopyStepKeeps ==
  ASSUME IInv, CopyStep, UNCHANGED <<dir, attemptVars>>
  PROVE  IInv'
<1>1. steady' = steady /\ steady' \in BOOLEAN /\ alive' = alive /\ dir' = dir
  BY DEF CopyStep, attemptVars, IInv, Kept
<1>2. /\ Kept' /\ Alone' /\ Written' /\ Sealing' /\ Own'
      /\ \A x : Genuine("capsule", x) => Genuine("capsule", x)'
  BY <1>1, Rest
<1>3. PICK taken \in [Group(copy.pc) -> UNION {Seen(f) : f \in Group(copy.pc)}] :
        /\ \A f \in Group(copy.pc) : taken[f] \in Seen(f)
        /\ IF CopyFails(copy.kind, copy.pc, taken)
           THEN copy' = [copy EXCEPT !.pc = "failed"]
           ELSE copy' = [copy EXCEPT
                   !.pc = CopyAfter(copy.kind, @),
                   !.files = [f \in BundleFiles |->
                                IF f \in Group(copy.pc) THEN taken[f] ELSE @[f]]]
  BY DEF CopyStep
<1>4. CASE CopyFails(copy.kind, copy.pc, taken)
  <2>1. /\ DOMAIN copy' = {"kind", "pc", "meta", "files"} /\ copy'.kind = copy.kind
        /\ copy'.pc = "failed" /\ copy'.files = copy.files
    BY <1>3, <1>4 DEF IInv, Copying
  <2>2. Taken("failed") = {}
    BY DEF Taken
  <2>3. copy.kind \in Kinds
    BY DEF CopyStep, IInv, Copying
  <2>4. Copying'
    BY <1>1, <1>2, <2>1, <2>2, <2>3 DEF IInv, Copying, CopyPcs
  <2> QED
    BY <1>2, <2>4 DEF IInv
<1>5. CASE ~CopyFails(copy.kind, copy.pc, taken)
  <2> DEFINE Following == CopyAfter(copy.kind, copy.pc)
  <2>1. /\ DOMAIN copy' = {"kind", "pc", "meta", "files"} /\ copy'.kind = copy.kind
        /\ copy'.pc = Following
        /\ copy'.files = [f \in BundleFiles |->
                            IF f \in Group(copy.pc) THEN taken[f] ELSE copy.files[f]]
    BY <1>3, <1>5 DEF IInv, Copying
  <2>2. /\ copy.kind \in Kinds /\ copy.kind \in {"emit", "pack"}
        /\ copy.pc \in {"capsule", "index", "proof", "archive", "policy", "manifests",
                        "challenge"}
    BY DirectoryAssumption DEF CopyStep, IInv, Copying, CopyPcs
  <2>3. /\ Following \in CopyPcs
        /\ copy.kind = "emit" => Following # "challenge"
        /\ copy.kind = "pack" => Following # "index"
        /\ copy.kind = "emit" => Taken(Following) \subseteq Taken(copy.pc) \cup Group(copy.pc)
    <3>1. CASE copy.kind = "emit"
      <4>1. copy.pc \in {"capsule", "index", "proof", "archive", "policy", "manifests"}
        BY <2>2, <3>1 DEF IInv, Copying
      <4>2. CASE copy.pc = "capsule"
        BY <3>1, <4>2, CopySuccessors DEF CopyPcs, Taken, Group
      <4>3. CASE copy.pc = "index"
        BY <3>1, <4>3, CopySuccessors DEF CopyPcs, Taken, Group
      <4>4. CASE copy.pc = "proof"
        BY <3>1, <4>4, CopySuccessors DEF CopyPcs, Taken, Group
      <4>5. CASE copy.pc = "archive"
        BY <3>1, <4>5, CopySuccessors DEF CopyPcs, Taken, Group
      <4>6. CASE copy.pc = "policy"
        BY <3>1, <4>6, CopySuccessors DEF CopyPcs, Taken, Group
      <4>7. CASE copy.pc = "manifests"
        BY <3>1, <4>7, CopySuccessors DEF CopyPcs, Taken, Group, BundleFiles
      <4> QED
        BY <4>1, <4>2, <4>3, <4>4, <4>5, <4>6, <4>7
    <3>2. CASE copy.kind = "pack"
      <4>1. copy.pc \in {"capsule", "proof", "archive", "policy", "manifests", "challenge"}
        BY <2>2, <3>2 DEF IInv, Copying
      <4> QED
        BY <3>2, <4>1, CopySuccessors DEF CopyPcs
    <3> QED
      BY <2>2, <3>1, <3>2
  <2>4. Group(copy.pc) \subseteq BundleFiles
    BY <2>2 DEF Group, BundleFiles
  <2>5. \E x \in {copy'.files["capsule"]} : Genuine("capsule", x)
    <3>1. "capsule" \in BundleFiles /\ "capsule" \in Files
      BY DEF Files, BundleFiles
    <3>2. \E x \in {copy.files["capsule"]} : Genuine("capsule", x)
      BY DEF IInv, Copying
    <3>3. \A x \in Seen("capsule") : Genuine("capsule", x)
      BY <3>1 DEF IInv, Written, Seen, Genuine
    <3>4. copy'.files["capsule"] \in Seen("capsule") \cup {copy.files["capsule"]}
      BY <1>3, <2>1, <3>1
    <3> QED
      BY <3>2, <3>3, <3>4
  <2>6. ASSUME steady'
        PROVE  alive' = {} /\ (copy.kind = "emit" =>
                                 \A f \in Taken(Following) : copy'.files[f] = dir'[f])
    <3>1. alive = {} /\ (copy.kind = "emit" =>
                           \A f \in Taken(copy.pc) : copy.files[f] = dir[f])
      BY <1>1, <2>6 DEF IInv, Copying
    <3>2. \A f \in Group(copy.pc) : taken[f] = dir[f]
      BY <1>3, <3>1 DEF Seen, Changing, Writing
    <3>3. Taken(copy.pc) \subseteq BundleFiles
      BY <2>2 DEF Taken, BundleFiles
    <3> HIDE DEF Following
    <3> QED
      BY <1>1, <2>1, <2>3, <2>4, <3>1, <3>2, <3>3
  <2> HIDE DEF Following
  <2>7. Copying'
    <3>1. /\ copy'.kind \in Kinds /\ copy'.pc \in CopyPcs
          /\ copy'.pc = "challenge" => copy'.kind # "emit"
          /\ copy'.pc = "index" => copy'.kind # "pack"
      BY <2>1, <2>2, <2>3
    <3>2. copy'.files = [f \in BundleFiles |-> copy'.files[f]]
      BY <2>1
    <3>3. \E x \in {copy'.files["capsule"]} : Genuine("capsule", x)'
      BY <1>2, <2>5
    <3>4. steady' => alive' = {} /\ (copy'.kind = "emit" =>
                          \A f \in Taken(copy'.pc) : copy'.files[f] = dir'[f])
      BY <2>1, <2>6
    <3> QED
      BY <2>1, <3>1, <3>2, <3>3, <3>4 DEF Copying
  <2> QED
    BY <1>2, <2>7 DEF IInv
<1> QED
  BY <1>4, <1>5

LEMMA InitHolds == Init => IInv
<1> SUFFICES ASSUME Init
             PROVE  IInv
  OBVIOUS
<1>1. Kept
  <2>1. \A a \in Attempts : DOMAIN mem[a] = Fields /\ mem[a].proof # Torn
    BY SealAssumption DEF Init, NoMemory, Fields
  <2> QED
    BY <2>1 DEF Init, Kept, Pos
<1>2. Alone
  BY DEF Init, Alone
<1>3. Written
  <2>1. SUFFICES ASSUME NEW f \in Files
                 PROVE  Genuine(f, Absent)
    BY DEF Init, Written
  <2> QED
    BY DEF Genuine, Files, BundleFiles
<1>4. \A a \in Attempts, s \in DOMAIN Pos : ~Past(a, s)
  <2>1. \A a \in Attempts : Pos[at[a]] = 0
    BY DEF Init, Pos
  <2> QED
    BY <2>1, Positions DEF Past
<1>5. {"challenge", "signature", "start"} \subseteq DOMAIN Pos
  BY DEF Pos
<1>6. Sealing
  <2>1. \A a \in Attempts : mem[a].capsule = Absent
    BY DEF Init, NoMemory
  <2> QED
    BY <1>4, <1>5, <2>1 DEF Sealing, SealedBy, Running
<1>7. Own
  <2>1. \A a \in Attempts : a # None
    BY Distinct
  <2> QED
    BY <2>1 DEF Init, Own
<1>8. Copying
  <2>1. Genuine("capsule", Absent)
    BY DEF Genuine
  <2>2. copy.files["capsule"] = Absent
    BY DEF Init, BundleFiles
  <2> QED
    BY <2>1, <2>2 DEF Init, Copying, CopyPcs
<1> QED
  BY <1>1, <1>2, <1>3, <1>6, <1>7, <1>8 DEF IInv

LEMMA StepHolds == IInv /\ [Next]_vars => IInv'
<1> SUFFICES ASSUME IInv, [Next]_vars
             PROVE  IInv'
  OBVIOUS
<1>1. CASE UNCHANGED vars
  BY <1>1, StutterStep
<1>2. ASSUME NEW a \in Attempts, Attempt(a)
      PROVE  IInv'
  <2>1. copy' = copy /\ steady' = FALSE
    BY <1>2 DEF Attempt
  <2>2. CASE Start(a)
    BY <2>1, <2>2, StartStep
  <2>3. CASE a \in alive /\ Step(a) /\ UNCHANGED <<alive, in, last, mixed>>
    <3>1. Going(a)
      BY <2>1, <2>3 DEF Going
    <3> QED
      BY <2>3, <3>1, CollectManifestsStep, SignManifestsStep, CopyPolicyStep, RegisterRunStep,
         StartPipelineStep, ClearArchiveStep, CommitRowsStep, WriteRootsStep, DigestRootsStep,
         WriteProofStep, WriteCapsuleStep, WriteIndexStep
         DEF Step
  <2>4. CASE /\ a \in alive /\ (ObtainChallenge(a) \/ WriteMeta(a) \/ Stop(a))
             /\ UNCHANGED <<in, last, mixed>>
    <3>1. Ending(a)
      BY <2>1, <2>4 DEF Ending
    <3> QED
      BY <2>4, <3>1, ObtainChallengeStep, ChallengeMismatchStep, WriteMetaStep, StopStep
  <2> QED
    BY <1>2, <2>2, <2>3, <2>4 DEF Attempt
<1>3. CASE Copy
  BY <1>3, BeginCopyStep, CopyStepKeeps DEF Copy
<1> QED
  BY <1>1, <1>2, <1>3 DEF Next

\* A directory is always as the inductive invariant says: its files are those of
\* attempts that wrote them, a capsule is the seal of one attempt's memory, and
\* the files of an attempt that runs with no other are not changed under it.
THEOREM DirectoryInvariant == Spec => []IInv
BY InitHolds, StepHolds, PTL DEF Spec

-----------------------------------------------------------------------------
(* What follows from the invariant.                                        *)

LEMMA TypesHold == IInv => TypeOK
<1> SUFFICES ASSUME IInv
             PROVE  TypeOK
  OBVIOUS
<1>1. ASSUME NEW f \in Files
      PROVE  dir[f] \in Contents(f)
  <2>1. \E x \in {dir[f]} : Genuine(f, x)
    BY DEF IInv, Written
  <2>2. CASE f \in {"manifests", "signature", "policy", "rows", "roots", "meta", "challenge"}
    BY <2>1, <2>2 DEF Genuine, Contents
  <2>3. CASE f = "capsule"
    BY <2>1, <2>3 DEF Genuine, Contents
  <2>4. CASE f = "proof"
    <3>1. \A a \in Attempts : Past(a, "proof") => in[a] # None
      <4>1. \A a \in Attempts : Past(a, "proof") => at[a] # "new"
        BY DEF Past, Pos
      <4> QED
        BY <4>1, DirectoryAssumption DEF IInv, Kept
    <3> QED
      BY <2>1, <2>4, <3>1 DEF Genuine, Contents
  <2>5. CASE f = "index"
    BY <2>1, <2>5 DEF Genuine, Contents
  <2> QED
    BY <2>2, <2>3, <2>4, <2>5 DEF Files, BundleFiles
<1>2. DOMAIN Pos \subseteq {"new", "stopped"} \cup {Steps[i] : i \in DOMAIN Steps}
  <2>1. /\ Steps[1] = "manifests" /\ Steps[2] = "signature" /\ Steps[3] = "policy"
        /\ Steps[4] = "register" /\ Steps[5] = "start" /\ Steps[6] = "clear"
        /\ Steps[7] = "rows" /\ Steps[8] = "roots" /\ Steps[9] = "digest"
        /\ Steps[10] = "proof" /\ Steps[11] = "challenge" /\ Steps[12] = "capsule"
        /\ Steps[13] = "index" /\ Steps[14] = "meta" /\ Steps[15] = "done"
        /\ DOMAIN Steps = 1 .. 15
    BY DEF Steps
  <2>2. DOMAIN Pos = {"new", "manifests", "signature", "policy", "register", "start", "clear",
                      "rows", "roots", "digest", "proof", "challenge", "capsule", "index",
                      "meta", "done", "stopped"}
    BY DEF Pos
  <2>3. {1, 2, 3, 4, 5, 6, 7, 8, 9, 10, 11, 12, 13, 14, 15} \subseteq DOMAIN Steps
    BY <2>1
  <2> QED
    BY <2>1, <2>2, <2>3
<1>3. at \in [Attempts -> {"new", "stopped"} \cup {Steps[i] : i \in DOMAIN Steps}]
  BY <1>2 DEF IInv, Kept
<1>4. copy.files \in [BundleFiles -> {copy.files[f] : f \in BundleFiles}]
  <2> DEFINE files == copy.files
  <2>1. files = [f \in BundleFiles |-> files[f]]
    BY DEF IInv, Copying
  <2> HIDE DEF files
  <2>2. files \in [BundleFiles -> {files[f] : f \in BundleFiles}]
    BY <2>1
  <2> QED
    BY <2>2 DEF files
<1> QED
  BY <1>1, <1>3, <1>4 DEF IInv, Kept, Copying, TypeOK

\* Every file of the directory holds what an attempt writes there, whole or cut
\* short, whatever the attempts do to each other.
THEOREM DirectoryTypeCorrect == Spec => []TypeOK
BY DirectoryInvariant, TypesHold, PTL

\* What a sealed capsule says.
LEMMA SealSays ==
  ASSUME NEW a, NEW challenge, NEW c, c = Seal(Held(a), challenge)
  PROVE  /\ c.payload.proof = mem[a].proof /\ c.payload.policy = mem[a].policy
         /\ c.payload.anchor.ref = mem[a].anchor /\ c.payload.rowRef = in[a].trace
         /\ c.payload.digest = mem[a].digest /\ c.payload.handles = mem[a].rows
         /\ c.header.instance = Instance(Statement(Held(a)), in[a].trace)
         /\ c.header.manifest = ManifestOf(mem[a].proof)
         /\ c.challenge = challenge
<1> DEFINE p == Payload(Held(a))
           h == Header(p, ManifestOf(mem[a].proof))
<1>1. /\ Held(a).proof = mem[a].proof /\ Held(a).policy = mem[a].policy
      /\ Held(a).anchor = mem[a].anchor /\ Held(a).root = in[a].trace
      /\ Held(a).digest = mem[a].digest /\ Held(a).rows = mem[a].rows
  BY DEF Held
<1>2. /\ p.proof = mem[a].proof /\ p.policy = mem[a].policy /\ p.anchor.ref = mem[a].anchor
      /\ p.rowRef = in[a].trace /\ p.digest = mem[a].digest /\ p.handles = mem[a].rows
      /\ p.instance = Instance(Statement(Held(a)), in[a].trace)
  BY <1>1 DEF Payload
<1>3. h.instance = p.instance /\ h.manifest = ManifestOf(mem[a].proof)
  BY DEF Header
<1>4. c.payload = p /\ c.challenge = challenge
      /\ c.header = IF challenge = None THEN h ELSE [h EXCEPT !.challenge = challenge]
  BY <1>1 DEF Seal
<1>5. c.header.instance = h.instance /\ c.header.manifest = h.manifest
  BY <1>4 DEF Header
<1> HIDE DEF p, h
<1> QED
  BY <1>2, <1>3, <1>4, <1>5

LEMMA AcceptedMeans ==
  ASSUME NEW b, NEW level \in {"proof_only", "full"}, NEW attested \in BOOLEAN
  PROVE  Accepted(b, level, attested) <=>
           /\ b.index # Torn /\ b.capsule \notin {Absent, Torn}
           /\ AllHold(b, b.capsule, level = "full", attested)
<1>1. (level = "full") \in BOOLEAN
  OBVIOUS
<1>2. FirstFailure(Checks(b, b.capsule, level = "full", attested)) = "OK"
        <=> AllHold(b, b.capsule, level = "full", attested)
  BY <1>1, ChecksHold
<1>3. "raises" # "OK" /\ "E002" # "OK"
  OBVIOUS
<1>4. CASE b.index = Torn
  BY <1>3, <1>4 DEF Accepted, Verify
<1>5. CASE b.index # Torn /\ b.capsule \in {Absent, Torn}
  BY <1>3, <1>5 DEF Accepted, Verify
<1>6. CASE b.index # Torn /\ b.capsule \notin {Absent, Torn}
  BY <1>2, <1>6 DEF Accepted, Verify
<1> QED
  BY <1>4, <1>5, <1>6

LEMMA AcceptedIsWhole ==
  ASSUME IInv, NEW b, NEW level \in {"proof_only", "full"}, Accepted(b, level, TRUE),
         \E x \in {b.capsule} : Genuine("capsule", x)
  PROVE  \E a \in Sealed : FilesOf(b, a, level)
<1> DEFINE c == b.capsule  full == level = "full"
<1>1. c \notin {Absent, Torn} /\ AllHold(b, c, full, TRUE)
  BY AcceptedMeans
<1>2. PICK a \in Attempts : c = mem[a].capsule
  BY <1>1 DEF Genuine
<1>3. a \in Sealed
  BY <1>1, <1>2 DEF Sealed
<1>4. PICK challenge : c = Seal(Held(a), challenge)
  BY <1>1, <1>2 DEF IInv, Sealing, SealedBy, SealedWith
<1>5. a \notin mixed => mem[a].anchor = Stamp(a) /\ mem[a].policy = in[a].policy
  BY <1>1, <1>2 DEF IInv, Sealing, SealedBy
<1> HIDE DEF c, full
<1>6. /\ b.policy = c.payload.policy /\ b.proof = c.payload.proof
      /\ b.manifests = c.payload.anchor.ref /\ b.signature = b.manifests
      /\ b.roots = c.payload.rowRef /\ b.index = c.header.manifest
      /\ ProofVerifies(b.proof, c.header.instance)
  BY <1>1, PolicyHolds, ProofFileHolds, ManifestsHold, ArchiveHolds DEF AllHold
<1>7. full => b.audited = b.roots
  BY <1>1, AuditHolds DEF AllHold
<1>8. b.proof = HonestProof(a)
  BY <1>4, <1>6, SealSays DEF ProofVerifies, HonestProof, ProofOf
<1>9. b.index = ManifestOf(HonestProof(a)) /\ b.roots = in[a].trace
  <2>1. /\ c.payload.proof = mem[a].proof /\ c.payload.rowRef = in[a].trace
        /\ c.header.manifest = ManifestOf(mem[a].proof)
    BY <1>4, SealSays
  <2>2. mem[a].proof = HonestProof(a)
    BY <1>6, <1>8, <2>1
  <2> QED
    BY <1>6, <2>1, <2>2
<1>10. a \notin mixed =>
         b.policy = in[a].policy /\ b.manifests = Stamp(a) /\ b.signature = Stamp(a)
  BY <1>4, <1>5, <1>6, SealSays
<1>11. FilesOf(b, a, level)
  BY <1>2, <1>7, <1>8, <1>9, <1>10 DEF FilesOf, c, full
<1> QED
  BY <1>3, <1>11

LEMMA WholeHolds == IInv => AcceptedWhole
<1> SUFFICES ASSUME IInv, NEW level \in {"proof_only", "full"}
             PROVE  /\ Accepted(InPlace, level, TRUE) =>
                         \E a \in Sealed : FilesOf(InPlace, a, level)
                    /\ Accepted(Copied, level, TRUE) =>
                         \E a \in Sealed : FilesOf(Copied, a, level)
  BY DEF AcceptedWhole
<1>1. InPlace.capsule = dir["capsule"] /\ Copied.capsule = copy.files["capsule"]
  BY DEF InPlace, Copied, BundleAt, BundleFiles
<1>2. \E x \in {InPlace.capsule} : Genuine("capsule", x)
  BY <1>1 DEF IInv, Written, Files, BundleFiles
<1>3. \E x \in {Copied.capsule} : Genuine("capsule", x)
  BY <1>1 DEF IInv, Copying
<1> QED
  BY <1>2, <1>3, AcceptedIsWhole

\* However attempts stop, follow or overlap each other, and whenever a copy is
\* made: a directory or a copy that is accepted holds the files of one attempt.
THEOREM AcceptedFilesAreOfOneRun == Spec => []AcceptedWhole
BY DirectoryInvariant, WholeHolds, PTL

-----------------------------------------------------------------------------
(* A record is no mark of a missing file, of a file cut short or of a      *)
(* missing challenge. (TLC has these marks as model values, which differ   *)
(* from every record.)                                                     *)
RecordsAreNoMarks ==
  \A x, y, z : /\ {ProofOf(x), ManifestOf(x), Seal(x, y)} \cap {Absent, Torn} = {}
               /\ Challenge(x, y, z) # None

LEMMA SealPasses ==
  ASSUME NEW a, NEW challenge, NEW c, c = Seal(Held(a), challenge),
         challenge \in {None, ChallengeOf(a, "relay"), ChallengeOf(a, "self")},
         NEW full \in BOOLEAN, full => challenge = ChallengeOf(a, "relay")
  PROVE  /\ Hold(HashesAgree(c)) /\ Hold(HeaderBindsPayload(c)) /\ Hold(StatementBound(c))
         /\ ChallengeStatus(c, full) = "OK"
<1> DEFINE p == Payload(Held(a))
           h == Header(p, ManifestOf(mem[a].proof))
<1>1. Held(a).proof = mem[a].proof
  BY DEF Held
<1>2. /\ c.payload = p /\ c.challenge = challenge
      /\ c.header = IF challenge = None THEN h ELSE [h EXCEPT !.challenge = challenge]
      /\ c.payload_hash = PayloadView(p) /\ c.header_commit_hash = CommitHash(h)
      /\ c.capsule_hash = CapsuleHash(CommitHash(h), PayloadView(p))
  BY <1>1 DEF Seal
<1>3. /\ c.header.statement = p.statement /\ c.header.policyRef = p.policy
      /\ c.header.anchor = p.anchor /\ c.header.root = p.rowRef
      /\ c.header.handles = p.handles /\ c.header.daPolicy = SanitizedPolicy(p.da_policy)
      /\ c.header.instance = p.instance /\ c.header.payload = PayloadView(p)
      /\ c.header.challenge = challenge
  BY <1>2 DEF Header
<1>4. CommitHash(c.header) = h /\ CommitHash(h) = h
  BY <1>2 DEF CommitHash, Header
<1>5. /\ p.instance = Instance(p.statement, p.rowRef)
      /\ p.statement.policy = p.policy /\ p.statement.root = p.rowRef
      /\ p.statement.anchor = [ref |-> p.anchor.ref, head |-> p.anchor.head]
  BY DEF Payload, Statement
<1>6. challenge # None => challenge.commit = h
  BY <1>4 DEF ChallengeOf, Challenge, Commit
<1>7. full => challenge.signer = "relay"
  BY DEF ChallengeOf, Challenge
<1> HIDE DEF p, h
<1>8. Hold(HashesAgree(c))
  BY <1>2, <1>3, <1>4, HashesHold
<1>9. Hold(HeaderBindsPayload(c))
  BY <1>2, <1>3, <1>5, HeaderHolds
<1>10. Hold(StatementBound(c))
  BY <1>2, <1>3, <1>5, StatementHolds
<1>11. ChallengeStatus(c, full) = "OK"
  <2>1. /\ c.header.challenge = None \/ c.challenge # None
        /\ c.challenge = None \/ c.header.challenge \in {None, c.challenge}
    BY <1>2, <1>3
  <2>2. c.challenge = None \/ c.challenge.commit = CommitHash(c.header)
    BY <1>2, <1>4, <1>6
  <2>3. ~full \/ c.challenge = None \/ c.challenge.signer = "relay"
    BY <1>2, <1>7
  <2> QED
    BY <2>1, <2>2, <2>3, ChallengeHolds
<1> QED
  BY <1>8, <1>9, <1>10, <1>11

LEMMA CompletedHolds ==
  ASSUME RecordsAreNoMarks
  PROVE  IInv => CompletedVerifies
<1> SUFFICES ASSUME IInv, last # None, alive = {}, at[last] = "done", last \notin mixed,
                    in[last].signed, NEW level \in {"proof_only", "full"},
                    level = "full" => in[last].da = "relay"
             PROVE  Accepted(InPlace, level, TRUE)
  BY DEF CompletedVerifies
<1>1. PICK a \in Attempts : a = last
  BY DEF IInv, Kept
<1>2. OwnFiles(a)
  BY <1>1 DEF IInv, Own
<1>3. \A s \in DOMAIN Pos \ {"done", "stopped"} : Past(a, s) /\ Running(a, s)
  BY <1>1 DEF Past, Running, Pos
<1>4. {"manifests", "signature", "policy", "rows", "roots", "digest", "proof", "challenge",
       "capsule", "index", "start"} \subseteq DOMAIN Pos \ {"done", "stopped"}
  BY DEF Pos
<1>5. PICK challenge \in {None, ChallengeOf(a, "relay"), ChallengeOf(a, "self")} :
        SealedWith(a, challenge)
  BY <1>3, <1>4 DEF IInv, Sealing, SealedBy
<1>6. mem[a].anchor = Stamp(a) /\ mem[a].policy = in[a].policy
  BY <1>1, <1>3, <1>4 DEF IInv, Sealing, SealedBy
<1> DEFINE b == InPlace  c == b.capsule  full == level = "full"
<1>7. /\ b.manifests = Stamp(a) /\ b.signature = Stamp(a) /\ b.policy = in[a].policy
      /\ b.rows = in[a].trace /\ b.roots = in[a].trace /\ b.audited = in[a].trace
      /\ b.proof = HonestProof(a) /\ b.index = ManifestOf(mem[a].proof)
      /\ c = mem[a].capsule /\ mem[a].digest = in[a].trace /\ mem[a].rows = in[a].trace
      /\ mem[a].proof = HashOf(HonestProof(a))
  <2>1. /\ b.manifests = dir["manifests"] /\ b.signature = dir["signature"]
        /\ b.policy = dir["policy"] /\ b.rows = dir["rows"] /\ b.roots = dir["roots"]
        /\ b.proof = dir["proof"] /\ b.index = dir["index"] /\ c = dir["capsule"]
        /\ b.audited = dir["rows"]
    BY DEF InPlace, BundleAt, BundleFiles
  <2>2. in[a].signed
    BY <1>1
  <2> HIDE DEF b, c
  <2> QED
    BY <1>2, <1>3, <1>4, <2>1, <2>2 DEF OwnFiles
<1>8. c = Seal(Held(a), challenge)
  BY <1>5, <1>7 DEF SealedWith
<1>9. full => challenge = ChallengeOf(a, "relay")
  BY <1>1, <1>5 DEF SealedWith
<1>10. full \in BOOLEAN
  OBVIOUS
<1>11. /\ HonestProof(a) \notin {Absent, Torn} /\ ManifestOf(mem[a].proof) # Torn
       /\ c \notin {Absent, Torn} /\ ChallengeOf(a, "relay") # None
  <2> HIDE DEF b, c
  <2> QED
    BY <1>8 DEF RecordsAreNoMarks, HonestProof, ChallengeOf
<1>12. in[a].policy \in Policies /\ in[a].trace \in Traces
  <2>1. in[a] \in Inputs
    BY <1>1 DEF IInv, Kept
  <2> QED
    BY <2>1, DirectoryAssumption
<1>13. /\ Stamp(a) \notin {Absent, Torn} /\ in[a].policy # Absent /\ in[a].trace # Absent
  BY <1>12, Distinct DEF Stamp
<1>14. mem[a].proof = HonestProof(a)
  BY <1>7, <1>11 DEF HashOf
<1> HIDE DEF b, c, full
<1>15. /\ Hold(HashesAgree(c)) /\ Hold(HeaderBindsPayload(c)) /\ Hold(StatementBound(c))
       /\ ChallengeStatus(c, full) = "OK"
  BY <1>8, <1>9, <1>10, SealPasses
<1>16. /\ c.payload.proof = HonestProof(a) /\ c.payload.policy = in[a].policy
       /\ c.payload.anchor.ref = Stamp(a) /\ c.payload.rowRef = in[a].trace
       /\ c.payload.digest = in[a].trace /\ c.payload.handles = in[a].trace
       /\ c.header.instance = Instance(Statement(Held(a)), in[a].trace)
       /\ c.header.manifest = ManifestOf(mem[a].proof)
       /\ c.challenge = challenge
  BY <1>6, <1>7, <1>8, <1>14, SealSays
<1>17. Hold(PolicyChecks(b, c)) /\ Hold(ProofFileChecks(b, c))
  BY <1>7, <1>11, <1>13, <1>16, PolicyHolds, ProofFileHolds
<1>18. Hold(ManifestChecks(b, c)) /\ Hold(ArchiveChecks(b, c))
  BY <1>7, <1>13, <1>16, ManifestsHold, ArchiveHolds
<1>19. ProofVerifies(b.proof, c.header.instance) /\ b.index = c.header.manifest
  BY <1>7, <1>16 DEF ProofVerifies, HonestProof, ProofOf
<1>20. full => AuditStatus(c, b) = "OK"
  BY <1>7, <1>9, <1>11, <1>13, <1>16, AuditHolds
<1>21. AllHold(b, c, full, TRUE)
  BY <1>15, <1>17, <1>18, <1>19, <1>20 DEF AllHold
<1>22. b.index # Torn
  BY <1>7, <1>11
<1> QED
  BY <1>11, <1>21, <1>22, AcceptedMeans DEF b, c, full

\* A run that completed is accepted, whatever earlier attempts left behind.
THEOREM CompletedRunIsAccepted ==
  ASSUME RecordsAreNoMarks
  PROVE  Spec => []CompletedVerifies
BY DirectoryInvariant, CompletedHolds, PTL

LEMMA CopyHolds ==
  ASSUME RecordsAreNoMarks
  PROVE  IInv => CapAgrees
<1> SUFFICES ASSUME IInv, copy.kind = "emit", copy.pc = "done", steady,
                    NEW level \in {"proof_only", "full"}
             PROVE  /\ (CapCode(level) = "OK") = (DirCode(level) = "OK")
                    /\ (\E a \in Sealed : FilesOf(InPlace, a, level)) =>
                          CapCode(level) = DirCode(level)
  BY DEF CapAgrees
<1>1. Taken("done") = BundleFiles
  BY DEF Taken
<1>2. \A f \in BundleFiles : copy.files[f] = dir[f]
  BY <1>1 DEF IInv, Copying
<1>3. Copied = InPlace
  BY <1>2 DEF Copied, InPlace, BundleAt
<1>4. InPlace["proof"] # Torn => CapCode(level) = DirCode(level)
  BY <1>3 DEF CapCode, DirCode
<1>5. ASSUME InPlace["proof"] = Torn
      PROVE  CapCode(level) # "OK" /\ DirCode(level) # "OK"
  <2>1. CapCode(level) = "raises"
    BY <1>3, <1>5 DEF CapCode
  <2>2. ASSUME DirCode(level) = "OK"
        PROVE  FALSE
    <3>1. Accepted(InPlace, level, FALSE)
      BY <2>2 DEF Accepted, DirCode
    <3>2. AllHold(InPlace, InPlace.capsule, level = "full", FALSE)
      BY <3>1, AcceptedMeans
    <3>3. \E x : InPlace.proof = ProofOf(x)
      BY <3>2 DEF AllHold, ProofVerifies, ProofOf
    <3> QED
      BY <1>5, <3>3 DEF RecordsAreNoMarks
  <2> QED
    BY <2>1, <2>2
<1>6. ASSUME NEW a \in Sealed, FilesOf(InPlace, a, level)
      PROVE  InPlace["proof"] # Torn
  BY <1>6 DEF FilesOf, HonestProof, RecordsAreNoMarks
<1>7. (CapCode(level) = "OK") <=> (DirCode(level) = "OK")
  BY <1>4, <1>5
<1> QED
  BY <1>4, <1>6, <1>7

\* A .cap made while nothing changed is accepted exactly if the directory is.
THEOREM CapVerifiesAsDirectory ==
  ASSUME RecordsAreNoMarks
  PROVE  Spec => []CapAgrees
BY DirectoryInvariant, CopyHolds, PTL
=============================================================================

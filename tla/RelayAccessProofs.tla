------------------------- MODULE RelayAccessProofs -------------------------
(***************************************************************************)
(* Theorems about RelayAccess, for any number of runs, commits, answers    *)
(* and restarts: what an open socket and an answered challenge rest on.    *)
(***************************************************************************)
EXTENDS RelayAccess, FiniteSetTheorems, SequenceTheorems, TLAPS

Entry ==
       [kind : {"token"}, time : Nat, run : Runs, asked : {None, ShortTtl}]
  \cup [kind : {"ingest"}, time : Nat, run : Runs, token : Nat, ok : BOOLEAN]
  \cup [kind : {"read"}, time : Nat, client : Clients, ok : BOOLEAN]
  \cup [kind : {"commit"}, time : Nat, commit : Commits, record : Records]
  \cup [kind : {"challenge"}, time : Nat, commit : Commits, status : {200, 404, 503},
         record : Records \cup {None}, expires_at : Nat]
  \cup [kind : {"restart"}, time : Nat]

Token == [run : Runs, id : Nat, expires_at : Nat]
Commit == [record : Records, committed_at : Nat]

Typed ==
  /\ now \in Nat
  /\ journal \in Seq(Entry)
  /\ tokens \in [Runs -> Token \cup {None}]
  /\ commits \in [Commits -> Commit \cup {None}]

\* What this process has answered: the journal since the last restart.
Session == Since(Len(journal) + 1)

-----------------------------------------------------------------------------
(* Appending to the journal.                                               *)

LEMMA Appending ==
  ASSUME journal \in Seq(Entry), NEW entry \in Entry, Answer(entry)
  PROVE  /\ journal' \in Seq(Entry)
         /\ Len(journal) \in Nat
         /\ Len(journal') = Len(journal) + 1
         /\ DOMAIN journal = 1 .. Len(journal)
         /\ DOMAIN journal' = 1 .. Len(journal) + 1
         /\ \A i \in 1 .. Len(journal) : journal'[i] = journal[i]
         /\ journal'[Len(journal) + 1] = entry
BY DEF Answer

\* An answer changes nothing of what was said before.
LEMMA PastKept ==
  ASSUME journal \in Seq(Entry), NEW entry \in Entry, Answer(entry),
         NEW i \in 1 .. Len(journal) + 1
  PROVE  Since(i)' = Since(i)
<1>1. \A k \in 1 .. i - 1 : journal'[k] = journal[k]
  BY Appending
<1>2. \A j \in 1 .. i - 1 : \A k \in j .. i - 1 : k \in 1 .. i - 1
  BY Appending
<1> QED BY <1>1, <1>2 DEF Since

LEMMA SessionGrows ==
  ASSUME journal \in Seq(Entry), NEW entry \in Entry, Answer(entry)
  PROVE  /\ entry.kind # "restart" => Session' = Session \cup {Len(journal) + 1}
         /\ entry.kind = "restart" => Session' = {}
<1> DEFINE n == Len(journal) + 1
<1>1. /\ n \in Nat \ {0} /\ Len(journal') = n
      /\ journal'[n] = entry
      /\ \A k \in 1 .. n - 1 : journal'[k] = journal[k]
  BY Appending
<1>2. Session' = {j \in 1 .. n : \A k \in j .. n : journal'[k].kind # "restart"}
  BY <1>1 DEF Session, Since
<1>3. Session = {j \in 1 .. n - 1 : \A k \in j .. n - 1 : journal[k].kind # "restart"}
  BY DEF Session, Since
<1> HIDE DEF n
<1>4. ASSUME entry.kind = "restart" PROVE Session' = {}
  BY <1>1, <1>2, <1>4
<1>5. ASSUME entry.kind # "restart" PROVE Session' = Session \cup {n}
  <2>1. ASSUME NEW j \in 1 .. n - 1
        PROVE  j \in Session' <=> j \in Session
    <3>1. \A k \in j .. n : k = n \/ (k \in j .. n - 1 /\ k \in 1 .. n - 1)
      BY <1>1
    <3>2. \A k \in j .. n - 1 : k \in j .. n /\ k \in 1 .. n - 1
      BY <1>1
    <3> QED BY <1>1, <1>2, <1>3, <1>5, <3>1, <3>2
  <2>2. n \in Session'
    BY <1>1, <1>2, <1>5
  <2>3. Session' \subseteq 1 .. n /\ Session \subseteq 1 .. n - 1
    BY <1>2, <1>3
  <2>4. 1 .. n = (1 .. n - 1) \cup {n} /\ n \notin 1 .. n - 1
    BY <1>1
  <2> QED BY <2>1, <2>2, <2>3, <2>4, Zenon
<1> QED BY <1>4, <1>5 DEF n

-----------------------------------------------------------------------------
(* The tables agree with the journal.                                      *)

\* The token of a run is the last one issued for it in this session.
TokenOf(r, id) == id \in Session /\ journal[id].kind = "token" /\ journal[id].run = r

TokenRight(r) ==
  /\ tokens[r] = None => \A id \in Session : ~TokenOf(r, id)
  /\ tokens[r] # None =>
        /\ TokenOf(r, tokens[r].id)
        /\ \A id \in Session : TokenOf(r, id) => id <= tokens[r].id
        /\ tokens[r].expires_at = journal[tokens[r].id].time + Ttl(journal[tokens[r].id].asked)

TokensLatest == \A r \in Runs : TokenRight(r)

\* The record of a commit is what was registered for it last in this session.
CommitOf(h, j) == j \in Session /\ journal[j].kind = "commit" /\ journal[j].commit = h

CommitRight(h) ==
  /\ commits[h] = None => \A j \in Session : ~CommitOf(h, j)
  /\ commits[h] # None =>
        \E j \in Session : /\ CommitOf(h, j) /\ journal[j].record = commits[h].record
                           /\ \A k \in Session : CommitOf(h, k) => k <= j

CommitsKnown == \A h \in Commits : CommitRight(h)

Timed == \A i \in DOMAIN journal : journal[i].time <= now

\* A token that is presented was issued before.
Presented ==
  \A i \in DOMAIN journal :
    journal[i].kind = "ingest" =>
      journal[i].token \in 1 .. i - 1 /\ journal[journal[i].token].kind = "token"

AccessInv ==
  /\ Typed /\ Timed /\ Presented
  /\ TokensLatest /\ CommitsKnown
  /\ IngestByLatestToken /\ ChallengeAfterCommit

\* One clause of IngestByLatestToken and of ChallengeAfterCommit.
IngestRight(i) ==
  LET id == journal[i].token
      issue == journal[id]
      replaced == \E j \in Since(i) : j > id /\ journal[j].kind = "token"
                                      /\ journal[j].run = issue.run
      ttl == IF issue.asked = None THEN DefaultTtl ELSE issue.asked
  IN journal[i].ok <=> /\ id \in Since(i) /\ issue.run = journal[i].run
                       /\ ~replaced
                       /\ journal[i].time <= issue.time + ttl

ChallengeRight(i) ==
  /\ journal[i].status = 404 <=> Registered(i) = {}
  /\ journal[i].status = 200 =>
        \E j \in Registered(i) : /\ journal[j].record = journal[i].record
                                 /\ \A k \in Registered(i) : k <= j

LEMMA Clauses ==
  /\ IngestByLatestToken <=>
        \A i \in DOMAIN journal : journal[i].kind = "ingest" => IngestRight(i)
  /\ ChallengeAfterCommit <=>
        \A i \in DOMAIN journal : journal[i].kind = "challenge" => ChallengeRight(i)
BY DEF IngestByLatestToken, IngestRight, ChallengeAfterCommit, ChallengeRight

\* What was right stays right when the relay answers again.
LEMMA PastRight ==
  ASSUME journal \in Seq(Entry), Presented, NEW entry \in Entry, Answer(entry),
         NEW i \in 1 .. Len(journal)
  PROVE  /\ journal[i].kind = "ingest" => (IngestRight(i)' <=> IngestRight(i))
         /\ ChallengeRight(i)' <=> ChallengeRight(i)
<1>1. /\ Len(journal) \in Nat /\ DOMAIN journal = 1 .. Len(journal)
      /\ \A k \in 1 .. Len(journal) : journal'[k] = journal[k]
  BY Appending
<1>2. Since(i)' = Since(i) /\ Since(i) \subseteq 1 .. Len(journal)
  BY <1>1, PastKept DEF Since
<1>3. journal'[i] = journal[i] /\ \A j \in Since(i) : journal'[j] = journal[j]
  BY <1>1, <1>2
<1>4. ChallengeRight(i)' <=> ChallengeRight(i)
  <2>1. Registered(i)' = Registered(i) /\ Registered(i) \subseteq Since(i)
    BY <1>2, <1>3 DEF Registered
  <2> QED BY <1>3, <2>1 DEF ChallengeRight
<1>5. ASSUME journal[i].kind = "ingest" PROVE IngestRight(i)' <=> IngestRight(i)
  <2>1. journal[i].token \in 1 .. Len(journal)
    BY <1>1, <1>5 DEF Presented
  <2>2. journal'[journal[i].token] = journal[journal[i].token]
    BY <1>1, <2>1
  <2> QED BY <1>2, <1>3, <2>2 DEF IngestRight
<1> QED BY <1>4, <1>5

\* An answer that is right itself keeps what is said of all answers.
LEMMA AnswersRight ==
  ASSUME AccessInv, NEW entry \in Entry, Answer(entry), entry.time = now, now' = now,
         NEW n \in Nat, n = Len(journal) + 1,
         entry.kind = "ingest" => entry.token \in Issued /\ IngestRight(n)',
         entry.kind = "challenge" => ChallengeRight(n)'
  PROVE  Timed' /\ Presented' /\ IngestByLatestToken' /\ ChallengeAfterCommit'
<1>0. journal \in Seq(Entry) /\ now \in Nat
  BY DEF AccessInv, Typed
<1>1. /\ n \in Nat \ {0} /\ DOMAIN journal = 1 .. n - 1 /\ DOMAIN journal' = 1 .. n
      /\ journal'[n] = entry
      /\ \A k \in 1 .. n - 1 : journal'[k] = journal[k]
  BY <1>0, Appending
<1>2. \A i \in DOMAIN journal' : i = n \/ i \in DOMAIN journal
  BY <1>1
<1>3. Timed'
  BY <1>0, <1>1, <1>2 DEF Timed, AccessInv
<1>4. Presented'
  <2>1. ASSUME NEW i \in DOMAIN journal, journal[i].kind = "ingest"
        PROVE  /\ journal[i].token \in 1 .. i - 1
               /\ journal'[journal[i].token].kind = "token"
    BY <1>1, <2>1 DEF Presented, AccessInv
  <2>2. ASSUME entry.kind = "ingest"
        PROVE  entry.token \in 1 .. n - 1 /\ journal'[entry.token].kind = "token"
    BY <1>1, <2>2 DEF Issued
  <2> QED BY <1>1, <1>2, <2>1, <2>2 DEF Presented
<1>5. ASSUME NEW i \in DOMAIN journal
      PROVE  /\ journal'[i] = journal[i]
             /\ journal[i].kind = "ingest" => IngestRight(i)'
             /\ journal[i].kind = "challenge" => ChallengeRight(i)'
  BY <1>0, <1>1, Clauses, PastRight DEF AccessInv
<1>6. \A i \in DOMAIN journal' : journal'[i].kind = "ingest" => IngestRight(i)'
  BY <1>1, <1>2, <1>5
<1>7. \A i \in DOMAIN journal' : journal'[i].kind = "challenge" => ChallengeRight(i)'
  BY <1>1, <1>2, <1>5
<1>8. /\ IngestByLatestToken' <=>
            \A i \in DOMAIN journal' : journal'[i].kind = "ingest" => IngestRight(i)'
      /\ ChallengeAfterCommit' <=>
            \A i \in DOMAIN journal' : journal'[i].kind = "challenge" => ChallengeRight(i)'
  BY DEF IngestByLatestToken, IngestRight, ChallengeAfterCommit, ChallengeRight
<1> QED BY <1>3, <1>4, <1>6, <1>7, <1>8

LEMMA SessionKept ==
  ASSUME journal \in Seq(Entry), NEW entry \in Entry, Answer(entry), entry.kind # "restart"
  PROVE  /\ \A j : j \in Session' <=> j \in Session \/ j = Len(journal) + 1
         /\ \A j \in Session : j \in 1 .. Len(journal) /\ journal'[j] = journal[j]
         /\ journal'[Len(journal) + 1] = entry
         /\ Len(journal) \in Nat
<1>1. Session \subseteq 1 .. Len(journal)
  BY Appending DEF Session, Since
<1> QED BY <1>1, Appending, SessionGrows

LEMMA TokensKept ==
  ASSUME Typed, TokensLatest, NEW entry \in Entry, Answer(entry),
         entry.kind \notin {"token", "restart"}, tokens' = tokens
  PROVE  TokensLatest'
<1>1. /\ \A j : j \in Session' <=> j \in Session \/ j = Len(journal) + 1
      /\ \A j \in Session : journal'[j] = journal[j]
      /\ journal'[Len(journal) + 1].kind # "token"
  BY SessionKept DEF Typed
<1>2. \A r, id : TokenOf(r, id)' <=> TokenOf(r, id)
  BY <1>1 DEF TokenOf
<1>3. \A r \in Runs : tokens[r] # None => tokens[r].id \in Session
  BY DEF TokensLatest, TokenRight, TokenOf
<1> QED BY <1>1, <1>2, <1>3 DEF TokensLatest, TokenRight, TokenOf, Ttl

LEMMA CommitsKept ==
  ASSUME Typed, CommitsKnown, NEW entry \in Entry, Answer(entry),
         entry.kind \notin {"commit", "restart"}, commits' = commits
  PROVE  CommitsKnown'
<1>1. /\ \A j : j \in Session' <=> j \in Session \/ j = Len(journal) + 1
      /\ \A j \in Session : journal'[j] = journal[j]
      /\ journal'[Len(journal) + 1].kind # "commit"
  BY SessionKept DEF Typed
<1>2. \A h, j : CommitOf(h, j)' <=> CommitOf(h, j)
  BY <1>1 DEF CommitOf
<1> QED BY <1>1, <1>2 DEF CommitsKnown, CommitRight, CommitOf

-----------------------------------------------------------------------------
(* The steps.                                                              *)

LEMMA InitEstablishes == Init => AccessInv
<1> SUFFICES ASSUME Init PROVE AccessInv
  OBVIOUS
<1>1. journal = <<>> /\ DOMAIN journal = {} /\ Len(journal) = 0
  BY DEF Init
<1>2. Session = {}
  BY <1>1 DEF Session, Since
<1>3. Typed
  BY <1>1 DEF Init, Typed
<1>4. TokensLatest /\ CommitsKnown
  BY <1>2 DEF Init, TokensLatest, TokenRight, CommitsKnown, CommitRight, TokenOf
<1> QED BY <1>1, <1>3, <1>4
    DEF AccessInv, Timed, Presented, IngestByLatestToken, ChallengeAfterCommit

\* Steps that answer nothing.
LEMMA SilentKeeps ==
  ASSUME AccessInv, UNCHANGED <<tokens, commits, journal>>, now' \in {now, now + 1}
  PROVE  AccessInv'
<1>1. Typed' /\ Timed'
  <2>1. \A i \in DOMAIN journal : journal[i].time \in Nat
    BY DEF AccessInv, Typed, Entry
  <2> QED BY <2>1 DEF AccessInv, Typed, Timed
<1>2. Presented' /\ TokensLatest' /\ CommitsKnown'
  <2>1. Session' = Session
    BY DEF Session, Since
  <2> QED BY <2>1
      DEF AccessInv, Presented, TokensLatest, TokenRight, CommitsKnown, CommitRight, CommitOf,
          TokenOf, Ttl
<1>3. IngestByLatestToken' /\ ChallengeAfterCommit'
  BY DEF AccessInv, IngestByLatestToken, ChallengeAfterCommit, Registered, Since
<1> QED BY <1>1, <1>2, <1>3 DEF AccessInv

LEMMA TtlType ==
  ASSUME NEW ttl \in {None, ShortTtl}
  PROVE  /\ Ttl(ttl) \in Nat
         /\ Ttl(ttl) = IF ttl = None THEN DefaultTtl ELSE ttl
BY AccessAssumption DEF Ttl

LEMMA IssueTokenKeeps ==
  ASSUME AccessInv, NEW r \in Runs, NEW ttl \in {None, ShortTtl}, IssueToken(r, ttl)
  PROVE  AccessInv'
<1> DEFINE n == Len(journal) + 1
           entry == [kind |-> "token", time |-> now, run |-> r, asked |-> ttl]
           token == [run |-> r, id |-> n, expires_at |-> now + Ttl(ttl)]
<1>1. /\ Typed /\ TokensLatest /\ CommitsKnown
      /\ now \in Nat /\ journal \in Seq(Entry)
  BY DEF AccessInv, Typed
<1>2. entry \in Entry /\ Answer(entry) /\ now' = now /\ commits' = commits
  BY <1>1 DEF IssueToken, Entry
<1>3. n \in Nat
  BY <1>1
<1>4. token \in Token /\ token # None
  BY <1>1, <1>3, TtlType, AccessAssumption DEF Token
<1>5. tokens' = [tokens EXCEPT ![r] = token]
  BY DEF IssueToken
<1>6. Typed'
  <2>1. journal' \in Seq(Entry)
    BY <1>1, <1>2, Appending
  <2>2. tokens' \in [Runs -> Token \cup {None}]
    BY <1>1, <1>4, <1>5 DEF Typed
  <2> QED BY <1>1, <1>2, <2>1, <2>2 DEF Typed
<1>7. CommitsKnown'
  BY <1>1, <1>2, CommitsKept
<1>8. Timed' /\ Presented' /\ IngestByLatestToken' /\ ChallengeAfterCommit'
  BY <1>2, <1>3, AnswersRight
<1>9. TokensLatest'
  <2>1. /\ \A j : j \in Session' <=> j \in Session \/ j = n
        /\ \A j \in Session : j \in 1 .. Len(journal) /\ journal'[j] = journal[j]
        /\ journal'[n] = entry /\ Len(journal) \in Nat
    BY <1>1, <1>2, SessionKept
  <2> HIDE DEF n, entry, token
  <2>2. ASSUME NEW q \in Runs, q # r PROVE TokenRight(q)'
    <3>1. tokens'[q] = tokens[q]
      BY <1>1, <1>5, <2>2 DEF Typed
    <3>2. TokenRight(q)
      BY <1>1 DEF TokensLatest
    <3>3. entry.run = r
      BY DEF entry
    <3>4. tokens[q] # None => tokens[q].id \in Session
      BY <3>2 DEF TokenRight, TokenOf
    <3>5. \A id : TokenOf(q, id)' <=> TokenOf(q, id)
      BY <2>1, <2>2, <3>3 DEF TokenOf
    <3>6. \A id \in Session' : TokenOf(q, id) => id \in Session
      BY DEF TokenOf
    <3> QED BY <2>1, <3>1, <3>2, <3>4, <3>5, <3>6 DEF TokenRight, TokenOf
  <2>3. TokenRight(r)'
    <3>1. tokens'[r] = token
      BY <1>1, <1>5 DEF Typed
    <3>2. \A id \in Session' : id <= n
      BY <1>3, <2>1 DEF n
    <3>3. /\ token # None /\ token.id = n /\ token.expires_at = now + Ttl(ttl)
          /\ entry.kind = "token" /\ entry.run = r /\ entry.time = now /\ entry.asked = ttl
      BY <1>4 DEF token, entry
    <3> QED BY <2>1, <3>1, <3>2, <3>3 DEF TokenRight, TokenOf
  <2> QED BY <2>2, <2>3 DEF TokensLatest
<1> QED BY <1>6, <1>7, <1>8, <1>9 DEF AccessInv

LEMMA PresentKeeps ==
  ASSUME AccessInv, NEW r \in Runs, NEW id \in Issued, Present(r, id)
  PROVE  AccessInv'
<1>0. journal \in Seq(Entry) /\ Len(journal) \in Nat
  BY DEF AccessInv, Typed
<1> PICK n \in Nat : n = Len(journal) + 1
  BY <1>0
<1> DEFINE entry == [kind |-> "ingest", time |-> now, run |-> r, token |-> id,
                     ok |-> TokenValid(r, id)]
<1>1. /\ Typed /\ TokensLatest /\ CommitsKnown /\ Timed
      /\ now \in Nat /\ journal \in Seq(Entry) /\ n \in Nat
      /\ DOMAIN journal = 1 .. Len(journal) /\ Len(journal) \in Nat
  BY <1>0 DEF AccessInv, Typed
<1>2. id \in 1 .. Len(journal) /\ journal[id].kind = "token"
  BY <1>1 DEF Issued
<1>3. entry \in Entry /\ Answer(entry)
  BY <1>1, <1>2 DEF Present, Entry, TokenValid
<1>4. now' = now /\ tokens' = tokens /\ commits' = commits
  BY DEF Present
<1>5. Typed' /\ TokensLatest' /\ CommitsKnown'
  BY <1>1, <1>3, <1>4, Appending, TokensKept, CommitsKept DEF Typed
<1>6. IngestRight(n)'
  <2>1. /\ Since(n)' = Session /\ Session \subseteq 1 .. Len(journal)
        /\ journal'[n] = entry
        /\ \A j \in 1 .. Len(journal) : journal'[j] = journal[j]
    <3>1. Since(n)' = Since(n)
      BY <1>1, <1>3, PastKept
    <3> QED BY <1>1, <1>3, <3>1, Appending DEF Session, Since
  <2> DEFINE issue == journal[id]
             replaced == \E j \in Session : j > id /\ TokenOf(issue.run, j)
             lasts == IF issue.asked = None THEN DefaultTtl ELSE issue.asked
  <2>2. /\ issue \in [kind : {"token"}, time : Nat, run : Runs, asked : {None, ShortTtl}]
        /\ lasts = Ttl(issue.asked) /\ lasts \in Nat
    BY <1>1, <1>2, TtlType DEF Entry
  <2>3. TokenRight(r)
    BY <1>1 DEF TokensLatest
  <2>4. ASSUME TokenValid(r, id)
        PROVE  id \in Session /\ issue.run = r /\ ~replaced /\ now <= issue.time + lasts
    BY <1>1, <1>2, <2>1, <2>2, <2>3, <2>4 DEF TokenValid, TokenRight, TokenOf
  <2>5. ASSUME id \in Session, issue.run = r, ~replaced, now <= issue.time + lasts
        PROVE  TokenValid(r, id)
    <3>1. TokenOf(r, id)
      BY <1>2, <2>5 DEF TokenOf
    <3>2. tokens[r] # None
      BY <2>3, <2>5, <3>1 DEF TokenRight
    <3>3. /\ tokens[r].id \in Session /\ TokenOf(r, tokens[r].id) /\ id <= tokens[r].id
          /\ tokens[r].expires_at = journal[tokens[r].id].time
                                       + Ttl(journal[tokens[r].id].asked)
      BY <2>3, <2>5, <3>1, <3>2 DEF TokenRight, TokenOf
    <3>4. tokens[r].id = id
      BY <1>2, <2>1, <2>5, <3>3
    <3> QED BY <2>2, <2>5, <3>2, <3>3, <3>4 DEF TokenValid
  <2>6. entry.token = id /\ entry.run = r /\ entry.time = now /\ entry.kind = "ingest"
        /\ entry.ok = TokenValid(r, id)
    OBVIOUS
  <2>7. journal'[id] = issue
    BY <1>2, <2>1
  <2>8. (\E j \in Session : j > id /\ journal'[j].kind = "token"
                             /\ journal'[j].run = issue.run) <=> replaced
    BY <2>1 DEF TokenOf
  <2> HIDE DEF entry, issue, replaced
  <2> QED BY <2>1, <2>4, <2>5, <2>6, <2>7, <2>8 DEF IngestRight
<1>7. entry.time = now /\ entry.kind = "ingest" /\ entry.token = id
  OBVIOUS
<1>8. Timed' /\ Presented' /\ IngestByLatestToken' /\ ChallengeAfterCommit'
  BY <1>1, <1>3, <1>4, <1>6, <1>7, AnswersRight
<1> QED BY <1>5, <1>8 DEF AccessInv

LEMMA ReadKeeps ==
  ASSUME AccessInv, NEW c \in Clients, Read(c)
  PROVE  AccessInv'
<1> DEFINE entry == [kind |-> "read", time |-> now, client |-> c,
                     ok |-> Len(Recent(windows[c])) < RateMax]
<1>1. /\ Typed /\ TokensLatest /\ CommitsKnown
      /\ now \in Nat /\ journal \in Seq(Entry) /\ Len(journal) + 1 \in Nat
  BY DEF AccessInv, Typed
<1>2. Answer(entry) /\ now' = now /\ tokens' = tokens /\ commits' = commits
  BY DEF Read
<1>3. entry \in Entry
  BY <1>1 DEF Entry
<1>4. entry.time = now /\ entry.kind = "read"
  OBVIOUS
<1> HIDE DEF entry
<1>5. Typed' /\ TokensLatest' /\ CommitsKnown'
  BY <1>1, <1>2, <1>3, <1>4, Appending, TokensKept, CommitsKept DEF Typed
<1>6. PICK n \in Nat : n = Len(journal) + 1
  BY <1>1
<1>7. Timed' /\ Presented' /\ IngestByLatestToken' /\ ChallengeAfterCommit'
  BY <1>2, <1>3, <1>4, <1>6, AnswersRight
<1> QED BY <1>5, <1>7 DEF AccessInv

LEMMA RegisterCommitKeeps ==
  ASSUME AccessInv, NEW h \in Commits, NEW d \in Records, RegisterCommit(h, d)
  PROVE  AccessInv'
<1> DEFINE entry == [kind |-> "commit", time |-> now, commit |-> h, record |-> d]
           commit == [record |-> d, committed_at |-> now]
<1>1. /\ Typed /\ TokensLatest /\ CommitsKnown
      /\ now \in Nat /\ journal \in Seq(Entry) /\ Len(journal) + 1 \in Nat
  BY DEF AccessInv, Typed
<1>2. entry \in Entry /\ Answer(entry) /\ now' = now /\ tokens' = tokens
  BY <1>1 DEF RegisterCommit, Entry
<1>3. /\ entry.time = now /\ entry.kind = "commit" /\ entry.commit = h /\ entry.record = d
      /\ commit \in Commit /\ commit.record = d
  BY <1>1 DEF Commit
<1>4. commits' = [commits EXCEPT ![h] = commit] /\ commit # None
  BY <1>1, AccessAssumption DEF RegisterCommit
<1> HIDE DEF entry, commit
<1>5. /\ commits' \in [Commits -> Commit \cup {None}]
      /\ commits'[h] = commit
      /\ \A g \in Commits : g # h => commits'[g] = commits[g]
  BY <1>1, <1>3, <1>4 DEF Typed
<1>6. Typed' /\ TokensLatest'
  BY <1>1, <1>2, <1>3, <1>5, Appending, TokensKept DEF Typed
<1>7. PICK n \in Nat : n = Len(journal) + 1
  BY <1>1
<1>8. CommitsKnown'
  <2>1. /\ \A j : j \in Session' <=> j \in Session \/ j = n
        /\ \A j \in Session : j \in 1 .. Len(journal) /\ journal'[j] = journal[j]
        /\ journal'[n] = entry /\ Len(journal) \in Nat
    BY <1>1, <1>2, <1>3, <1>7, SessionKept
  <2>2. ASSUME NEW g \in Commits, g # h PROVE CommitRight(g)'
    <3>1. \A j : CommitOf(g, j)' <=> CommitOf(g, j)
      BY <1>3, <2>1, <2>2 DEF CommitOf
    <3>2. CommitRight(g) /\ commits'[g] = commits[g]
      BY <1>1, <1>5, <2>2 DEF CommitsKnown
    <3> QED BY <2>1, <3>1, <3>2 DEF CommitRight, CommitOf
  <2>3. CommitRight(h)'
    <3>1. CommitOf(h, n)' /\ journal'[n].record = commits'[h].record
      BY <1>3, <1>5, <2>1 DEF CommitOf
    <3>2. \A k \in Session' : k <= n
      BY <1>7, <2>1
    <3> QED BY <1>4, <1>5, <2>1, <3>1, <3>2 DEF CommitRight
  <2> QED BY <2>2, <2>3 DEF CommitsKnown
<1>9. Timed' /\ Presented' /\ IngestByLatestToken' /\ ChallengeAfterCommit'
  BY <1>2, <1>3, <1>7, AnswersRight
<1> QED BY <1>6, <1>8, <1>9 DEF AccessInv

LEMMA IssueChallengeKeeps ==
  ASSUME AccessInv, NEW h \in Commits, IssueChallenge(h)
  PROVE  AccessInv'
<1> DEFINE record == IF ChallengeStatus(h) = 200 THEN commits[h].record ELSE None
           entry == [kind |-> "challenge", time |-> now, commit |-> h,
                     status |-> ChallengeStatus(h), record |-> record,
                     expires_at |-> now + Lifetime]
<1>1. /\ Typed /\ TokensLatest /\ CommitsKnown
      /\ now \in Nat /\ journal \in Seq(Entry) /\ Len(journal) + 1 \in Nat
  BY DEF AccessInv, Typed
<1>2. Answer(entry) /\ now' = now /\ tokens' = tokens /\ commits' = commits
  BY DEF IssueChallenge
<1>3. /\ ChallengeStatus(h) \in {200, 404, 503}
      /\ ChallengeStatus(h) = 404 <=> commits[h] = None
      /\ ChallengeStatus(h) = 200 => commits[h] # None
  BY DEF ChallengeStatus
<1>4. entry \in Entry
  <2>1. record \in Records \cup {None}
    BY <1>1, <1>3 DEF Typed, Commit
  <2>2. now + Lifetime \in Nat
    BY <1>1, AccessAssumption
  <2> HIDE DEF record
  <2> QED BY <1>1, <1>3, <2>1, <2>2 DEF Entry
<1>5. /\ entry.time = now /\ entry.kind = "challenge" /\ entry.commit = h
      /\ entry.status = ChallengeStatus(h)
      /\ ChallengeStatus(h) = 200 => entry.record = commits[h].record
  OBVIOUS
<1> HIDE DEF entry
<1>6. Typed' /\ TokensLatest' /\ CommitsKnown'
  BY <1>1, <1>2, <1>4, <1>5, Appending, TokensKept, CommitsKept DEF Typed
<1>7. PICK n \in Nat : n = Len(journal) + 1
  BY <1>1
<1>8. ChallengeRight(n)'
  <2>1. Since(n)' = Since(n)
    BY <1>1, <1>2, <1>4, <1>7, PastKept
  <2>2. /\ Since(n)' = Session /\ Session \subseteq DOMAIN journal
        /\ journal'[n] = entry
        /\ \A j \in Session : journal'[j] = journal[j]
    BY <1>1, <1>2, <1>4, <1>7, <2>1, Appending DEF Session, Since
  <2>3. \A j : j \in Registered(n)' <=> CommitOf(h, j)
    BY <1>5, <2>2 DEF Registered, CommitOf
  <2>4. CommitRight(h)
    BY <1>1 DEF CommitsKnown
  <2>5. Registered(n)' = {} <=> commits[h] = None
    BY <2>3, <2>4 DEF CommitRight, CommitOf
  <2>6. ASSUME ChallengeStatus(h) = 200
        PROVE  \E j \in Registered(n)' : /\ journal'[j].record = commits[h].record
                                         /\ \A k \in Registered(n)' : k <= j
    <3>1. PICK j \in Session : /\ CommitOf(h, j) /\ journal[j].record = commits[h].record
                               /\ \A k \in Session : CommitOf(h, k) => k <= j
      BY <1>3, <2>4, <2>6 DEF CommitRight
    <3>2. \A k \in Registered(n)' : k \in Session
      BY <2>3 DEF CommitOf
    <3> QED BY <2>2, <2>3, <3>1, <3>2
  <2> QED BY <1>3, <1>5, <2>2, <2>5, <2>6 DEF ChallengeRight
<1>9. Timed' /\ Presented' /\ IngestByLatestToken' /\ ChallengeAfterCommit'
  BY <1>2, <1>4, <1>5, <1>7, <1>8, AnswersRight
<1> QED BY <1>6, <1>9 DEF AccessInv

LEMMA RestartKeeps ==
  ASSUME AccessInv, Restart
  PROVE  AccessInv'
<1> DEFINE entry == [kind |-> "restart", time |-> now]
<1>1. now \in Nat /\ journal \in Seq(Entry) /\ Len(journal) + 1 \in Nat
  BY DEF AccessInv, Typed
<1>2. entry \in Entry /\ Answer(entry) /\ now' = now
  BY <1>1 DEF Restart, Entry
<1>3. entry.time = now /\ entry.kind = "restart"
  OBVIOUS
<1> HIDE DEF entry
<1>4. Session' = {}
  BY <1>1, <1>2, <1>3, SessionGrows
<1>5. Typed'
  BY <1>1, <1>2, Appending DEF Typed, Restart
<1>6. TokensLatest' /\ CommitsKnown'
  BY <1>4 DEF TokensLatest, TokenRight, CommitsKnown, CommitRight, Restart
<1>7. PICK n \in Nat : n = Len(journal) + 1
  BY <1>1
<1>8. Timed' /\ Presented' /\ IngestByLatestToken' /\ ChallengeAfterCommit'
  BY <1>2, <1>3, <1>7, AnswersRight
<1> QED BY <1>5, <1>6, <1>8 DEF AccessInv

\* The tables agree with the journal in every reachable state.
THEOREM AccessInvariant == Spec => []AccessInv
<1>1. ASSUME AccessInv, [Next]_vars PROVE AccessInv'
  <2>1. CASE Tick
    BY <1>1, <2>1, SilentKeeps DEF Tick
  <2>2. CASE \E r \in Runs, ttl \in {None, ShortTtl} : IssueToken(r, ttl)
    BY <1>1, <2>2, IssueTokenKeeps
  <2>3. CASE \E r \in Runs, id \in Issued : Present(r, id)
    BY <1>1, <2>3, PresentKeeps
  <2>4. CASE \E id \in Issued : AcceptSocket(id) \/ CloseSocket(id)
    BY <1>1, <2>4, SilentKeeps DEF AcceptSocket, CloseSocket
  <2>5. CASE \E c \in Clients : Read(c)
    BY <1>1, <2>5, ReadKeeps
  <2>6. CASE \E h \in Commits : IssueChallenge(h) \/ \E d \in Records : RegisterCommit(h, d)
    BY <1>1, <2>6, RegisterCommitKeeps, IssueChallengeKeeps
  <2>7. CASE Restart
    BY <1>1, <2>7, RestartKeeps
  <2>8. CASE UNCHANGED vars
    BY <1>1, <2>8, SilentKeeps DEF vars
  <2> QED BY <1>1, <2>1, <2>2, <2>3, <2>4, <2>5, <2>6, <2>7, <2>8 DEF Next
<1> QED BY <1>1, InitEstablishes, PTL DEF Spec

\* A socket is opened exactly for the latest unexpired token of its run
\* (_validate_ingest_token), for any number of runs, tokens and restarts.
THEOREM SocketsByLatestToken == Spec => []IngestByLatestToken
<1>1. AccessInv => IngestByLatestToken
  BY DEF AccessInv
<1> QED BY <1>1, AccessInvariant, PTL

\* A challenge is refused as unknown exactly for a commit that was not registered
\* since the last restart, and carries what was registered last (issue_da_challenge),
\* for any number of commits, registrations, challenges and restarts.
THEOREM ChallengesAfterCommits == Spec => []ChallengeAfterCommit
<1>1. AccessInv => ChallengeAfterCommit
  BY DEF AccessInv
<1> QED BY <1>1, AccessInvariant, PTL

-----------------------------------------------------------------------------
(* The rate limit.                                                         *)

\* A request of the client that was let through.
LetIn(c, j) ==
  journal[j].kind = "read" /\ journal[j].client = c /\ journal[j].ok

\* f finds the requests of a window in the journal: different entries of this
\* session, among them every one that is not older than RateWindow.
Finds(c, window, f) ==
  /\ f \in [DOMAIN window -> Session]
  /\ \A i \in DOMAIN window : LetIn(c, f[i]) /\ journal[f[i]].time = window[i]
  /\ \A i, j \in DOMAIN window : f[i] = f[j] => i = j
  /\ \A j \in Session :
         LetIn(c, j) /\ journal[j].time + RateWindow >= now
            => \E i \in DOMAIN window : f[i] = j

Ordered(window) == \A j \in DOMAIN window : \A i \in 1 .. j : window[i] <= window[j]

Tracked(c) ==
  /\ windows[c] \in Seq(0 .. now)
  /\ Ordered(windows[c])
  /\ \E f : Finds(c, windows[c], f)

\* One clause of RateLimitExact.
RateRight(i) == journal[i].ok <=> Cardinality(LetThrough(i)) < RateMax

RateInv ==
  /\ windows \in [Clients -> Seq(Nat)]
  /\ \A c \in Clients : Tracked(c)
  /\ \A i \in DOMAIN journal : journal[i].kind = "read" => RateRight(i)

\* popleft stops at a place that parts the old requests from those that are not.
LEMMA RecentIsTail ==
  ASSUME now \in Nat, NEW window \in Seq(0 .. now), Ordered(window)
  PROVE  \E m \in 1 .. Len(window) + 1 :
            /\ Recent(window) = SubSeq(window, m, Len(window))
            /\ \A i \in 1 .. Len(window) : i >= m <=> window[i] + RateWindow >= now
<1> DEFINE fresh == {i \in DOMAIN window : now - window[i] <= RateWindow}
           places == fresh \cup {Len(window) + 1}
<1>1. /\ Len(window) \in Nat /\ DOMAIN window = 1 .. Len(window)
      /\ \A i \in 1 .. Len(window) : window[i] \in 0 .. now
      /\ RateWindow \in Nat
  BY AccessAssumption
<1>2. places \subseteq Nat /\ places \subseteq 1 .. Len(window) + 1 /\ places # {}
  BY <1>1
<1>3. PICK m \in places : \A i \in places : m <= i
  <2> HIDE DEF places
  <2>1. PICK m \in places : \A i \in places : <<i, m>> \notin OpToRel(<, Nat)
    BY <1>2, NatLessThanWellFounded, WFMin
  <2>2. \A i \in places : m \in Nat /\ i \in Nat /\ ~ (i < m)
    BY <1>2, <2>1 DEF OpToRel
  <2> QED BY <2>2
<1>4. m = Min(places)
  <2> HIDE DEF places
  <2>1. \A x \in places : (\A i \in places : x <= i) => x = m
    BY <1>2, <1>3
  <2> QED BY <1>3, <2>1 DEF Min
<1>5. \A i \in 1 .. Len(window) : now - window[i] <= RateWindow <=> window[i] + RateWindow >= now
  BY <1>1
<1>6. ASSUME NEW i \in 1 .. Len(window)
      PROVE  i >= m <=> window[i] + RateWindow >= now
  <2>1. window[i] + RateWindow >= now => i \in places
    BY <1>1, <1>5
  <2>2. CASE i >= m
    <3>1. m \in fresh /\ m \in 1 .. i
      BY <1>1, <1>2, <2>2
    <3>2. window[m] <= window[i] /\ window[m] + RateWindow >= now
      BY <1>1, <1>5, <3>1 DEF Ordered
    <3> QED BY <1>1, <2>2, <3>1, <3>2
  <2> QED BY <1>2, <1>3, <2>1, <2>2
<1>7. Recent(window) = SubSeq(window, m, Len(window))
  BY <1>4 DEF Recent
<1> QED BY <1>2, <1>6, <1>7

\* What was right stays right when the relay answers again.
LEMMA PastRateRight ==
  ASSUME journal \in Seq(Entry), NEW entry \in Entry, Answer(entry),
         NEW i \in 1 .. Len(journal)
  PROVE  RateRight(i)' <=> RateRight(i)
<1>1. /\ Len(journal) \in Nat /\ DOMAIN journal = 1 .. Len(journal)
      /\ \A k \in 1 .. Len(journal) : journal'[k] = journal[k]
  BY Appending
<1>2. Since(i)' = Since(i) /\ Since(i) \subseteq 1 .. Len(journal)
  BY <1>1, PastKept DEF Since
<1>3. journal'[i] = journal[i] /\ \A j \in Since(i) : journal'[j] = journal[j]
  BY <1>1, <1>2
<1>4. LetThrough(i)' = LetThrough(i)
  BY <1>2, <1>3 DEF LetThrough
<1> QED BY <1>3, <1>4 DEF RateRight

LEMMA AnswersRateRight ==
  ASSUME journal \in Seq(Entry), RateInv, NEW entry \in Entry, Answer(entry),
         NEW n \in Nat, n = Len(journal) + 1, entry.kind = "read" => RateRight(n)'
  PROVE  \A i \in DOMAIN journal' : journal'[i].kind = "read" => RateRight(i)'
<1>1. /\ DOMAIN journal = 1 .. n - 1 /\ DOMAIN journal' = 1 .. n /\ journal'[n] = entry
      /\ \A k \in 1 .. n - 1 : journal'[k] = journal[k]
  BY Appending
<1> SUFFICES ASSUME NEW i \in 1 .. n, journal'[i].kind = "read" PROVE RateRight(i)'
  BY <1>1
<1>2. CASE i = n
  BY <1>1, <1>2
<1>3. CASE i # n
  <2>1. i \in 1 .. Len(journal) /\ journal[i].kind = "read"
    BY <1>1, <1>3
  <2>2. RateRight(i)
    BY <1>1, <2>1 DEF RateInv
  <2> QED BY <2>1, <2>2, PastRateRight
<1> QED BY <1>2, <1>3

\* What is found for a client stays found if the answer lets no request of its in.
LEMMA FoundKept ==
  ASSUME journal \in Seq(Entry), NEW entry \in Entry, Answer(entry),
         entry.kind # "restart", now' = now, NEW c, NEW window, NEW f, Finds(c, window, f),
         ~ (entry.kind = "read" /\ entry.client = c /\ entry.ok)
  PROVE  Finds(c, window, f)'
<1>1. /\ \A j : j \in Session' <=> j \in Session \/ j = Len(journal) + 1
      /\ \A j \in Session : journal'[j] = journal[j]
      /\ journal'[Len(journal) + 1] = entry
  BY SessionKept
<1>2. \A j \in Session : LetIn(c, j)' <=> LetIn(c, j)
  BY <1>1 DEF LetIn
<1>3. \A j \in Session' : LetIn(c, j)' => j \in Session
  BY <1>1 DEF LetIn
<1>4. f \in [DOMAIN window -> Session'] /\ \A i \in DOMAIN window : f[i] \in Session
  BY <1>1 DEF Finds
<1> QED BY <1>1, <1>2, <1>3, <1>4 DEF Finds

LEMMA TrackedKept ==
  ASSUME journal \in Seq(Entry), NEW entry \in Entry, Answer(entry),
         entry.kind # "restart", now' = now, NEW c, Tracked(c), windows'[c] = windows[c],
         ~ (entry.kind = "read" /\ entry.client = c /\ entry.ok)
  PROVE  Tracked(c)'
<1>1. PICK w : w = windows[c]
  OBVIOUS
<1>2. PICK f : Finds(c, w, f)
  BY <1>1 DEF Tracked
<1>3. Finds(c, w, f)'
  BY <1>2, FoundKept
<1>4. w = windows'[c] /\ w \in Seq(0 .. now') /\ Ordered(w)
  BY <1>1 DEF Tracked
<1> QED BY <1>3, <1>4 DEF Tracked

LEMMA RateSilent ==
  ASSUME AccessInv, RateInv, UNCHANGED <<windows, journal>>, now' \in {now, now + 1}
  PROVE  RateInv'
<1>1. now \in Nat /\ now <= now' /\ now' \in Nat /\ RateWindow \in Nat
  BY AccessAssumption DEF AccessInv, Typed
<1>2. Session' = Session
  BY DEF Session, Since
<1>3. \A j \in Session : journal[j].time \in Nat
  BY DEF AccessInv, Typed, Session, Since, Entry
<1>4. ASSUME NEW c \in Clients PROVE Tracked(c)'
  <2>1. Tracked(c)
    BY DEF RateInv
  <2>2. PICK f : Finds(c, windows[c], f)
    BY <2>1 DEF Tracked
  <2>3. \A j \in Session : journal[j].time + RateWindow >= now'
                               => journal[j].time + RateWindow >= now
    BY <1>1, <1>3
  <2>4. Finds(c, windows[c], f)'
    BY <1>2, <2>2, <2>3 DEF Finds, LetIn
  <2>5. windows[c] \in Seq(0 .. now')
    <3>1. 0 .. now \subseteq 0 .. now'
      BY <1>1
    <3> QED BY <2>1, <3>1, SeqMonotonic DEF Tracked
  <2> QED BY <2>1, <2>4, <2>5 DEF Tracked
<1>5. \A i \in DOMAIN journal : RateRight(i)' <=> RateRight(i)
  BY DEF RateRight, LetThrough, Since
<1> QED BY <1>4, <1>5 DEF RateInv

LEMMA RateAnswered ==
  ASSUME AccessInv, RateInv, NEW entry \in Entry, Answer(entry), now' = now,
         windows' = windows, entry.kind \notin {"restart", "read"}
  PROVE  RateInv'
<1>1. journal \in Seq(Entry) /\ Len(journal) + 1 \in Nat /\ now \in Nat
  BY DEF AccessInv, Typed
<1>2. PICK n \in Nat : n = Len(journal) + 1
  BY <1>1
<1>3. \A c \in Clients : Tracked(c)'
  BY <1>1, TrackedKept DEF RateInv
<1>4. \A i \in DOMAIN journal' : journal'[i].kind = "read" => RateRight(i)'
  BY <1>1, <1>2, AnswersRateRight
<1> QED BY <1>3, <1>4 DEF RateInv

LEMMA RateRestart ==
  ASSUME AccessInv, RateInv, Restart
  PROVE  RateInv'
<1> DEFINE entry == [kind |-> "restart", time |-> now]
<1>1. now \in Nat /\ journal \in Seq(Entry) /\ Len(journal) + 1 \in Nat
  BY DEF AccessInv, Typed
<1>2. entry \in Entry /\ Answer(entry) /\ entry.kind = "restart"
  BY <1>1 DEF Restart, Entry
<1> HIDE DEF entry
<1>3. Session' = {}
  BY <1>1, <1>2, SessionGrows
<1>4. windows' = [c \in Clients |-> <<>>] /\ now' = now
  BY DEF Restart
<1>5. ASSUME NEW c \in Clients PROVE Tracked(c)'
  <2>1. windows'[c] = <<>> /\ DOMAIN windows'[c] = {} /\ windows'[c] \in Seq(0 .. now')
    BY <1>4
  <2>2. PICK f : f = [i \in {} |-> 0]
    OBVIOUS
  <2>3. f \in [{} -> Session']
    BY <2>2
  <2>4. Finds(c, windows[c], f)'
    BY <1>3, <2>1, <2>3 DEF Finds
  <2> QED BY <2>1, <2>4 DEF Tracked, Ordered
<1>6. PICK n \in Nat : n = Len(journal) + 1
  BY <1>1
<1>7. \A i \in DOMAIN journal' : journal'[i].kind = "read" => RateRight(i)'
  BY <1>1, <1>2, <1>6, AnswersRateRight
<1>8. windows' \in [Clients -> Seq(Nat)]
  BY <1>4
<1> QED BY <1>5, <1>7, <1>8 DEF RateInv

\* What popleft leaves of a window: nothing that still counts is lost.
LEMMA TailFound ==
  ASSUME AccessInv, NEW c, NEW w \in Seq(0 .. now), Ordered(w), NEW f, Finds(c, w, f)
  PROVE  /\ Recent(w) \in Seq(0 .. now) /\ Ordered(Recent(w))
         /\ \A i \in DOMAIN Recent(w) : Recent(w)[i] + RateWindow >= now
         /\ \E g : Finds(c, Recent(w), g)
<1>0. now \in Nat /\ Len(w) \in Nat /\ DOMAIN w = 1 .. Len(w)
  BY DEF AccessInv, Typed
<1>1. PICK m \in 1 .. Len(w) + 1 :
            /\ Recent(w) = SubSeq(w, m, Len(w))
            /\ \A i \in 1 .. Len(w) : i >= m <=> w[i] + RateWindow >= now
  BY <1>0, RecentIsTail
<1>2. PICK left : left = Recent(w)
  OBVIOUS
<1>3. PICK k \in Nat : k = Len(w) - m + 1
  <2>1. m \in Nat /\ m <= Len(w) + 1
    BY <1>0
  <2>2. Len(w) - m + 1 \in Nat
    BY <1>0, <2>1
  <2> QED BY <2>2
<1>4. /\ left \in Seq(0 .. now) /\ Len(left) = k
      /\ \A i \in 1 .. k : left[i] = w[m + i - 1]
  <2>1. \A i \in m .. Len(w) : w[i] \in 0 .. now
    BY <1>0
  <2>2. m \in Int /\ Len(w) \in Int
    BY <1>0
  <2>3. /\ left \in Seq(0 .. now) /\ Len(left) = IF m <= Len(w) THEN k ELSE 0
        /\ \A i \in 1 .. k : left[i] = w[m + i - 1]
    BY <1>1, <1>2, <1>3, <2>1, <2>2, SubSeqProperties
  <2> QED BY <1>0, <1>3, <2>3
<1>5. DOMAIN left = 1 .. k
  BY <1>4
<1>6. \A i \in 1 .. k : m + i - 1 \in 1 .. Len(w) /\ m + i - 1 >= m
  BY <1>0, <1>3
<1>7. Ordered(left)
  <2> SUFFICES ASSUME NEW j \in 1 .. k, NEW i \in 1 .. j PROVE left[i] <= left[j]
    BY <1>5 DEF Ordered
  <2>1. i \in 1 .. k /\ m + i - 1 \in 1 .. (m + j - 1)
    BY <1>0
  <2>2. w[m + i - 1] <= w[m + j - 1]
    BY <1>0, <1>6, <2>1 DEF Ordered
  <2> QED BY <1>4, <2>1, <2>2
<1>8. \A i \in 1 .. k : left[i] + RateWindow >= now
  BY <1>1, <1>4, <1>6
<1>9. PICK g : g = [i \in 1 .. k |-> f[m + i - 1]]
  OBVIOUS
<1>10. Finds(c, left, g)
  <2>0. /\ \A i \in 1 .. Len(w) : /\ f[i] \in Session /\ LetIn(c, f[i])
                                  /\ journal[f[i]].time = w[i]
        /\ \A i, j \in 1 .. Len(w) : f[i] = f[j] => i = j
    BY <1>0 DEF Finds
  <2>1. g \in [1 .. k -> Session] /\ \A i \in 1 .. k : g[i] = f[m + i - 1]
    BY <1>6, <1>9, <2>0
  <2>2. ASSUME NEW i \in 1 .. k
        PROVE  LetIn(c, g[i]) /\ journal[g[i]].time = left[i]
    <3>1. PICK p \in 1 .. Len(w) : p = m + i - 1
      BY <1>6
    <3>2. g[i] = f[p] /\ left[i] = w[p]
      BY <1>4, <2>1, <3>1
    <3> QED BY <2>0, <3>1, <3>2
  <2>3. ASSUME NEW i \in 1 .. k, NEW j \in 1 .. k, g[i] = g[j] PROVE i = j
    <3>1. PICK p \in 1 .. Len(w), q \in 1 .. Len(w) : p = m + i - 1 /\ q = m + j - 1
      BY <1>6
    <3>2. f[p] = f[q]
      BY <2>1, <2>3, <3>1
    <3>3. p = q
      BY <2>0, <3>2
    <3> QED BY <1>0, <3>1, <3>3
  <2>4. ASSUME NEW j \in Session, LetIn(c, j), journal[j].time + RateWindow >= now
        PROVE  \E i \in 1 .. k : g[i] = j
    <3>1. PICK i \in 1 .. Len(w) : f[i] = j /\ w[i] = journal[j].time
      BY <1>0, <2>4 DEF Finds
    <3>2. i >= m
      BY <1>1, <2>4, <3>1
    <3>3. i - m + 1 \in 1 .. k /\ m + (i - m + 1) - 1 = i
      BY <1>0, <1>3, <3>2
    <3> QED BY <2>1, <3>1, <3>3
  <2> QED BY <1>5, <2>1, <2>2, <2>3, <2>4 DEF Finds
<1> QED BY <1>2, <1>4, <1>5, <1>7, <1>8, <1>10

\* A window of requests that all count has as many as were let through.
LEMMA WindowCounts ==
  ASSUME NEW c, NEW window \in Seq(0 .. now), NEW f, Finds(c, window, f),
         \A i \in DOMAIN window : window[i] + RateWindow >= now,
         NEW through,
         through = {j \in Session : LetIn(c, j) /\ journal[j].time + RateWindow >= now}
  PROVE  Cardinality(through) = Len(window)
<1>1. Len(window) \in Nat /\ DOMAIN window = 1 .. Len(window)
  OBVIOUS
<1>2. f \in [1 .. Len(window) -> through]
  BY <1>1 DEF Finds
<1>3. f \in Bijection(1 .. Len(window), through)
  BY <1>1, <1>2 DEF Finds, Bijection, Injection, Surjection, IsInjective
<1> QED BY <1>1, <1>3, FS_CountingElements DEF ExistsBijection

\* The request let through is found at the end of its window.
LEMMA AppendFound ==
  ASSUME journal \in Seq(Entry), NEW entry \in Entry, Answer(entry), now' = now,
         entry.kind = "read", NEW c, entry.client = c, entry.ok, entry.time = now,
         NEW window \in Seq(0 .. now), NEW f, Finds(c, window, f)
  PROVE  \E g : Finds(c, Append(window, now), g)'
<1>1. PICK n \in Nat : n = Len(journal) + 1
  OBVIOUS
<1>2. /\ \A j : j \in Session' <=> j \in Session \/ j = n
      /\ \A j \in Session : j \in 1 .. n - 1 /\ journal'[j] = journal[j]
      /\ journal'[n] = entry
      /\ n \notin Session
  BY <1>1, SessionKept
<1>3. PICK k \in Nat : k = Len(window) + 1
  OBVIOUS
<1>4. PICK v : v = Append(window, now)
  OBVIOUS
<1>5. /\ DOMAIN window = 1 .. k - 1 /\ DOMAIN v = 1 .. k /\ v[k] = now
      /\ \A i \in 1 .. k - 1 : v[i] = window[i]
      /\ \A i \in 1 .. k : i = k \/ i \in 1 .. k - 1
      /\ k \in 1 .. k /\ k \notin 1 .. k - 1 /\ 1 .. k - 1 \subseteq 1 .. k
  BY <1>3, <1>4
<1>6. PICK g : g = [i \in 1 .. k |-> IF i = k THEN n ELSE f[i]]
  OBVIOUS
<1>7. g[k] = n /\ \A i \in 1 .. k - 1 : g[i] = f[i] /\ f[i] \in Session
  BY <1>5, <1>6 DEF Finds
<1>8. g \in [1 .. k -> Session']
  BY <1>2, <1>5, <1>6, <1>7
<1>9. \A j \in Session : LetIn(c, j)' <=> LetIn(c, j)
  BY <1>2 DEF LetIn
<1>10. ASSUME NEW i \in 1 .. k PROVE LetIn(c, g[i])' /\ journal'[g[i]].time = v[i]
  <2>1. CASE i = k
    BY <1>2, <1>5, <1>7, <2>1 DEF LetIn
  <2>2. CASE i # k
    <3>1. i \in 1 .. k - 1 /\ LetIn(c, f[i]) /\ journal[f[i]].time = window[i]
      BY <1>5, <2>2 DEF Finds
    <3> QED BY <1>2, <1>5, <1>7, <1>9, <3>1
  <2> QED BY <2>1, <2>2
<1>11. ASSUME NEW i \in 1 .. k, NEW j \in 1 .. k, g[i] = g[j] PROVE i = j
  <2>1. \A p, q \in 1 .. k - 1 : f[p] = f[q] => p = q
    BY <1>5 DEF Finds
  <2>2. \A p \in 1 .. k - 1 : g[p] # n
    BY <1>2, <1>7
  <2> QED BY <1>5, <1>7, <1>11, <2>1, <2>2
<1>12. ASSUME NEW j \in Session', LetIn(c, j)', journal'[j].time + RateWindow >= now
       PROVE  \E i \in 1 .. k : g[i] = j
  <2>1. CASE j = n
    BY <1>5, <1>7, <2>1
  <2>2. CASE j # n
    <3>1. j \in Session /\ LetIn(c, j) /\ journal[j].time + RateWindow >= now
      BY <1>2, <1>9, <1>12, <2>2
    <3>2. PICK i \in 1 .. k - 1 : f[i] = j
      BY <1>5, <3>1 DEF Finds
    <3> QED BY <1>5, <1>7, <3>2
  <2> QED BY <2>1, <2>2
<1>13. Finds(c, v, g)'
  BY <1>5, <1>8, <1>10, <1>11, <1>12 DEF Finds
<1>14. v' = v
  OBVIOUS
<1> QED BY <1>4, <1>13

LEMMA RateRead ==
  ASSUME AccessInv, RateInv, NEW c \in Clients, Read(c)
  PROVE  RateInv'
<1>0. journal \in Seq(Entry) /\ Len(journal) \in Nat /\ now \in Nat
  BY DEF AccessInv, Typed
<1>1. PICK n \in Nat : n = Len(journal) + 1
  BY <1>0
<1>2. PICK left : left = Recent(windows[c])
  OBVIOUS
<1>a. PICK w \in Seq(0 .. now) : w = windows[c] /\ Ordered(w)
  BY DEF RateInv, Tracked
<1>b. PICK h : Finds(c, w, h)
  BY <1>a DEF RateInv, Tracked
<1>3. PICK f : Finds(c, left, f)
  BY <1>2, <1>a, <1>b, TailFound
<1>4. /\ left \in Seq(0 .. now) /\ Ordered(left) /\ Len(left) \in Nat
      /\ \A i \in DOMAIN left : left[i] + RateWindow >= now
  <2>1. /\ left \in Seq(0 .. now) /\ Ordered(left)
        /\ \A i \in DOMAIN left : left[i] + RateWindow >= now
    BY <1>2, <1>a, <1>b, TailFound
  <2> QED BY <2>1
<1>5. PICK ok : ok = (Len(left) < RateMax)
  OBVIOUS
<1>6. PICK entry : entry = [kind |-> "read", time |-> now, client |-> c, ok |-> ok]
  OBVIOUS
<1>7. /\ Answer(entry) /\ now' = now
      /\ windows' = [windows EXCEPT ![c] = IF ok THEN Append(left, now) ELSE left]
  BY <1>2, <1>5, <1>6 DEF Read
<1>8. entry \in Entry
  <2>1. ok \in BOOLEAN
    BY <1>5
  <2> QED BY <1>0, <1>6, <2>1 DEF Entry
<1>9. entry.kind = "read" /\ entry.client = c /\ entry.time = now /\ entry.ok = ok
  BY <1>6
<1>10. /\ \A j \in Session : j \in 1 .. n - 1 /\ journal'[j] = journal[j]
       /\ journal'[n] = entry
  BY <1>0, <1>1, <1>7, <1>8, <1>9, SessionKept
<1>11. RateRight(n)'
  <2>1. Since(n)' = Session
    <3>1. Since(n)' = Since(n)
      BY <1>0, <1>1, <1>7, <1>8, PastKept
    <3> QED BY <1>1, <3>1 DEF Session
  <2>2. PICK through :
            through = {j \in Session : LetIn(c, j) /\ journal[j].time + RateWindow >= now}
    OBVIOUS
  <2>3. LetThrough(n)' = through
    BY <1>9, <1>10, <2>1, <2>2 DEF LetThrough, LetIn
  <2>4. Cardinality(through) = Len(left)
    BY <1>3, <1>4, <2>2, WindowCounts
  <2> QED BY <1>5, <1>9, <1>10, <2>3, <2>4 DEF RateRight
<1>12. \A i \in DOMAIN journal' : journal'[i].kind = "read" => RateRight(i)'
  BY <1>0, <1>1, <1>7, <1>8, <1>11, AnswersRateRight
<1>13. windows' \in [Clients -> Seq(Nat)] /\ windows'[c] = (IF ok THEN Append(left, now) ELSE left)
       /\ \A d \in Clients : d # c => windows'[d] = windows[d]
  <2>1. left \in Seq(Nat) /\ Append(left, now) \in Seq(Nat)
    BY <1>0, <1>4, SeqMonotonic, AppendProperties
  <2> QED BY <1>7, <2>1 DEF RateInv
<1>14. ASSUME NEW d \in Clients, d # c PROVE Tracked(d)'
  <2>1. Tracked(d)
    BY DEF RateInv
  <2> QED BY <1>0, <1>7, <1>8, <1>9, <1>13, <1>14, <2>1, TrackedKept
<1>15. Tracked(c)'
  <2>1. CASE ok
    <3>1. PICK v : v = Append(left, now)
      OBVIOUS
    <3>2. \E g : Finds(c, v, g)'
      <4>1. \E g : Finds(c, Append(left, now), g)'
        BY <1>0, <1>3, <1>4, <1>7, <1>8, <1>9, <2>1, AppendFound
      <4> QED BY <1>7, <3>1, <4>1 DEF Finds
    <3>3. v \in Seq(0 .. now) /\ Ordered(v)
      <4>1. /\ v \in Seq(0 .. now) /\ Len(v) = Len(left) + 1 /\ v[Len(left) + 1] = now
            /\ \A i \in 1 .. Len(left) : v[i] = left[i] /\ left[i] \in 0 .. now
        BY <1>0, <1>4, <3>1
      <4>2. DOMAIN v = 1 .. Len(left) + 1 /\ DOMAIN left = 1 .. Len(left)
        BY <1>4, <4>1
      <4>3. ASSUME NEW j \in 1 .. Len(left) + 1, NEW i \in 1 .. j PROVE v[i] <= v[j]
        <5>1. CASE j = Len(left) + 1
          <6>1. v[j] = now /\ (i = j \/ i \in 1 .. Len(left))
            BY <1>4, <4>1, <5>1
          <6> QED BY <1>0, <4>1, <5>1, <6>1
        <5>2. CASE j # Len(left) + 1
          <6>1. j \in 1 .. Len(left) /\ i \in 1 .. Len(left)
            BY <1>4, <5>2
          <6>2. left[i] <= left[j]
            BY <1>4, <4>2, <6>1 DEF Ordered
          <6> QED BY <4>1, <6>1, <6>2
        <5> QED BY <5>1, <5>2
      <4> QED BY <4>1, <4>2, <4>3 DEF Ordered
    <3> QED BY <1>7, <1>13, <2>1, <3>1, <3>2, <3>3 DEF Tracked
  <2>2. CASE ~ok
    <3>1. Finds(c, left, f)'
      BY <1>0, <1>3, <1>7, <1>8, <1>9, <2>2, FoundKept
    <3> QED BY <1>4, <1>7, <1>13, <2>2, <3>1 DEF Tracked
  <2> QED BY <2>1, <2>2
<1> QED BY <1>12, <1>13, <1>14, <1>15 DEF RateInv

LEMMA RateInitially == Init => RateInv
<1> SUFFICES ASSUME Init PROVE RateInv
  OBVIOUS
<1>1. /\ journal = <<>> /\ DOMAIN journal = {} /\ Len(journal) = 0
      /\ windows = [c \in Clients |-> <<>>]
  BY DEF Init
<1>2. Session = {}
  BY <1>1 DEF Session, Since
<1>3. ASSUME NEW c \in Clients PROVE Tracked(c)
  <2>1. windows[c] = <<>> /\ DOMAIN windows[c] = {} /\ windows[c] \in Seq(0 .. now)
    BY <1>1
  <2>2. PICK f : f = [i \in {} |-> 0]
    OBVIOUS
  <2>3. f \in [{} -> Session]
    BY <2>2
  <2>4. Finds(c, windows[c], f)
    BY <1>2, <2>1, <2>3 DEF Finds
  <2> QED BY <2>1, <2>4 DEF Tracked, Ordered
<1>4. windows \in [Clients -> Seq(Nat)]
  BY <1>1
<1> QED BY <1>1, <1>3, <1>4 DEF RateInv

LEMMA RateStep ==
  ASSUME AccessInv, RateInv, [Next]_vars
  PROVE  RateInv'
<1>0. journal \in Seq(Entry) /\ Len(journal) \in Nat /\ now \in Nat
      /\ tokens \in [Runs -> Token \cup {None}]
  BY DEF AccessInv, Typed
<1>1. CASE Tick
  BY <1>1, RateSilent DEF Tick
<1>2. ASSUME NEW r \in Runs, NEW ttl \in {None, ShortTtl}, IssueToken(r, ttl)
      PROVE  RateInv'
  <2> DEFINE entry == [kind |-> "token", time |-> now, run |-> r, asked |-> ttl]
  <2>1. /\ Answer(entry) /\ entry \in Entry /\ now' = now /\ windows' = windows
        /\ entry.kind = "token"
    BY <1>0, <1>2 DEF IssueToken, Entry
  <2> HIDE DEF entry
  <2> QED BY <2>1, RateAnswered
<1>3. ASSUME NEW r \in Runs, NEW id \in Issued, Present(r, id)
      PROVE  RateInv'
  <2> DEFINE entry == [kind |-> "ingest", time |-> now, run |-> r, token |-> id,
                       ok |-> TokenValid(r, id)]
  <2>1. id \in Nat /\ TokenValid(r, id) \in BOOLEAN
    BY <1>0 DEF Issued, TokenValid
  <2>2. /\ Answer(entry) /\ entry \in Entry /\ now' = now /\ windows' = windows
        /\ entry.kind = "ingest"
    BY <1>0, <1>3, <2>1 DEF Present, Entry
  <2> HIDE DEF entry
  <2> QED BY <2>2, RateAnswered
<1>4. CASE \E id \in Issued : AcceptSocket(id) \/ CloseSocket(id)
  BY <1>4, RateSilent DEF AcceptSocket, CloseSocket
<1>5. CASE \E c \in Clients : Read(c)
  BY <1>5, RateRead
<1>6. ASSUME NEW h \in Commits, NEW d \in Records, RegisterCommit(h, d)
      PROVE  RateInv'
  <2> DEFINE entry == [kind |-> "commit", time |-> now, commit |-> h, record |-> d]
  <2>1. /\ Answer(entry) /\ entry \in Entry /\ now' = now /\ windows' = windows
        /\ entry.kind = "commit"
    BY <1>0, <1>6 DEF RegisterCommit, Entry
  <2> HIDE DEF entry
  <2> QED BY <2>1, RateAnswered
<1>7. ASSUME NEW h \in Commits, IssueChallenge(h)
      PROVE  RateInv'
  <2> DEFINE record == IF ChallengeStatus(h) = 200 THEN commits[h].record ELSE None
             entry == [kind |-> "challenge", time |-> now, commit |-> h,
                       status |-> ChallengeStatus(h), record |-> record,
                       expires_at |-> now + Lifetime]
  <2>1. ChallengeStatus(h) \in {200, 404, 503} /\ now + Lifetime \in Nat
    BY <1>0, AccessAssumption DEF ChallengeStatus
  <2>2. record \in Records \cup {None}
    BY DEF ChallengeStatus, AccessInv, Typed, Commit
  <2>3. Answer(entry) /\ now' = now /\ windows' = windows
    BY <1>7 DEF IssueChallenge
  <2> HIDE DEF record
  <2>4. entry \in Entry /\ entry.kind = "challenge"
    BY <1>0, <2>1, <2>2 DEF Entry
  <2> HIDE DEF entry
  <2> QED BY <2>3, <2>4, RateAnswered
<1>8. CASE Restart
  BY <1>8, RateRestart
<1>9. CASE UNCHANGED vars
  BY <1>9, RateSilent DEF vars
<1> QED BY <1>1, <1>2, <1>3, <1>4, <1>5, <1>6, <1>7, <1>8, <1>9 DEF Next

-----------------------------------------------------------------------------
(* Types.                                                                  *)

\* What of TypeOK does not follow from the other invariants.
Dated(t) == [record : Records, committed_at : 0 .. t]

Kinds ==
  /\ now \in 0 .. MaxTime
  /\ commits \in [Commits -> Dated(now) \cup {None}]
  /\ signing \in BOOLEAN
  /\ sockets \subseteq Issued /\ validated \subseteq Issued

LEMMA KindsInitially == Init => Kinds
BY AccessAssumption DEF Init, Kinds

LEMMA KindsStep ==
  ASSUME AccessInv, Kinds, [Next]_vars
  PROVE  Kinds'
<1>0. journal \in Seq(Entry) /\ Len(journal) \in Nat /\ now \in 0 .. MaxTime
      /\ MaxTime \in Nat /\ commits \in [Commits -> Dated(now) \cup {None}]
      /\ sockets \subseteq Issued /\ validated \subseteq Issued
  BY AccessAssumption DEF AccessInv, Typed, Kinds
<1>1. now' \in {now, now + 1} /\ now' \in 0 .. MaxTime
  <2>1. now' = now \/ Tick
    BY DEF Next, IssueToken, Present, AcceptSocket, CloseSocket, Read,
           RegisterCommit, IssueChallenge, Restart, vars
  <2> QED BY <1>0, <2>1 DEF Tick
<1>2. commits' \in [Commits -> Dated(now') \cup {None}]
  <2>1. /\ Dated(now) \subseteq Dated(now')
        /\ \A d \in Records : [record |-> d, committed_at |-> now] \in Dated(now')
    BY <1>0, <1>1 DEF Dated
  <2>2. CASE commits' = commits
    BY <1>0, <2>1, <2>2
  <2>3. CASE \E h \in Commits, d \in Records :
                commits' = [commits EXCEPT ![h] = [record |-> d, committed_at |-> now]]
    BY <1>0, <2>1, <2>3
  <2>4. CASE commits' = [h \in Commits |-> None]
    BY <2>4
  <2> QED BY <2>2, <2>3, <2>4
      DEF Next, Tick, IssueToken, Present, AcceptSocket, CloseSocket, Read,
          RegisterCommit, IssueChallenge, Restart, vars
<1>3. Issued \subseteq Issued'
  <2>1. CASE journal' = journal
    BY <2>1 DEF Issued
  <2>2. ASSUME NEW entry, Answer(entry) PROVE Issued \subseteq Issued'
    BY <1>0, <2>2 DEF Answer, Issued
  <2>3. CASE Tick \/ (\E id \in Issued : AcceptSocket(id) \/ CloseSocket(id)) \/ UNCHANGED vars
    BY <2>1, <2>3 DEF Tick, AcceptSocket, CloseSocket, vars
  <2>4. CASE \E r \in Runs, ttl \in {None, ShortTtl} : IssueToken(r, ttl)
    BY <2>2, <2>4 DEF IssueToken
  <2>5. CASE \E r \in Runs, id \in Issued : Present(r, id)
    BY <2>2, <2>5 DEF Present
  <2>6. CASE \E c \in Clients : Read(c)
    BY <2>2, <2>6 DEF Read
  <2>7. ASSUME NEW h \in Commits, IssueChallenge(h) PROVE Issued \subseteq Issued'
    <3>1. \E entry : Answer(entry)
      BY <2>7 DEF IssueChallenge
    <3> QED BY <2>2, <3>1
  <2>8. ASSUME NEW h \in Commits, NEW d \in Records, RegisterCommit(h, d)
        PROVE  Issued \subseteq Issued'
    BY <2>2, <2>8 DEF RegisterCommit
  <2>9. CASE Restart
    BY <2>2, <2>9 DEF Restart
  <2> QED BY <1>0, <2>3, <2>4, <2>5, <2>6, <2>7, <2>8, <2>9 DEF Next
<1>4. sockets' \subseteq Issued /\ validated' \subseteq Issued
  BY <1>0 DEF Next, Tick, IssueToken, Present, AcceptSocket, CloseSocket, Read,
              RegisterCommit, IssueChallenge, Restart, vars
<1>5. signing' \in BOOLEAN
  BY Zenon DEF Kinds, Next, Tick, IssueToken, Present, AcceptSocket, CloseSocket, Read,
               RegisterCommit, IssueChallenge, Restart, vars
<1> QED BY <1>1, <1>2, <1>3, <1>4, <1>5 DEF Kinds

LEMMA TypesFollow == AccessInv /\ RateInv /\ Kinds => TypeOK
<1> SUFFICES ASSUME AccessInv, RateInv, Kinds PROVE TypeOK
  OBVIOUS
<1>1. \A r \in Runs : tokens[r] # None => tokens[r].id \in Issued
  <2>1. DOMAIN journal = 1 .. Len(journal) /\ Len(journal) \in Nat
    BY DEF AccessInv, Typed
  <2>2. Session \subseteq DOMAIN journal
    BY <2>1 DEF Session, Since
  <2> QED BY <2>2 DEF AccessInv, TokensLatest, TokenRight, TokenOf, Issued
<1>2. windows \in [Clients -> Seq(0 .. now)]
  BY DEF RateInv, Tracked
<1>3. \A c \in Clients : \A j \in DOMAIN windows[c] : \A i \in 1 .. j :
          windows[c][i] <= windows[c][j]
  BY DEF RateInv, Tracked, Ordered
<1> QED BY <1>1, <1>2, <1>3 DEF Kinds, Dated, AccessInv, Timed, TypeOK

\* The rate limiter's windows agree with the journal in every reachable state.
THEOREM RateInvariant == Spec => []RateInv
BY AccessInvariant, RateInitially, RateStep, PTL DEF Spec

\* Every table of the relay keeps to its type: the times it holds are past, the
\* windows are in the order of time, and tokens and sockets name tokens issued.
THEOREM AccessTypeCorrect == Spec => []TypeOK
<1>1. Spec => []Kinds
  BY AccessInvariant, KindsInitially, KindsStep, PTL DEF Spec
<1> QED BY <1>1, AccessInvariant, RateInvariant, TypesFollow, PTL

\* _rate_limit: for any limit, window, clock and number of clients, a request is
\* refused exactly if its client had RateMax let through in the RateWindow seconds
\* before it, since the last restart.
THEOREM RateLimitIsExact == Spec => []RateLimitExact
<1>1. RateInv => RateLimitExact
  BY DEF RateInv, RateRight, RateLimitExact
<1> QED BY <1>1, RateInvariant, PTL
=============================================================================

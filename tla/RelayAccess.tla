---------------------------- MODULE RelayAccess ----------------------------
(***************************************************************************)
(* What the relay (server/relay.py) admits: ingest sockets by token, reads *)
(* by a rate limit, data-availability challenges by an earlier commit.     *)
(* All of it is kept in the memory of the process and lost at a restart.   *)
(*                                                                         *)
(* The history variable "journal" records what the relay answered and      *)
(* when; the properties compare its answers with the journal alone.        *)
(***************************************************************************)
EXTENDS Naturals, Sequences, FiniteSetsExt

CONSTANTS Runs,         \* run ids
          Clients,      \* client host and path, as the rate limit sees them
          Commits,      \* header commit hashes pipelines register
          Records,      \* payload hash, chunk root and chunk count of a commit
          RateMax,      \* EVENT_RATE_LIMIT_MAX
          RateWindow,   \* EVENT_RATE_LIMIT_WINDOW
          DefaultTtl,   \* INGEST_TOKEN_TTL
          ShortTtl,     \* a ttl_seconds a request asks for
          Lifetime,     \* of a challenge: ten minutes
          None,
          MaxTime,      \* bound of the clock
          MaxAnswers    \* bound of the journal

ASSUME AccessAssumption ==
    /\ {RateMax, DefaultTtl, ShortTtl, Lifetime} \subseteq Nat \ {0}
    /\ {RateWindow, MaxTime, MaxAnswers} \subseteq Nat
    /\ None \notin Nat \cup [run : Runs, id : Nat, expires_at : Nat]
                     \cup [record : Records, committed_at : Nat]

VARIABLES
    now,        \* the wall clock; it is not set back
    tokens,     \* _ingest_tokens: the token of each run
    windows,    \* _rate_counters: times of the requests let through
    commits,    \* _DA_COMMITS: what was registered for each commit, and when
    signing,    \* the process was started with a signing key (_DA_RELAY_KEY)
    sockets,    \* ingest sockets that are open: their token
    validated,  \* tokens found valid whose sockets are not yet accepted
    journal     \* every answer given

vars == <<now, tokens, windows, commits, signing, sockets, validated, journal>>

Init ==
    /\ now = 0
    /\ tokens = [r \in Runs |-> None]
    /\ windows = [c \in Clients |-> <<>>]
    /\ commits = [h \in Commits |-> None]
    /\ signing \in BOOLEAN
    /\ sockets = {} /\ validated = {}
    /\ journal = <<>>

Answer(entry) ==
    /\ Len(journal) < MaxAnswers
    /\ journal' = Append(journal, entry)

Tick == now < MaxTime /\ now' = now + 1
        /\ UNCHANGED <<tokens, windows, commits, sockets, validated, journal, signing>>

(***************************************************************************)
(* Tokens.  "id" numbers the tokens: secrets.token_urlsafe never repeats.  *)
(***************************************************************************)
Issued == {i \in DOMAIN journal : journal[i].kind = "token"}

\* ttl_seconds that is missing or not positive asks for nothing.
Ttl(requested) == IF requested \in {None, 0} THEN DefaultTtl ELSE requested

\* issue_token_endpoint: a new token replaces the run's token.
IssueToken(r, requested) ==
    LET token == [run |-> r, id |-> Len(journal) + 1,
                  expires_at |-> now + Ttl(requested)]
    IN /\ Answer([kind |-> "token", time |-> now, run |-> r, asked |-> requested])
       /\ tokens' = [tokens EXCEPT ![r] = token]
       /\ UNCHANGED <<now, windows, commits, sockets, validated, signing>>

\* Mutant of TokenValid: the presented token is not compared with the record.
TokenValidForRun(r, id) ==
    tokens[r] # None /\ tokens[r].expires_at >= now

\* _validate_ingest_token
TokenValid(r, id) ==
    /\ tokens[r] # None
    /\ tokens[r].id = id
    /\ tokens[r].expires_at >= now

\* ingest_socket, up to the answer; a refused socket is closed with 4401.
Present(r, id) ==
    /\ Answer([kind |-> "ingest", time |-> now, run |-> r, token |-> id,
               ok |-> TokenValid(r, id)])
    /\ validated' = IF TokenValid(r, id) THEN validated \cup {id} ELSE validated
    /\ UNCHANGED <<now, tokens, windows, commits, sockets, signing>>

\* The socket is accepted after the check; from then on its token is not looked
\* at again.
AcceptSocket(id) ==
    /\ id \in validated
    /\ validated' = validated \ {id}
    /\ sockets' = sockets \cup {id}
    /\ UNCHANGED <<now, tokens, windows, commits, journal, signing>>

CloseSocket(id) ==
    /\ id \in sockets
    /\ sockets' = sockets \ {id}
    /\ UNCHANGED <<now, tokens, windows, commits, validated, journal, signing>>

(***************************************************************************)
(* _rate_limit                                                             *)
(***************************************************************************)
\* Mutant of Recent: a request exactly RateWindow ago has left the window.
RecentOpen(window) ==
    LET fresh == {i \in DOMAIN window : now - window[i] < RateWindow}
    IN  SubSeq(window, Min(fresh \cup {Len(window) + 1}), Len(window))

\* What popleft leaves of the window: the first request that is not older than
\* RateWindow, and all that come after it.
Recent(window) ==
    LET fresh == {i \in DOMAIN window : now - window[i] <= RateWindow}
    IN  SubSeq(window, Min(fresh \cup {Len(window) + 1}), Len(window))

\* Refused with 429 if the window is full.
Read(c) ==
    LET window == Recent(windows[c])
        ok == Len(window) < RateMax
    IN /\ Answer([kind |-> "read", time |-> now, client |-> c, ok |-> ok])
       /\ windows' = [windows EXCEPT
                         ![c] = IF ok THEN Append(window, now) ELSE window]
       /\ UNCHANGED <<now, tokens, commits, sockets, validated, signing>>

(***************************************************************************)
(* Data-availability commits and challenges.  A commit registered again    *)
(* overwrites the record.                                                  *)
(***************************************************************************)
\* Mutant of RegisterCommit: the time the commit runs out is kept.
RegisterCommitExpiry(h, d) ==
    /\ Answer([kind |-> "commit", time |-> now, commit |-> h, record |-> d])
    /\ commits' = [commits EXCEPT ![h] = [record |-> d, committed_at |-> now + Lifetime]]
    /\ UNCHANGED <<now, tokens, windows, sockets, validated, signing>>

\* Mutant of RegisterCommit: a commit that is known is not overwritten.
RegisterCommitFirst(h, d) ==
    /\ Answer([kind |-> "commit", time |-> now, commit |-> h, record |-> d])
    /\ commits' = [commits EXCEPT ![h] =
                       IF @ = None THEN [record |-> d, committed_at |-> now] ELSE @]
    /\ UNCHANGED <<now, tokens, windows, sockets, validated, signing>>

RegisterCommit(h, d) ==
    /\ Answer([kind |-> "commit", time |-> now, commit |-> h, record |-> d])
    /\ commits' = [commits EXCEPT ![h] = [record |-> d, committed_at |-> now]]
    /\ UNCHANGED <<now, tokens, windows, sockets, validated, signing>>

\* 404 without a commit, 503 without a key: the pipeline raises (_relay_request_json).
ChallengeStatus(h) ==
    CASE commits[h] = None             -> 404
      [] commits[h] # None /\ ~signing -> 503
      [] OTHER                         -> 200

\* The challenge carries what was registered with the commit.
IssueChallenge(h) ==
    /\ Answer([kind |-> "challenge", time |-> now, commit |-> h,
               status |-> ChallengeStatus(h),
               record |-> IF ChallengeStatus(h) = 200 THEN commits[h].record ELSE None,
               expires_at |-> now + Lifetime])
    /\ UNCHANGED <<now, tokens, windows, commits, sockets, validated, signing>>

Restart ==
    /\ Answer([kind |-> "restart", time |-> now])
    /\ tokens' = [r \in Runs |-> None]
    /\ windows' = [c \in Clients |-> <<>>]
    /\ commits' = [h \in Commits |-> None]
    /\ signing' \in BOOLEAN
    /\ sockets' = {} /\ validated' = {}
    /\ UNCHANGED now

Next ==
    \/ Tick
    \/ \E r \in Runs, ttl \in {None, ShortTtl} : IssueToken(r, ttl)
    \/ \E r \in Runs, id \in Issued : Present(r, id)
    \/ \E id \in Issued : AcceptSocket(id) \/ CloseSocket(id)
    \/ \E c \in Clients : Read(c)
    \/ \E h \in Commits : IssueChallenge(h) \/ \E d \in Records : RegisterCommit(h, d)
    \/ Restart

Spec == Init /\ [][Next]_vars

-----------------------------------------------------------------------------
(***************************************************************************)
(* Properties.                                                             *)
(***************************************************************************)
\* Types, and every window is in the order of time.
TypeOK ==
    /\ now \in 0 .. MaxTime
    /\ \A r \in Runs : tokens[r] # None => tokens[r].id \in Issued
    /\ windows \in [Clients -> Seq(0 .. now)]
    /\ \A c \in Clients : \A j \in DOMAIN windows[c] : \A i \in 1 .. j :
           windows[c][i] <= windows[c][j]
    /\ commits \in [Commits -> [record : Records, committed_at : 0 .. now] \cup {None}]
    /\ signing \in BOOLEAN
    /\ sockets \subseteq Issued /\ validated \subseteq Issued
    /\ \A i \in DOMAIN journal : journal[i].time <= now

\* The journal since the restart before entry i.
Since(i) ==
    {j \in 1 .. i - 1 : \A k \in j .. i - 1 : journal[k].kind # "restart"}

\* A token opens a socket exactly if it was issued for the run by this process,
\* no other was issued for the run since, and its time has not run out.
IngestByLatestToken ==
    \A i \in DOMAIN journal :
       journal[i].kind = "ingest" =>
          LET id == journal[i].token
              issue == journal[id]
              replaced == \E j \in Since(i) : j > id /\ journal[j].kind = "token"
                                              /\ journal[j].run = issue.run
              ttl == IF issue.asked = None THEN DefaultTtl ELSE issue.asked
          IN journal[i].ok <=>
                /\ id \in Since(i) /\ issue.run = journal[i].run
                /\ ~replaced
                /\ journal[i].time <= issue.time + ttl

\* The requests of entry i's client let through in the window before it.
LetThrough(i) ==
    {j \in Since(i) :
        /\ journal[j].kind = "read" /\ journal[j].client = journal[i].client
        /\ journal[j].ok /\ journal[j].time + RateWindow >= journal[i].time}

\* Between two restarts a client gets at most RateMax requests through in any
\* RateWindow seconds, both ends counted, and is refused only if it got RateMax
\* through: neither old requests nor refused ones are held against it.
RateLimitExact ==
    \A i \in DOMAIN journal :
       journal[i].kind = "read" =>
          (journal[i].ok <=> Cardinality(LetThrough(i)) < RateMax)

\* The registrations of the commit entry i asks about.
Registered(i) ==
    {j \in Since(i) : journal[j].kind = "commit" /\ journal[j].commit = journal[i].commit}

\* docs/spec/06_protocol.md, ordering constraints: a challenge is refused as unknown
\* exactly if this process was not told of the commit before; one that is issued
\* carries what the last registration said, however often the commit was registered.
ChallengeAfterCommit ==
    \A i \in DOMAIN journal :
       journal[i].kind = "challenge" =>
          /\ journal[i].status = 404 <=> Registered(i) = {}
          /\ journal[i].status = 200 =>
                \E j \in Registered(i) : /\ journal[j].record = journal[i].record
                                         /\ \A k \in Registered(i) : k <= j
=============================================================================

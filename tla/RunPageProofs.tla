---------------------------- MODULE RunPageProofs ----------------------------
(***************************************************************************)
(* Theorems about a run as its page shows it: the events that EventPoll    *)
(* collects, for a log and a history of any length, either store and any   *)
(* number of polls and detail requests under way; and the state that       *)
(* VerificationJob leaves when "verify" is clicked, for any number of      *)
(* tasks and uploads and any verifier.                                     *)
(***************************************************************************)
EXTENDS EventPoll, VerificationJob, FiniteSetTheorems, TLAPS

-----------------------------------------------------------------------------
(* EventPoll.                                                              *)

\* The relay's side. A line is taken in when those before it are durable, so the
\* lines of the history are those from 1 to the newest, and the answer to a poll
\* is all of them from after_seq on, up to the newest of that moment.
Unbroken(lines) == \E k \in 0 .. MaxLine : lines = 1 .. k

HistoryUnbroken ==
  /\ Unbroken(Range(history)) /\ Unbroken(Range(disk))
  /\ Range(disk) \subseteq Range(history)

AnswersComplete ==
  \A p \in Polls : polls[p].at = "answered" =>
      \E k \in 0 .. MaxLine : polls[p].lines = (polls[p].after + 1) .. k

\* The page's side. A poll asks for what comes after a line the cursor has
\* reached; the cursor only moves back when a detail answer overtakes the poll.
PollsBehindCursor ==
  overtaken \/ \A p \in Polls : polls[p] # Idle => polls[p].after <= cursor

PageInv ==
  /\ PageTypeOK
  /\ HistoryUnbroken
  /\ AnswersComplete
  /\ PollsBehindCursor
  /\ NoHoles

-----------------------------------------------------------------------------
(* The newest of a set of lines.                                           *)

LEMMA NewestIs ==
  ASSUME NEW S, S \subseteq Nat, NEW x \in S, \A y \in S : x >= y
  PROVE  Newest(S) = x
<1>1. \A z \in S : (\A y \in S : z >= y) => z = x
  OBVIOUS
<1>2. Newest(S) = CHOOSE z \in S : \A y \in S : z >= y
  BY DEF Newest, Max
<1> QED BY <1>1, <1>2

\* A set of natural numbers that is not empty has a least element.
LEMMA LeastNatural ==
  ASSUME NEW T, T \subseteq Nat, T # {}
  PROVE  \E x \in T : \A y \in T : x <= y
<1>1. PICK x \in T : \A y \in T : <<y, x>> \notin OpToRel(<, Nat)
  BY NatLessThanWellFounded, WFMin
<1>2. \A y \in T : x \in Nat /\ y \in Nat /\ ~ (y < x)
  BY <1>1 DEF OpToRel
<1> QED BY <1>2

\* A set of natural numbers that is not empty and has a bound has a greatest
\* element.
LEMMA GreatestNatural ==
  ASSUME NEW T, T \subseteq Nat, T # {}, NEW n \in Nat, \A y \in T : y <= n
  PROVE  \E x \in T : \A y \in T : x >= y
<1> DEFINE Bounds == {b \in Nat : \A y \in T : y <= b}
<1>1. PICK b \in Bounds : \A c \in Bounds : b <= c
  <2>1. n \in Bounds
    OBVIOUS
  <2> HIDE DEF Bounds
  <2>2. Bounds \subseteq Nat
    BY DEF Bounds
  <2> QED BY <2>1, <2>2, LeastNatural
<1>2. b \in Nat /\ \A y \in T : y \in Nat /\ y <= b
  OBVIOUS
<1>3. CASE b \in T
  BY <1>2, <1>3
<1>4. CASE b \notin T
  <2>1. \A y \in T : y < b
    BY <1>2, <1>4
  <2>2. PICK y \in T : y \in Nat /\ y < b
    BY <1>2, <2>1
  <2>3. b - 1 \in Nat /\ \A z \in T : z <= b - 1
    BY <1>2, <2>1, <2>2
  <2>4. b - 1 \in Bounds
    BY <2>3
  <2> QED BY <1>1, <1>2, <2>4
<1> QED BY <1>3, <1>4

LEMMA NewestOfLines ==
  ASSUME NEW S, S \subseteq Nat, NEW n \in Nat, \A x \in S : x <= n
  PROVE  /\ Newest(S) \in 0 .. n
         /\ \A x \in S : x <= Newest(S)
<1>1. CASE S = {}
  BY <1>1 DEF Newest
<1>2. CASE S # {}
  <2>1. PICK x \in S : \A y \in S : x >= y
    BY <1>2, GreatestNatural
  <2>2. Newest(S) = x
    BY <2>1, NewestIs
  <2> QED BY <2>1, <2>2
<1> QED BY <1>1, <1>2

LEMMA NewestOfInterval ==
  ASSUME NEW k \in Nat
  PROVE  Newest(1 .. k) = k
<1>1. CASE k = 0
  BY <1>1 DEF Newest
<1>2. CASE k # 0
  <2>1. 1 .. k \subseteq Nat /\ k \in 1 .. k /\ \A y \in 1 .. k : k >= y
    BY <1>2
  <2> QED BY <2>1, NewestIs
<1> QED BY <1>1, <1>2

\* What ShowPoll makes of the cursor when the answer is all lines from a to k.
LEMMA NewestWithAnswer ==
  ASSUME NEW c \in Nat, NEW a \in Nat, NEW k \in Nat
  PROVE  Newest({c} \cup (a + 1) .. k) = IF a < k /\ c < k THEN k ELSE c
<1> DEFINE S == {c} \cup (a + 1) .. k
<1>1. S \subseteq Nat
  OBVIOUS
<1>2. CASE a < k /\ c < k
  <2>1. k \in S /\ \A y \in S : k >= y
    BY <1>2
  <2> QED BY <1>1, <1>2, <2>1, NewestIs
<1>3. CASE ~ (a < k /\ c < k)
  <2>1. c \in S /\ \A y \in S : c >= y
    BY <1>3
  <2> QED BY <1>1, <1>3, <2>1, NewestIs
<1> QED BY <1>2, <1>3

-----------------------------------------------------------------------------
(* The history.                                                            *)

LEMMA HistoryRange ==
  ASSUME history \in Seq(Lines)
  PROVE  Range(history) \subseteq Lines /\ Range(history) \subseteq Nat
BY PollAssumption DEF Range, Lines

LEMMA RangeOfAppend ==
  ASSUME NEW S, NEW s \in Seq(S), NEW x \in S
  PROVE  Range(Append(s, x)) = Range(s) \cup {x}
<1>1. /\ DOMAIN s = 1 .. Len(s)
      /\ DOMAIN Append(s, x) = 1 .. Len(s) + 1
      /\ Len(s) \in Nat
      /\ \A i \in 1 .. Len(s) : Append(s, x)[i] = s[i]
      /\ Append(s, x)[Len(s) + 1] = x
  OBVIOUS
<1> QED BY <1>1 DEF Range

LEMMA AppendKeepsUnbroken ==
  ASSUME NEW s \in Seq(Lines), NEW k \in 0 .. MaxLine, Range(s) = 1 .. k,
         NEW n \in Lines, n <= k + 1
  PROVE  Append(s, n) \in Seq(Lines) /\ Unbroken(Range(Append(s, n)))
<1>1. k \in Nat /\ n \in Nat /\ MaxLine \in Nat /\ 1 <= n /\ n <= MaxLine
  BY PollAssumption DEF Lines
<1>2. Range(Append(s, n)) = 1 .. k \cup {n}
  BY RangeOfAppend
<1>3. CASE n = k + 1
  <2>1. 1 .. k \cup {n} = 1 .. n /\ n \in 0 .. MaxLine
    BY <1>1, <1>3
  <2> QED BY <1>2, <2>1 DEF Unbroken
<1>4. CASE n # k + 1
  <2>1. 1 .. k \cup {n} = 1 .. k
    BY <1>1, <1>4
  <2> QED BY <1>2, <2>1 DEF Unbroken
<1> QED BY <1>3, <1>4

LEMMA ArriveKeepsUnbroken ==
  ASSUME history \in Seq(Lines), disk \in Seq(Lines), HistoryUnbroken,
         NEW n \in Lines, n <= Newest(Range(disk)) + 1, Arrive(n) \/ ArriveUnwritten(n)
  PROVE  history' \in Seq(Lines) /\ disk' \in Seq(Lines) /\ HistoryUnbroken'
<1>1. PICK k \in 0 .. MaxLine : Range(history) = 1 .. k
  BY DEF HistoryUnbroken, Unbroken
<1>2. PICK d \in 0 .. MaxLine : Range(disk) = 1 .. d
  BY DEF HistoryUnbroken, Unbroken
<1>3. k \in Nat /\ d \in Nat /\ n \in Nat
  BY PollAssumption DEF Lines
<1>a. n <= d + 1
  <2>1. Newest(Range(disk)) = d
    BY <1>2, <1>3, NewestOfInterval
  <2> QED BY <2>1
<1>b. 1 .. d \subseteq 1 .. k
  BY <1>1, <1>2 DEF HistoryUnbroken
<1>4. n <= k + 1
  <2>1. d = 0 \/ d \in 1 .. d
    BY <1>3
  <2>2. d \in 1 .. d => d \in 1 .. k
    BY <1>b
  <2> QED BY <1>3, <1>a, <2>1, <2>2
<1>5. /\ Range(Append(history, n)) = Range(history) \cup {n}
      /\ Range(Append(disk, n)) = Range(disk) \cup {n}
  BY RangeOfAppend
<1>6. /\ Append(history, n) \in Seq(Lines) /\ Unbroken(Range(Append(history, n)))
      /\ Append(disk, n) \in Seq(Lines) /\ Unbroken(Range(Append(disk, n)))
  BY <1>1, <1>2, <1>a, <1>4, AppendKeepsUnbroken
<1>7. CASE history' = Append(history, n) /\ disk' = Append(disk, n)
  BY <1>5, <1>6, <1>7 DEF HistoryUnbroken
<1>8. CASE history' = Append(history, n) /\ disk' = disk
  BY <1>5, <1>6, <1>8 DEF HistoryUnbroken
<1>9. CASE history' = history /\ disk' = disk
  BY <1>9 DEF HistoryUnbroken, Unbroken
<1> QED BY <1>7, <1>8, <1>9 DEF Arrive, ArriveUnwritten, store

-----------------------------------------------------------------------------
(* The steps.                                                              *)

LEMMA IInitialized == PageInit => PageInv
<1> SUFFICES ASSUME PageInit PROVE PageInv
  OBVIOUS
<1> USE DEF PageInit, Idle
<1>1. PageTypeOK
  <2>1. history \in Seq(Lines) /\ disk \in Seq(Lines) /\ cursor \in 0 .. MaxLine /\ base \in 0 .. cursor
        /\ refreshes \in 0 .. MaxRefresh
    BY PollAssumption
  <2>2. polls \in [Polls -> PollStates] /\ details \in [Details -> DetailStates]
    BY DEF PollStates, DetailStates
  <2> QED BY <2>1, <2>2 DEF PageTypeOK
<1>2. HistoryUnbroken
  <2>1. Range(history) = {} /\ Range(disk) = {} /\ 0 \in 0 .. MaxLine
    BY PollAssumption DEF Range
  <2>2. Range(history) = 1 .. 0 /\ Range(disk) = 1 .. 0
    BY <2>1
  <2> QED BY <2>1, <2>2 DEF HistoryUnbroken, Unbroken
<1>3. AnswersComplete /\ PollsBehindCursor /\ NoHoles
  BY DEF AnswersComplete, PollsBehindCursor, NoHoles
<1> QED BY <1>1, <1>2, <1>3 DEF PageInv

\* The answers and cursor are untouched by a step that leaves polls and view alone.
LEMMA ViewAlone ==
  ASSUME AnswersComplete, PollsBehindCursor, NoHoles,
         UNCHANGED <<polls, shown, cursor, base, overtaken>>
  PROVE  AnswersComplete' /\ PollsBehindCursor' /\ NoHoles'
BY DEF AnswersComplete, PollsBehindCursor, NoHoles

LEMMA HistoryAlone ==
  ASSUME HistoryUnbroken, UNCHANGED store
  PROVE  HistoryUnbroken'
BY DEF HistoryUnbroken, Unbroken, store

\* What a detail request fetches, whatever the order of the history.
LEMMA LatestLines ==
  ASSUME history \in Seq(Lines)
  PROVE  Latest(history) \subseteq Lines
BY DEF Latest

LEMMA AnswerIsComplete ==
  ASSUME history \in Seq(Lines), HistoryUnbroken, NEW n \in 0 .. MaxLine
  PROVE  /\ After(history, n) \subseteq Lines
         /\ \E k \in 0 .. MaxLine : After(history, n) = (n + 1) .. k
<1>1. PICK k \in 0 .. MaxLine : Range(history) = 1 .. k
  BY DEF HistoryUnbroken, Unbroken
<1>2. After(history, n) = (n + 1) .. k
  BY <1>1, PollAssumption DEF After
<1> QED BY <1>1, <1>2, PollAssumption DEF Lines

LEMMA IStep == PageInv /\ [PageNext]_pageVars => PageInv'
<1> SUFFICES ASSUME PageInv, [PageNext]_pageVars PROVE PageInv'
  OBVIOUS
<1> USE PollAssumption
<1>0. /\ PageTypeOK /\ HistoryUnbroken /\ AnswersComplete
      /\ PollsBehindCursor /\ NoHoles
  BY DEF PageInv
<1>t. /\ history \in Seq(Lines) /\ disk \in Seq(Lines) /\ page \in {"new", "loading", "live"}
      /\ shown \subseteq Lines /\ cursor \in 0 .. MaxLine /\ base \in 0 .. cursor
      /\ polls \in [Polls -> PollStates] /\ details \in [Details -> DetailStates]
      /\ refreshes \in 0 .. MaxRefresh /\ overtaken \in BOOLEAN
  BY <1>0 DEF PageTypeOK
<1>1. ASSUME \/ \E n \in Lines : n <= Newest(Range(disk)) + 1 /\ (Arrive(n) \/ ArriveUnwritten(n))
             \/ RelayRestart
      PROVE  PageInv'
  <2>1. history' \in Seq(Lines) /\ disk' \in Seq(Lines) /\ HistoryUnbroken'
    <3>1. CASE RelayRestart
      BY <1>0, <1>t, <3>1 DEF RelayRestart, HistoryUnbroken, Unbroken
    <3> QED BY <1>0, <1>1, <1>t, <3>1, ArriveKeepsUnbroken
  <2>2. UNCHANGED <<page, shown, cursor, base, overtaken, polls, details, refreshes>>
    BY <1>1 DEF Arrive, ArriveUnwritten, RelayRestart, view, requests
  <2>3. PageTypeOK'
    BY <1>t, <2>1, <2>2 DEF PageTypeOK
  <2> QED BY <1>0, <2>1, <2>2, <2>3, ViewAlone DEF PageInv
<1>2. ASSUME NEW d \in Details,
             AnswerDetail(d) \/ FailDetail(d) \/ Mount(d) \/ Refresh(d) \/ DetailFailed(d)
      PROVE  PageInv'
  <2>1. UNCHANGED <<store, shown, cursor, base, overtaken, polls>>
    BY <1>2 DEF AnswerDetail, FailDetail, Mount, Refresh, DetailFailed, view
  <2>2. PICK s : s \in DetailStates /\ details' = [details EXCEPT ![d] = s]
    <3>1. CASE AnswerDetail(d)
      BY <1>t, <3>1, LatestLines DEF AnswerDetail, DetailStates
    <3>2. CASE FailDetail(d) \/ Mount(d) \/ Refresh(d) \/ DetailFailed(d)
      BY <3>2 DEF FailDetail, Mount, Refresh, DetailFailed, DetailStates, Idle
    <3> QED BY <1>2, <3>1, <3>2
  <2>3. page' \in {"new", "loading", "live"} /\ refreshes' \in 0 .. MaxRefresh
    BY <1>2, <1>t DEF AnswerDetail, FailDetail, Mount, Refresh, DetailFailed, view
  <2>4. PageTypeOK'
    BY <1>t, <2>1, <2>2, <2>3 DEF PageTypeOK, store
  <2> QED BY <1>0, <2>1, <2>4, ViewAlone, HistoryAlone DEF PageInv
<1>3. ASSUME NEW d \in Details, ShowDetail(d)
      PROVE  PageInv'
  <2>1. details[d].at = "answered" /\ details[d] \in DetailStates
    BY <1>3, <1>t DEF ShowDetail
  <2>2. details[d].lines \subseteq Lines
    BY <2>1 DEF DetailStates, Idle
  <2>3. Newest(details[d].lines) \in 0 .. MaxLine
    BY <2>2, NewestOfLines DEF Lines
  <2>4. /\ shown' = details[d].lines /\ cursor' = Newest(details[d].lines)
        /\ base' = cursor' /\ page' = "live"
        /\ details' = [details EXCEPT ![d] = Idle]
        /\ overtaken' = (overtaken \/ \E p \in Polls : polls[p] # Idle /\ polls[p].after > cursor')
        /\ UNCHANGED <<store, polls, refreshes>>
    BY <1>3 DEF ShowDetail
  <2>5. PageTypeOK'
    BY <1>t, <2>2, <2>3, <2>4 DEF PageTypeOK, store, DetailStates
  <2>6. AnswersComplete'
    BY <1>0, <2>4 DEF AnswersComplete
  <2>7. PollsBehindCursor'
    <3> SUFFICES ASSUME ~ overtaken', NEW p \in Polls, polls[p] # Idle
                 PROVE  polls[p].after <= cursor'
      BY <2>4 DEF PollsBehindCursor
    <3>1. polls[p].after \in 0 .. MaxLine
      BY <1>t DEF PollStates
    <3>2. ~ (polls[p].after > cursor')
      BY <2>4
    <3> QED BY <2>3, <2>4, <3>1, <3>2
  <2>8. NoHoles'
    BY <2>3, <2>4 DEF NoHoles
  <2> QED BY <1>0, <2>4, <2>5, <2>6, <2>7, <2>8, HistoryAlone DEF PageInv
<1>4. ASSUME NEW p \in Polls, AnswerPoll(p)
      PROVE  PageInv'
  <2> DEFINE lines == After(history, polls[p].after)
             s == [at |-> "answered", after |-> polls[p].after, lines |-> lines]
  <2>1. polls[p].at = "sent" /\ polls[p].after \in 0 .. MaxLine
    BY <1>4, <1>t DEF AnswerPoll, PollStates, Idle
  <2>2. lines \subseteq Lines /\ \E k \in 0 .. MaxLine : lines = (polls[p].after + 1) .. k
    BY <1>0, <1>t, <2>1, AnswerIsComplete
  <2>3. polls' = [polls EXCEPT ![p] = s] /\ s \in PollStates
        /\ UNCHANGED <<store, page, shown, cursor, base, overtaken, details, refreshes>>
    BY <1>4, <2>1, <2>2 DEF AnswerPoll, view, PollStates
  <2>4. PageTypeOK'
    BY <1>t, <2>3 DEF PageTypeOK, store
  <2>5. AnswersComplete'
    BY <1>0, <1>t, <2>2, <2>3 DEF AnswersComplete
  <2>6. PollsBehindCursor'
    BY <1>0, <1>t, <2>1, <2>3 DEF PollsBehindCursor, Idle
  <2>7. NoHoles'
    BY <1>0, <2>3 DEF NoHoles
  <2> QED BY <1>0, <2>3, <2>4, <2>5, <2>6, <2>7, HistoryAlone DEF PageInv
<1>5. ASSUME NEW p \in Polls, FailPoll(p) \/ Poll(p)
      PROVE  PageInv'
  <2>1. PICK s : /\ s \in PollStates /\ polls' = [polls EXCEPT ![p] = s]
                 /\ s.at # "answered" /\ (s # Idle => s.after = cursor)
    BY <1>5, <1>t DEF FailPoll, Poll, PollStates, Idle
  <2>2. UNCHANGED <<store, page, shown, cursor, base, overtaken, details, refreshes>>
    BY <1>5 DEF FailPoll, Poll, view
  <2>3. PageTypeOK'
    BY <1>t, <2>1, <2>2 DEF PageTypeOK, store
  <2>4. AnswersComplete'
    BY <1>0, <1>t, <2>1, <2>2 DEF AnswersComplete
  <2>5. PollsBehindCursor'
    BY <1>0, <1>t, <2>1, <2>2 DEF PollsBehindCursor
  <2>6. NoHoles'
    BY <1>0, <2>2 DEF NoHoles
  <2> QED BY <1>0, <2>2, <2>3, <2>4, <2>5, <2>6, HistoryAlone DEF PageInv
<1>6. ASSUME NEW p \in Polls, ShowPoll(p)
      PROVE  PageInv'
  <2>1. /\ polls[p].at = "answered" /\ polls' = [polls EXCEPT ![p] = Idle]
        /\ shown' = shown \cup polls[p].lines
        /\ cursor' = Newest({cursor} \cup polls[p].lines)
        /\ UNCHANGED <<store, page, base, overtaken, details, refreshes>>
    BY <1>6 DEF ShowPoll
  <2> DEFINE a == polls[p].after
  <2>2. PICK k \in 0 .. MaxLine : polls[p].lines = (a + 1) .. k
    BY <1>0, <2>1 DEF AnswersComplete
  <2>3. a \in 0 .. MaxLine /\ polls[p].lines \subseteq Lines /\ polls[p] # Idle
    BY <1>t, <2>1 DEF PollStates, Idle
  <2>4. cursor' = IF a < k /\ cursor < k THEN k ELSE cursor
    <3>1. a \in Nat /\ k \in Nat /\ cursor \in Nat
      BY <1>t, <2>3
    <3>2. cursor' = Newest({cursor} \cup (a + 1) .. k)
      BY <2>1, <2>2
    <3> HIDE DEF a
    <3> QED BY <3>1, <3>2, NewestWithAnswer
  <2>5. cursor' \in 0 .. MaxLine /\ cursor <= cursor'
    BY <1>t, <2>4
  <2>6. PageTypeOK'
    BY <1>t, <2>1, <2>3, <2>5 DEF PageTypeOK, store, PollStates
  <2>7. AnswersComplete'
    BY <1>0, <1>t, <2>1 DEF AnswersComplete, Idle
  <2>8. PollsBehindCursor'
    <3> SUFFICES ASSUME ~ overtaken, NEW q \in Polls, polls[q] # Idle
                 PROVE  polls[q].after <= cursor'
      BY <1>t, <2>1 DEF PollsBehindCursor
    <3>1. polls[q].after <= cursor /\ polls[q].after \in 0 .. MaxLine
      BY <1>0, <1>t DEF PollsBehindCursor, PollStates
    <3> QED BY <1>t, <2>5, <3>1
  <2>9. NoHoles'
    <3> SUFFICES ASSUME ~ overtaken PROVE (base + 1) .. cursor' \subseteq shown'
      BY <2>1 DEF NoHoles
    <3>1. a <= cursor
      BY <1>0, <2>3 DEF PollsBehindCursor
    <3>2. (base + 1) .. cursor \subseteq shown
      BY <1>0 DEF NoHoles
    <3> QED BY <1>t, <2>1, <2>2, <2>3, <2>4, <3>1, <3>2
  <2> QED BY <1>0, <2>1, <2>6, <2>7, <2>8, <2>9, HistoryAlone DEF PageInv
<1>7. CASE UNCHANGED pageVars
  <2>1. UNCHANGED <<store, page, shown, cursor, base, overtaken, polls, details, refreshes>>
    BY <1>7 DEF pageVars, view, requests
  <2> QED BY <1>0, <2>1, ViewAlone, HistoryAlone DEF PageInv, PageTypeOK, store
<1> QED BY <1>1, <1>2, <1>3, <1>4, <1>5, <1>6, <1>7 DEF PageNext

-----------------------------------------------------------------------------
\* What the relay answers and what the page makes of it, in every state.
THEOREM PollInvariant == PageSpec => []PageInv
<1>1. PageInit => PageInv
  BY IInitialized
<1>2. PageInv /\ [PageNext]_pageVars => PageInv'
  BY IStep
<1> QED BY <1>1, <1>2, PTL DEF PageSpec

\* Every variable of the page and the relay keeps to its type: base never passes
\* the cursor, whichever answers arrive in which order.
THEOREM PollTypeCorrect == PageSpec => []PageTypeOK
<1>1. PageInv => PageTypeOK
  BY DEF PageInv
<1> QED BY <1>1, PollInvariant, PTL

\* RunDetailPage.jsx: the page has no holes between the detail it shows and its
\* cursor, however many polls overlap, fail or return out of order and whatever
\* the history's length, unless a detail answer has overtaken a poll.
THEOREM PageHasNoHoles == PageSpec => []NoHoles
<1>1. PageInv => NoHoles
  BY DEF PageInv
<1> QED BY <1>1, PollInvariant, PTL

-----------------------------------------------------------------------------
(* VerificationJob.                                                        *)

USE JobAssumption

-----------------------------------------------------------------------------
(* The records are distinct, and what Written makes of them.               *)

LEMMA Records ==
    /\ \A v \in 1..MaxVersion : Verdict(v).version = v /\ Verdict(v).status \in {"VERIFIED", "FAILED"}
    /\ \A v \in 1..MaxVersion : Verdict(v).status = "VERIFIED" => v \in Accepted
    /\ Error.version = 0 /\ Error.status = "FAILED"
    /\ Absent.status = "absent" /\ Empty.status = "empty"
    /\ Garbled.status = "garbled" /\ Verifying.status = "VERIFYING"
  BY DEF Verdict, Error, Absent, Empty, Garbled, Verifying

LEMMA VerdictParts ==
  ASSUME NEW s \in Verdicts
  PROVE  /\ s.version \in 0..MaxVersion
         /\ s.status \in {"VERIFIED", "FAILED"}
         /\ s.status = "VERIFIED" => s.version \in Accepted
         /\ s # Verifying /\ s # Empty
  BY Records DEF Verdicts

LEMMA WrittenIs == \A s : Written(s) \subseteq {s, Garbled}
  BY DEF Written

-----------------------------------------------------------------------------
(* Type correctness.                                                       *)

LEMMA ErrorTyped == TypeOK => Error \in Verdicts /\ Error.version <= archive
  BY DEF TypeOK, Verdicts, Error

\* A change of one task's phase and text keeps TypeOK for the others.
LEMMA HandsKept ==
  ASSUME TypeOK, archive' = archive, NEW t \in Tasks, NEW p \in Phases, NEW x \in Texts,
         at' = [at EXCEPT ![t] = p], text' = [text EXCEPT ![t] = x],
         p = "fetch" => archive > 0,
         p = "verify" => \E v \in 1..archive : x = Fetched(v),
         p \in {"report", "write"} => x \in Verdicts /\ x.version <= archive,
         p \notin {"verify", "report", "write"} => x = Empty
  PROVE  /\ at' \in [Tasks -> Phases]
         /\ text' \in [Tasks -> Texts]
         /\ \A u \in Tasks : InHand(u)'
<1>1. at' \in [Tasks -> Phases] /\ text' \in [Tasks -> Texts]
  BY DEF TypeOK
<1>2. ASSUME NEW u \in Tasks
      PROVE  InHand(u)'
  <2>1. InHand(u)
    BY DEF TypeOK
  <2>2. CASE u = t
    <3>1. at'[u] = p /\ text'[u] = x
      BY <2>2 DEF TypeOK
    <3> QED
      BY <3>1 DEF InHand
  <2>3. CASE u # t
    <3>1. at'[u] = at[u] /\ text'[u] = text[u]
      BY <2>3 DEF TypeOK
    <3> QED
      BY <2>1, <3>1 DEF InHand
  <2> QED
    BY <2>2, <2>3
<1> QED
  BY <1>1, <1>2

\* A step of one task keeps its part of TypeOK, whatever phase it stands at.
LEMMA TaskTyped ==
  ASSUME TypeOK, NEW t \in Tasks, Trigger(t) \/ TaskStep(t)
  PROVE  /\ archive' = archive
         /\ at' \in [Tasks -> Phases]
         /\ text' \in [Tasks -> Texts]
         /\ \A u \in Tasks : InHand(u)'
<1>0. /\ archive' = archive /\ archive \in 0..MaxVersion
      /\ InHand(t) /\ text[t] \in Texts /\ at \in [Tasks -> Phases]
      /\ text = [text EXCEPT ![t] = text[t]]
      /\ Empty \in Texts /\ Error \in Texts
  BY DEF TypeOK, Texts, Verdicts, Trigger, TaskStep, OpenMark, Open, Mark, List, Fetch, Verify,
     Raise, OpenReport, Report, WriteFails, files
<1>1. CASE Trigger(t) \/ OpenMark(t) \/ Mark(t) \/ OpenReport(t)
  <2>1. PICK p \in {"queued", "mark", "list", "write"} :
          /\ at' = [at EXCEPT ![t] = p]
          /\ p = "write" => at[t] = "report"
          /\ p # "write" => at[t] \in {"idle", "queued", "mark"}
    BY <1>1 DEF Trigger, OpenMark, Open, Mark, OpenReport
  <2>2. text' = [text EXCEPT ![t] = text[t]]
    BY <1>0, <1>1 DEF Trigger, OpenMark, Open, Mark, OpenReport
  <2>3. p = "write" => text[t] \in Verdicts /\ text[t].version <= archive
    BY <1>0, <2>1 DEF InHand
  <2>4. p # "write" => text[t] = Empty
    BY <1>0, <2>1 DEF InHand
  <2>5. p \in Phases
    BY <2>1 DEF Phases
  <2> QED
    BY <1>0, <2>1, <2>2, <2>3, <2>4, <2>5, HandsKept
<1>2. CASE List(t) /\ manifest = "ok"
  <2>1. /\ archive > 0 /\ text[t] = Empty
        /\ text' = [text EXCEPT ![t] = text[t]] /\ at' = [at EXCEPT ![t] = "fetch"]
    BY <1>0, <1>2 DEF List, InHand, TypeOK
  <2> QED
    BY <1>0, <2>1, HandsKept DEF Phases
<1>3. CASE (List(t) /\ manifest # "ok") \/ Raise(t)
  <2>1. text' = [text EXCEPT ![t] = Error] /\ at' = [at EXCEPT ![t] = "report"]
    BY <1>3 DEF List, Raise
  <2> QED
    BY <1>0, <2>1, ErrorTyped, HandsKept DEF Phases
<1>4. CASE Fetch(t)
  <2>1. text' = [text EXCEPT ![t] = Fetched(archive)] /\ at' = [at EXCEPT ![t] = "verify"]
    BY <1>4 DEF Fetch
  <2>2. archive \in 1..archive /\ Fetched(archive) \in Texts
    BY <1>0, <1>4 DEF Fetch, InHand, TypeOK, Texts
  <2> QED
    BY <1>0, <2>1, <2>2, HandsKept DEF Phases
<1>5. CASE Verify(t)
  <2>1. PICK v \in 1..archive : text[t] = Fetched(v)
    BY <1>0, <1>5 DEF Verify, InHand
  <2>2. text' = [text EXCEPT ![t] = Verdict(v)] /\ at' = [at EXCEPT ![t] = "report"]
    BY <1>5, <2>1 DEF Verify, Fetched
  <2>3. v \in 1..MaxVersion
    BY <1>0
  <2>4. Verdict(v) \in Verdicts /\ Verdict(v) \in Texts /\ Verdict(v).version <= archive
    BY <2>3, Records DEF Verdicts, Texts
  <2> QED
    BY <1>0, <2>2, <2>4, HandsKept DEF Phases
<1>6. CASE Report(t) \/ WriteFails(t)
  <2>1. \/ text' = [text EXCEPT ![t] = Empty] /\ at' = [at EXCEPT ![t] = "idle"]
        \/ text' = [text EXCEPT ![t] = Error] /\ at' = [at EXCEPT ![t] = "report"]
    BY <1>6 DEF Report, WriteFails
  <2>2. CASE text' = [text EXCEPT ![t] = Empty] /\ at' = [at EXCEPT ![t] = "idle"]
    BY <1>0, <2>2, HandsKept DEF Phases
  <2>3. CASE text' = [text EXCEPT ![t] = Error] /\ at' = [at EXCEPT ![t] = "report"]
    BY <1>0, <2>3, ErrorTyped, HandsKept DEF Phases
  <2> QED
    BY <2>1, <2>2, <2>3
<1> QED
  BY <1>1, <1>2, <1>3, <1>4, <1>5, <1>6 DEF TaskStep

\* Each step leaves the state file, truncates it, or writes VERIFYING or the
\* verdict of a task to it.
LEMMA StepOfState ==
  ASSUME TypeOK, [Next]_vars
  PROVE  \/ state' \in {state, Empty, Verifying, Garbled}
         \/ \E t \in Tasks : at[t] = "write" /\ state' = text[t]
<1>1. ASSUME NEW t \in Tasks, TaskStep(t)
      PROVE  \/ state' \in {state, Empty, Verifying, Garbled}
             \/ at[t] = "write" /\ state' = text[t]
  BY <1>1, WrittenIs DEF TaskStep, OpenMark, Open, Mark, List, Fetch, Verify, Raise,
     OpenReport, Report, WriteFails
<1> QED
  BY <1>1 DEF Next, Upload, RegisterOpen, RegisterWrite, Trigger, Restart, vars

LEMMA StepTyped == TypeOK /\ [Next]_vars => TypeOK'
<1> SUFFICES ASSUME TypeOK, [Next]_vars
             PROVE  TypeOK'
  OBVIOUS
<1>1. state' \in {Absent, Empty, Garbled, Verifying} \cup Verdicts
  BY StepOfState DEF TypeOK, InHand
<1>2. /\ archive' \in 0..MaxVersion /\ archive <= archive'
      /\ manifest' \in {"none", "empty", "ok"}
      /\ manifest' # "none" => archive' > 0
      /\ due' \in 0..archive'
      /\ clean' \in BOOLEAN
  <2> USE DEF TypeOK, files, tasks
  <2>1. CASE Upload \/ RegisterOpen \/ RegisterWrite \/ UNCHANGED vars
    BY <2>1 DEF Upload, RegisterOpen, RegisterWrite, vars
  <2>2. ASSUME NEW t \in Tasks, Trigger(t)
        PROVE  /\ UNCHANGED files
               /\ due' \in 0..archive' /\ clean' \in BOOLEAN
    BY <2>2 DEF Trigger, Quiet
  <2>3. ASSUME NEW t \in Tasks, TaskStep(t)
        PROVE  UNCHANGED <<files, due>> /\ clean' \in BOOLEAN
    BY <2>3 DEF TaskStep, OpenMark, Open, Mark, List, Fetch, Verify, Raise, OpenReport,
       Report, WriteFails
  <2>4. CASE Restart
    BY <2>4 DEF Restart, Quiet
  <2>5. UNCHANGED files => archive' = archive /\ manifest' = manifest
    OBVIOUS
  <2> QED
    BY <2>1, <2>2, <2>3, <2>4, <2>5 DEF Next
<1>3. /\ at' \in [Tasks -> Phases]
      /\ text' \in [Tasks -> Texts]
      /\ \A u \in Tasks : InHand(u)'
  <2>1. CASE UNCHANGED tasks
    <3>1. at' = at /\ text' = text /\ archive \in Nat /\ archive' \in Nat
      BY <1>2, <2>1 DEF tasks, TypeOK
    <3>2. ASSUME NEW u \in Tasks
          PROVE  InHand(u)'
      <4>1. InHand(u)
        BY DEF TypeOK
      <4>2. text[u] \in Verdicts => text[u].version \in Nat
        BY VerdictParts
      <4> QED
        BY <1>2, <3>1, <4>1, <4>2 DEF InHand
    <3> QED
      BY <3>1, <3>2 DEF TypeOK
  <2>2. ASSUME NEW t \in Tasks, Trigger(t) \/ TaskStep(t)
        PROVE  /\ at' \in [Tasks -> Phases]
               /\ text' \in [Tasks -> Texts]
               /\ \A u \in Tasks : InHand(u)'
    BY <2>2, TaskTyped
  <2>3. CASE Restart
    BY <2>3 DEF Restart, InHand, Phases, Texts
  <2> QED
    BY <2>1, <2>2, <2>3 DEF Next, Upload, RegisterOpen, RegisterWrite, vars, tasks
<1> QED
  BY <1>1, <1>2, <1>3 DEF TypeOK

\* Every reachable state has the declared types, and a task has in hand what its
\* phase of _verification_task requires.
THEOREM JobTypeCorrect == Spec => []TypeOK
<1>1. ASSUME Init PROVE TypeOK
  <2>1. at \in [Tasks -> Phases] /\ text \in [Tasks -> Texts] /\ \A t \in Tasks : InHand(t)
    BY <1>1 DEF Init, Phases, Texts, InHand
  <2>2. /\ archive \in 0..MaxVersion /\ due \in 0..archive
        /\ manifest \in {"none", "empty", "ok"} /\ (manifest # "none" => archive > 0)
    BY <1>1 DEF Init
  <2>3. state = Absent /\ clean \in BOOLEAN
    BY <1>1 DEF Init
  <2> QED
    BY <2>1, <2>2, <2>3 DEF TypeOK
<1> QED
  BY <1>1, StepTyped, PTL DEF Spec

-----------------------------------------------------------------------------
(* VERIFIED is earned.                                                     *)

LEMMA ArchiveGrows == TypeOK /\ [Next]_vars => archive <= archive'
  BY DEF TypeOK, Next, TaskStep, Upload, RegisterOpen, RegisterWrite, Trigger, OpenMark, Open, Mark,
     List, Fetch, Verify, Raise, OpenReport, Report, WriteFails, Restart, vars, files

\* A run is shown as VERIFIED only for an archive the verifier accepted and that
\* was uploaded, however tasks, uploads and restarts interleave.
THEOREM VerdictsEarned == Spec => []VerdictEarned
<1>1. Init => VerdictEarned
  BY Records DEF Init, VerdictEarned
<1>2. ASSUME TypeOK, TypeOK', VerdictEarned, [Next]_vars
      PROVE  VerdictEarned'
  <2>1. archive \in Nat /\ archive' \in Nat /\ archive <= archive'
    BY <1>2, ArchiveGrows DEF TypeOK
  <2>2. CASE state' = state
    <3>1. CASE state.status = "VERIFIED"
      <4>1. state \in Verdicts
        BY <1>2, <3>1, Records DEF TypeOK
      <4>2. state.version \in Nat
        BY <4>1, VerdictParts
      <4> QED
        BY <1>2, <2>1, <2>2, <3>1, <4>2 DEF VerdictEarned
    <3> QED
      BY <2>2, <3>1 DEF VerdictEarned
  <2>3. CASE state' \in {Empty, Verifying, Garbled}
    BY <2>3, Records DEF VerdictEarned
  <2>4. ASSUME NEW t \in Tasks, at[t] = "write", state' = text[t]
        PROVE  VerdictEarned'
    <3>1. text[t] \in Verdicts /\ text[t].version <= archive
      BY <1>2, <2>4 DEF TypeOK, InHand
    <3>2. text[t].version \in Nat
      BY <3>1, VerdictParts
    <3> QED
      BY <2>1, <2>4, <3>1, <3>2, VerdictParts DEF VerdictEarned
  <2> QED
    BY <1>2, <2>2, <2>3, <2>4, StepOfState
<1> QED
  BY <1>1, <1>2, JobTypeCorrect, PTL DEF Spec

-----------------------------------------------------------------------------
(* A verification that was alone.                                          *)

\* How the state file and the text of the only task look at each phase.
AsAlone(t) ==
    /\ at[t] \in {"mark", "write"} => state = Empty
    /\ at[t] \in {"list", "fetch", "verify", "report"} => state = Verifying
    /\ at[t] \in {"verify", "report", "write"} => text[t] = Error \/ text[t].version >= due

Alone ==
    clean => /\ \A t, u \in Tasks : at[t] # "idle" /\ at[u] # "idle" => t = u
             /\ \A t \in Tasks : AsAlone(t)

LEMMA WrittenOnEmpty == ASSUME NEW s, state = Empty PROVE Written(s) = {s}
<1>1. Empty # Verifying /\ Empty \notin Verdicts
  BY Records, VerdictParts
<1> QED
  BY <1>1 DEF Written

\* When one of the tasks moves while the run's verification is clean, the others
\* are idle and stay so.
LEMMA OthersIdle ==
  ASSUME TypeOK, Alone, clean, NEW t \in Tasks, TaskStep(t), NEW u \in Tasks, u # t
  PROVE  at[u] = "idle" /\ at'[u] = "idle"
<1>1. at[t] # "idle"
  BY DEF TaskStep, OpenMark, Open, Mark, List, Fetch, Verify, Raise, OpenReport, Report, WriteFails
<1>2. at[u] = "idle"
  BY <1>1 DEF Alone
<1>3. \E p \in Phases : at' = [at EXCEPT ![t] = p]
  BY DEF TaskStep, OpenMark, Open, Mark, List, Fetch, Verify, Raise, OpenReport, Report,
     WriteFails, Phases
<1> QED
  BY <1>2, <1>3 DEF TypeOK

LEMMA StepAlone ==
  ASSUME TypeOK, TypeOK', Alone, SettledVerdict, [Next]_vars
  PROVE  Alone' /\ SettledVerdict'
<1>1. CASE Upload \/ RegisterOpen \/ RegisterWrite \/ UNCHANGED vars
  BY <1>1 DEF Upload, RegisterOpen, RegisterWrite, vars, tasks, Alone, AsAlone, SettledVerdict, Quiet
<1>2. ASSUME NEW t \in Tasks, Trigger(t)
      PROVE  Alone' /\ SettledVerdict'
  <2>1. at' = [at EXCEPT ![t] = "queued"] /\ at'[t] = "queued" /\ (clean' <=> Quiet)
    BY <1>2 DEF Trigger, TypeOK, Quiet
  <2>2. ASSUME Quiet
        PROVE  \A u \in Tasks : u # t => at'[u] = "idle"
    BY <2>1, <2>2 DEF Quiet, TypeOK
  <2>3. Alone'
    BY <2>1, <2>2 DEF Alone, AsAlone
  <2>4. SettledVerdict'
    BY <2>1 DEF SettledVerdict, Quiet
  <2> QED
    BY <2>3, <2>4
<1>3. ASSUME NEW t \in Tasks, TaskStep(t)
      PROVE  Alone' /\ SettledVerdict'
  <2>1. CASE ~clean'
    BY <2>1 DEF Alone, SettledVerdict
  <2>2. CASE clean'
    <3>1. clean /\ ~WriteFails(t) /\ due' = due
      BY <1>3, <2>2 DEF TaskStep, OpenMark, Open, Mark, List, Fetch, Verify, Raise, OpenReport,
         Report, WriteFails
    <3>2. \A u \in Tasks : u # t => at'[u] = "idle"
      BY <1>3, <3>1, OthersIdle
    <3>3. AsAlone(t) /\ InHand(t)
      BY <3>1 DEF Alone, TypeOK
    <3>4. at \in [Tasks -> Phases] /\ text \in [Tasks -> Texts] /\ due <= archive /\ due \in Nat
      BY DEF TypeOK
    <3>5. AsAlone(t)' /\ (at'[t] = "idle" => SettledVerdict')
      <4>1. CASE OpenMark(t)
        BY <3>3, <3>4, <4>1 DEF OpenMark, Open, AsAlone
      <4>2. CASE Mark(t)
        BY <3>3, <3>4, <4>2, WrittenOnEmpty DEF Mark, AsAlone
      <4>3. CASE List(t)
        BY <3>3, <3>4, <4>3 DEF List, AsAlone
      <4>4. CASE Fetch(t)
        <5>1. at'[t] = "verify" /\ text'[t] = Fetched(archive) /\ state' = state
          BY <3>4, <4>4 DEF Fetch
        <5>2. text'[t].version >= due
          BY <3>4, <5>1 DEF Fetched, TypeOK
        <5> QED
          BY <3>1, <3>3, <4>4, <5>1, <5>2 DEF Fetch, AsAlone
      <4>5. CASE Verify(t)
        <5>1. /\ at[t] = "verify" /\ at'[t] = "report"
              /\ text'[t] = Verdict(text[t].version) /\ state' = state
          BY <3>4, <4>5 DEF Verify
        <5>2. PICK v \in 1..archive : text[t] = Fetched(v)
          BY <3>3, <5>1 DEF InHand
        <5>3. text[t] # Error
          BY <5>2 DEF Fetched, Error
        <5>4. text[t].version = v /\ v >= due
          BY <3>3, <5>1, <5>2, <5>3 DEF AsAlone, Fetched
        <5>5. text'[t].version = v
          BY <5>1, <5>4 DEF Verdict
        <5> QED
          BY <3>1, <3>3, <5>1, <5>4, <5>5 DEF AsAlone
      <4>6. CASE Raise(t)
        BY <3>3, <3>4, <4>6 DEF Raise, AsAlone
      <4>7. CASE OpenReport(t)
        <5>1. /\ at[t] = "report" /\ at'[t] = "write"
              /\ text'[t] = text[t] /\ state' = Empty
          BY <3>4, <4>7 DEF OpenReport, Open
        <5> QED
          BY <3>1, <3>3, <5>1 DEF AsAlone
      <4>8. CASE Report(t)
        <5>1. at[t] = "write" /\ at'[t] = "idle" /\ state = Empty /\ state' \in Written(text[t])
          BY <3>3, <3>4, <4>8 DEF Report, AsAlone
        <5>2. state' = text[t]
          BY <5>1, WrittenOnEmpty
        <5>3. text[t] \in Verdicts /\ (text[t] = Error \/ text[t].version >= due)
          BY <3>3, <5>1 DEF InHand, AsAlone
        <5>4. SettledVerdict'
          BY <3>1, <5>2, <5>3 DEF SettledVerdict, Verdicts, Verdict, Error
        <5> QED
          BY <5>1, <5>4 DEF AsAlone
      <4> QED
        BY <1>3, <3>1, <4>1, <4>2, <4>3, <4>4, <4>5, <4>6, <4>7, <4>8 DEF TaskStep
    <3>6. \A u \in Tasks : u # t => AsAlone(u)'
      BY <3>2 DEF AsAlone
    <3>7. Alone'
      BY <3>2, <3>5, <3>6 DEF Alone
    <3>8. SettledVerdict'
      BY <3>5 DEF SettledVerdict, Quiet
    <3> QED
      BY <3>7, <3>8
  <2> QED
    BY <2>1, <2>2
<1>4. CASE Restart
  <2>1. (clean' <=> clean /\ Quiet) /\ state' = state /\ due' = due /\ \A t \in Tasks : at'[t] = "idle"
    BY <1>4 DEF Restart, Quiet, TypeOK
  <2> QED
    BY <2>1 DEF Alone, AsAlone, SettledVerdict
<1> QED
  BY <1>1, <1>2, <1>3, <1>4 DEF Next

\* A verification that nothing disturbed ends with a verdict on an archive no
\* older than the request, whatever overlaps and crashes there were before it.
THEOREM VerdictsSettled == Spec => []SettledVerdict
<1>1. Init => Alone /\ SettledVerdict
  BY DEF Init, Alone, SettledVerdict
<1>2. TypeOK /\ TypeOK' /\ Alone /\ SettledVerdict /\ [Next]_vars => Alone' /\ SettledVerdict'
  BY StepAlone
<1> QED
  BY <1>1, <1>2, JobTypeCorrect, PTL DEF Spec
=============================================================================

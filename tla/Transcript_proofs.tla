-------------------------- MODULE Transcript_proofs --------------------------
(***************************************************************************)
(* The safety of the transcript for any limits and thresholds, any number  *)
(* of iterations, calls and emergencies, and messages of any length: every *)
(* request is well formed, and what the user asked for and the latest      *)
(* results get lost only in the ways that are recorded in lost.            *)
(*                                                                         *)
(* An invariant of all states says of the messages what the requests need: *)
(* also that the latest results are among the last messages, which is why  *)
(* folding, which loses the middle of old ones, never reaches them.        *)
(* Every layer either keeps the role and the ids of all messages, or drops *)
(* the messages from the third up to one that is not a result (Follows),   *)
(* and that preserves it.  What the recursive functions of the module      *)
(* compute is shown by looking at the first place where it would be wrong. *)
(***************************************************************************)
EXTENDS Transcript, FiniteSetTheorems, WellFoundedInduction, TLAPS

Role == {"system", "user", "assistant", "tool"}
Messages == [role : Role, ids : SUBSET Nat, size : Nat, tells : SUBSET Nat]

IsCall(m) == m.role = "assistant"

\* The system prompt is in front, and behind it a message that neither calls nor
\* answers: the oldest of the history, the user's, or a summary.
Headed(ms) ==
  /\ ms \in Seq(Messages) /\ Len(ms) >= 2
  /\ ms[1].role = "system" /\ ms[2].ids = {}
  /\ \A i \in DOMAIN ms : IsResult(ms[i]) => ms[i].ids # {}

\* The ids of the calls are different, and none has a number beyond n.
Numbered(ms, n) ==
  /\ \A i \in DOMAIN ms : IsCall(ms[i]) => ms[i].ids \subseteq 1..n
  /\ \A i, j \in DOMAIN ms :
       IsCall(ms[i]) /\ IsCall(ms[j]) /\ i # j => ms[i].ids \cap ms[j].ids = {}

\* Calls are followed by their results, and results come after their call.
Answered(ms) ==
  \A i \in DOMAIN ms :
    IsCall(ms[i]) =>
      /\ \A j \in Answers(ms, i) : j \in DOMAIN ms /\ IsResult(ms[j])
      /\ UNION {ms[j].ids : j \in Answers(ms, i)} = ms[i].ids
Called(ms) ==
  \A j \in DOMAIN ms :
    IsResult(ms[j]) => \E i \in DOMAIN ms : IsCall(ms[i]) /\ j \in Answers(ms, i)

WellFormed(ms, n) == Headed(ms) /\ Numbered(ms, n) /\ Answered(ms) /\ Called(ms)

\* x is told by one of the last messages, as many of them as room says, that the
\* next layer does not clear.
Safe(ms, x, room) ==
  \E i \in DOMAIN ms :
    /\ x \in ms[i].tells
    /\ i > Len(ms) - room
    /\ IsResult(ms[i]) => ResultsAfter(ms, i) < KeepRecent

\* The task is told by a message that is not a result: no layer clears it.
TaskTold(ms) == \E i \in 2..Len(ms) : Task \in ms[i].tells /\ ~IsResult(ms[i])

TaskIsTold ==
  {"fallback", "unread", "shortened", "trimmed"} \cap lost = {} => TaskTold(messages)

\* At the head of an iteration the latest results are the last messages; in a
\* request the prompt to come to an end may follow them.  Room is never more than
\* what is kept from folding.
Room == IF pc = "top" THEN KeepRecent ELSE KeepRecent + 1
LatestIsSafe ==
  lost \subseteq {"shortened"} /\ Cardinality(latest) <= KeepRecent =>
    \A x \in latest : Safe(messages, x, Room)

Cause == {"split", "cut", "unread", "fallback", "shortened", "trimmed"}

TypeInv ==
  /\ pc \in {"top", "call", "recall", "done"}
  /\ messages \in Seq(Messages)
  /\ previous \in SUBSET Nat
  /\ iteration \in 0..MaxIterations
  /\ issued \in Nat /\ latest \in SUBSET Nat
  /\ lost \in SUBSET Cause
  /\ emergencies \in 0..MaxEmergencies

IInv == TypeInv /\ WellFormed(messages, issued) /\ TaskIsTold /\ LatestIsSafe
-----------------------------------------------------------------------------
(***************************************************************************)
(* Least elements, and the sums and choices that rest on them              *)
(***************************************************************************)
\* A set of numbers that is not empty has a least element: what stands in the
\* proofs below for induction over the length of a transcript.
LEMMA LeastElement ==
  ASSUME NEW S \in SUBSET Nat, S # {}
  PROVE  \E x \in S : \A y \in S : x <= y
<1> DEFINE Below(x) == {y \in S : y < x}
           B == {Below(x) : x \in S}
<1>1. B \subseteq FiniteSubsetsOf(Nat) /\ B # {}
  <2>1. ASSUME NEW x \in S PROVE Below(x) \in FiniteSubsetsOf(Nat)
    <3>1. Below(x) \in SUBSET Nat /\ x \in Nat
      OBVIOUS
    <3>2. ASSUME NEW y \in Below(x) PROVE y <= x
      <4>1. y \in Nat /\ y < x
        OBVIOUS
      <4> QED
        BY <3>1, <4>1
    <3> QED
      BY <3>1, <3>2, FS_BoundedSetOfNaturals DEF FiniteSubsetsOf
  <2> QED
    BY <2>1
<1> HIDE DEF B
<1>2. PICK U \in B : \A V \in B : ~ (<<V, U>> \in StrictSubsetOrdering(Nat))
  BY <1>1, FS_StrictSubsetOrderingWellFounded, WFMin
<1>3. PICK x \in S : U = Below(x)
  BY DEF B
<1>4. ASSUME NEW y \in S, ~ (x <= y) PROVE FALSE
  <2>1. x \in Nat /\ y \in Nat
    OBVIOUS
  <2>2. y < x
    BY <1>4, <2>1
  <2>3. ASSUME NEW z \in Below(y) PROVE z \in Below(x)
    <3>1. z \in S /\ z \in Nat /\ z < y
      OBVIOUS
    <3> QED
      BY <2>1, <2>2, <3>1
  <2>4. y \in Below(x) /\ y \notin Below(y)
    BY <2>1, <2>2
  <2>5. Below(x) \in SUBSET Nat /\ Below(y) \in SUBSET Nat
    OBVIOUS
  <2>6. Below(y) \in B
    BY DEF B
  <2> HIDE DEF Below
  <2>7. <<Below(y), Below(x)>> \in StrictSubsetOrdering(Nat)
    BY <2>3, <2>4, <2>5 DEF StrictSubsetOrdering
  <2> QED
    BY <1>2, <1>3, <2>6, <2>7
<1> QED
  BY <1>4

\* The equation of the sum that Tokens computes.
IsTotal(f, ms, n) ==
  f = [k \in 0..n |-> IF k = 0 THEN 0 ELSE f[k - 1] + ms[k].size]

\* estimate_tokens sums up any transcript: the equation has a solution, ...
LEMMA TotalExists ==
  ASSUME NEW ms \in Seq(Messages)
  PROVE  \E f : IsTotal(f, ms, Len(ms))
<1> DEFINE Bad == {n \in 0..Len(ms) : ~ \E f : IsTotal(f, ms, n)}
<1>0. Len(ms) \in Nat
  OBVIOUS
<1> SUFFICES ASSUME Bad # {} PROVE FALSE
  BY <1>0
<1>1. PICK n \in Bad : \A m \in Bad : n <= m
  <2>1. Bad \in SUBSET Nat
    BY <1>0
  <2> HIDE DEF Bad
  <2> QED
    BY <2>1, LeastElement
<1>2. n \in 0..Len(ms) /\ ~ \E f : IsTotal(f, ms, n)
  OBVIOUS
<1>3. CASE n = 0
  <2>1. IsTotal([k \in 0..0 |-> 0], ms, 0)
    BY DEF IsTotal
  <2> QED
    BY <1>2, <1>3, <2>1
<1>4. CASE n # 0
  <2>1. n - 1 \in 0..Len(ms) /\ ~ (n <= n - 1)
    BY <1>0, <1>2, <1>4
  <2>2. PICK f : IsTotal(f, ms, n - 1)
    BY <1>1, <2>1
  <2> DEFINE g == [k \in 0..n |-> IF k < n THEN f[k] ELSE f[n - 1] + ms[n].size]
  <2>3. ASSUME NEW k \in 0..n
        PROVE  g[k] = IF k = 0 THEN 0 ELSE g[k - 1] + ms[k].size
    <3>1. CASE k = n
      BY <1>2, <1>4, <3>1
    <3>2. CASE k # n
      <4>1. k \in 0..(n - 1) /\ k < n
        BY <1>2, <3>2
      <4>2. g[k] = f[k]
        BY <4>1
      <4>3. f[k] = IF k = 0 THEN 0 ELSE f[k - 1] + ms[k].size
        BY <2>2, <4>1 DEF IsTotal
      <4>4. k # 0 => k - 1 \in 0..n /\ k - 1 < n
        BY <1>2, <4>1
      <4> QED
        BY <4>2, <4>3, <4>4
    <3> QED
      BY <3>1, <3>2
  <2>4. g = [k \in 0..n |-> g[k]]
    OBVIOUS
  <2>5. IsTotal(g, ms, n)
    <3> HIDE DEF g
    <3> QED
      BY <2>3, <2>4 DEF IsTotal
  <2> QED
    BY <1>2, <2>5
<1> QED
  BY <1>3, <1>4

\* ... and each solution is a number.
LEMMA TotalType ==
  ASSUME NEW ms \in Seq(Messages), NEW f, IsTotal(f, ms, Len(ms))
  PROVE  f[Len(ms)] \in Nat /\ (ms = <<>> => f[Len(ms)] = 0)
<1> DEFINE Bad == {n \in 0..Len(ms) : f[n] \notin Nat}
<1>0. Len(ms) \in Nat
  OBVIOUS
<1>1. \A k \in 0..Len(ms) : f[k] = IF k = 0 THEN 0 ELSE f[k - 1] + ms[k].size
  BY DEF IsTotal
<1>2. f[0] = 0
  BY <1>0, <1>1
<1>3. ASSUME Bad # {} PROVE FALSE
  <2>1. PICK n \in Bad : \A m \in Bad : n <= m
    <3>1. Bad \in SUBSET Nat
      BY <1>0
    <3> HIDE DEF Bad
    <3> QED
      BY <1>3, <3>1, LeastElement
  <2>2. n \in 1..Len(ms)
    BY <1>0, <1>2, <2>1
  <2>3. n - 1 \in 0..Len(ms) /\ ~ (n <= n - 1)
    BY <1>0, <2>2
  <2>4. f[n - 1] \in Nat
    BY <2>1, <2>3
  <2>5. ms[n] \in Messages
    BY <2>2
  <2>6. ms[n].size \in Nat
    BY <2>5 DEF Messages
  <2>7. f[n] = f[n - 1] + ms[n].size
    BY <1>0, <1>1, <2>2
  <2> QED
    BY <2>1, <2>4, <2>6, <2>7
<1>4. Len(ms) \in 0..Len(ms)
  BY <1>0
<1> QED
  BY <1>2, <1>3, <1>4

LEMMA TokensType ==
  ASSUME NEW ms \in Seq(Messages)
  PROVE  Tokens(ms) \in Nat /\ (ms = <<>> => Tokens(ms) = 0)
<1> DEFINE total == CHOOSE f : IsTotal(f, ms, Len(ms))
<1>1. Tokens(ms) = total[Len(ms)]
  BY DEF Tokens, IsTotal
<1>2. IsTotal(total, ms, Len(ms))
  BY TotalExists
<1> HIDE DEF total
<1> QED
  BY <1>1, <1>2, TotalType

(***************************************************************************)
(* The choices of _auto_compact                                            *)
(***************************************************************************)
\* What is left of a transcript, and a first part of it, is one.
LEMMA PartType ==
  ASSUME NEW ms \in Seq(Messages), NEW i \in 1..(Len(ms) + 1), NEW j \in 0..Len(ms)
  PROVE  /\ SubSeq(ms, i, j) \in Seq(Messages)
         /\ Len(SubSeq(ms, i, j)) = IF i <= j THEN j - i + 1 ELSE 0
         /\ \A k \in 1..(j - i + 1) : SubSeq(ms, i, j)[k] = ms[i + k - 1]
         /\ SubSeq(ms, i, j) = <<>> <=> j < i
<1>1. Len(ms) \in Nat /\ \A k \in 1..Len(ms) : ms[k] \in Messages
  OBVIOUS
<1>2. SubSeq(ms, i, j) = [k \in 1..(j - i + 1) |-> ms[i + k - 1]]
  BY <1>1
<1>3. \A k \in 1..(j - i + 1) : i + k - 1 \in 1..Len(ms)
  BY <1>1
<1>4. SubSeq(ms, i, j) \in Seq(Messages)
  BY <1>1, <1>3
<1>5. Len(SubSeq(ms, i, j)) = IF i <= j THEN j - i + 1 ELSE 0
  BY <1>1
<1>6. \A k \in 1..(j - i + 1) : SubSeq(ms, i, j)[k] = ms[i + k - 1]
  BY <1>2
<1>7. SubSeq(ms, i, j) = <<>> <=> j < i
  BY <1>1, <1>4, <1>5
<1> QED
  BY <1>4, <1>5, <1>6, <1>7

LEMMA ConcatType ==
  ASSUME NEW a \in Seq(Messages), NEW b \in Seq(Messages)
  PROVE  /\ a \o b \in Seq(Messages) /\ Len(a \o b) = Len(a) + Len(b)
         /\ \A i \in 1..Len(a) : (a \o b)[i] = a[i]
         /\ \A i \in (Len(a) + 1)..(Len(a) + Len(b)) : (a \o b)[i] = b[i - Len(a)]
<1>1. a \o b \in Seq(Messages)
  OBVIOUS
<1>2. Len(a \o b) = Len(a) + Len(b)
  OBVIOUS
<1>3. \A i \in 1..Len(a) : (a \o b)[i] = a[i]
  OBVIOUS
<1>4. \A i \in (Len(a) + 1)..(Len(a) + Len(b)) : (a \o b)[i] = b[i - Len(a)]
  OBVIOUS
<1> QED
  BY <1>1, <1>2, <1>3, <1>4

\* There is a longest tail within the budget, if only the empty one.
LEMMA BudgetCutType ==
  ASSUME NEW body \in Seq(Messages), NEW emergency \in BOOLEAN
  PROVE  BudgetCut(body, emergency) \in 0..Len(body)
<1> DEFINE tail(c) == SubSeq(body, c + 1, Len(body))
           S == {c \in 0..Len(body) : Tokens(tail(c)) <= TailBudget[emergency]}
<1>0. Len(body) \in Nat /\ TailBudget[emergency] \in Nat
  BY TranscriptAssumption
<1>1. ASSUME NEW c \in 0..Len(body) PROVE Tokens(tail(c)) \in Nat
  <2>1. c + 1 \in 1..(Len(body) + 1) /\ Len(body) \in 0..Len(body)
    BY <1>0
  <2>2. tail(c) \in Seq(Messages)
    BY <2>1, PartType
  <2> QED
    BY <2>2, TokensType
<1>2. Tokens(tail(Len(body))) = 0
  <2>1. /\ Len(body) + 1 \in 1..(Len(body) + 1)
        /\ Len(body) \in 0..Len(body) /\ Len(body) < Len(body) + 1
    BY <1>0
  <2>2. tail(Len(body)) \in Seq(Messages) /\ tail(Len(body)) = <<>>
    BY <2>1, PartType
  <2> QED
    BY <2>2, TokensType
<1>3. PICK c \in S : \A d \in S : c <= d
  <2>1. S \in SUBSET Nat
    BY <1>0
  <2>2. Len(body) \in S
    BY <1>0, <1>2
  <2> HIDE DEF S
  <2> QED
    BY <2>1, <2>2, LeastElement
<1>4. c \in 0..Len(body) /\ Tokens(tail(c)) <= TailBudget[emergency]
  BY <1>3
<1>5. c > 0 => Tokens(SubSeq(body, c, Len(body))) > TailBudget[emergency]
  <2> SUFFICES ASSUME c > 0 PROVE Tokens(tail(c - 1)) > TailBudget[emergency]
    BY <1>0, <1>4
  <2>1. c - 1 \in 0..Len(body) /\ ~ (c <= c - 1)
    BY <1>0, <1>4
  <2>2. c - 1 \notin S
    BY <1>3, <2>1
  <2>3. Tokens(tail(c - 1)) \in Nat
    BY <1>1, <2>1
  <2> HIDE DEF tail
  <2> QED
    BY <1>0, <2>1, <2>2, <2>3
<1> QED
  BY <1>4, <1>5 DEF BudgetCut

\* The tail begins behind the results that the cut would separate.
LEMMA PastResultsType ==
  ASSUME NEW body \in Seq(Messages), NEW cut \in 1..Len(body)
  PROVE  LET c == PastResults(body, cut)
         IN /\ c \in cut..Len(body)
            /\ c < Len(body) => ~IsResult(body[c + 1])
            /\ \A i \in cut..(c - 1) : IsResult(body[i + 1])
<1> DEFINE S == {c \in cut..Len(body) : c < Len(body) => ~IsResult(body[c + 1])}
<1>0. Len(body) \in Nat
  OBVIOUS
<1>1. PICK c \in S : \A d \in S : c <= d
  <2>1. S \in SUBSET Nat /\ Len(body) \in S
    BY <1>0
  <2> HIDE DEF S
  <2> QED
    BY <2>1, LeastElement
<1>2. ASSUME NEW i \in cut..(c - 1) PROVE IsResult(body[i + 1])
  <2>1. i \in cut..Len(body) /\ ~ (c <= i)
    BY <1>0, <1>1
  <2> QED
    BY <1>1, <2>1
<1> DEFINE P(d) == /\ d < Len(body) => ~IsResult(body[d + 1])
                   /\ \A i \in cut..(d - 1) : IsResult(body[i + 1])
<1>3. c \in cut..Len(body) /\ P(c)
  BY <1>1, <1>2
<1>4. PastResults(body, cut) = CHOOSE d \in cut..Len(body) : P(d)
  BY <1>0 DEF PastResults
<1>5. PastResults(body, cut) \in cut..Len(body) /\ P(PastResults(body, cut))
  BY <1>3, <1>4
<1> QED
  BY <1>0, <1>5

\* What is summarised is the beginning of the head, and all of it that fits.
LEMMA SummarisedType ==
  ASSUME NEW head \in Seq(Messages), NEW emergency \in BOOLEAN
  PROVE  \E n \in 0..Len(head) :
           /\ Summarised(head, emergency) = SubSeq(head, 1, n)
           /\ \A more \in (n + 1)..Len(head) : ~Fits(head, more, emergency)
<1> DEFINE P(n) == \A more \in (n + 1)..Len(head) : ~Fits(head, more, emergency)
           S == {n \in 0..Len(head) : P(n)}
<1>0. Len(head) \in Nat /\ SummaryLimit[emergency] \in Nat
  BY TranscriptAssumption
<1>1. Fits(head, 0, emergency)
  <2>1. 1 \in 1..(Len(head) + 1) /\ 0 \in 0..Len(head)
    BY <1>0
  <2>2. SubSeq(head, 1, 0) \in Seq(Messages) /\ SubSeq(head, 1, 0) = <<>>
    BY <2>1, PartType
  <2>3. Tokens(SubSeq(head, 1, 0)) = 0
    BY <2>2, TokensType
  <2> QED
    BY <1>0, <2>3 DEF Fits
<1>2. PICK n \in S : \A m \in S : n <= m
  <2>1. S \in SUBSET Nat
    BY <1>0
  <2>2. Len(head) \in S
    BY <1>0
  <2> HIDE DEF S
  <2> QED
    BY <2>1, <2>2, LeastElement
<1>3. n \in 0..Len(head) /\ P(n)
  BY <1>2
<1>4. Fits(head, n, emergency)
  <2>1. CASE n = 0
    BY <1>1, <2>1
  <2>2. CASE n # 0
    <3>1. n - 1 \in 0..Len(head) /\ ~ (n <= n - 1)
      BY <1>0, <1>3, <2>2
    <3>2. ~P(n - 1)
      BY <1>2, <3>1
    <3>3. PICK more \in ((n - 1) + 1)..Len(head) : Fits(head, more, emergency)
      BY <3>2
    <3>4. more = n
      BY <1>0, <1>3, <3>3
    <3> QED
      BY <3>3, <3>4
  <2> QED
    BY <2>1, <2>2
<1> DEFINE Q(m) == Fits(head, m, emergency) /\ P(m)
           k == CHOOSE m \in 0..Len(head) : Q(m)
<1>5. k \in 0..Len(head) /\ Q(k)
  <2>1. n \in 0..Len(head) /\ Q(n)
    BY <1>3, <1>4
  <2> HIDE DEF Q
  <2> QED
    BY <2>1
<1>6. Summarised(head, emergency) = SubSeq(head, 1, k)
  BY DEF Summarised
<1> QED
  BY <1>5, <1>6
-----------------------------------------------------------------------------
(***************************************************************************)
(* What the layers leave of a well-formed transcript is well formed        *)
(***************************************************************************)
\* s is what becomes of ms when the d messages behind the second one go, and the
\* others keep their role and their ids.
Follows(s, ms, d) ==
  /\ s \in Seq(Messages) /\ d \in Nat /\ Len(s) = Len(ms) - d /\ Len(s) >= 2
  /\ s[1].role = "system" /\ s[2].ids = {} /\ ~IsResult(s[2])
  /\ \A i \in 3..Len(s) : s[i].role = ms[i + d].role /\ s[i].ids = ms[i + d].ids
  /\ Len(s) >= 3 => ~IsResult(s[3])

LEMMA CallsAreFinite ==
  ASSUME NEW ms, NEW n \in Nat, Numbered(ms, n), NEW i \in DOMAIN ms, IsCall(ms[i])
  PROVE  Cardinality(ms[i].ids) \in Nat
<1>1. ms[i].ids \in SUBSET (1..n)
  BY DEF Numbered
<1>2. IsFiniteSet(1..n)
  BY FS_Interval
<1> QED
  BY <1>1, <1>2, FS_Subset, FS_CardinalityType

\* No results are in front: there is no call before them.
LEMMA ThirdIsNoResult ==
  ASSUME NEW ms, NEW n \in Nat, WellFormed(ms, n), 3 \in DOMAIN ms
  PROVE  ~IsResult(ms[3])
<1> SUFFICES ASSUME IsResult(ms[3]) PROVE FALSE
  OBVIOUS
<1>1. PICK i \in DOMAIN ms : IsCall(ms[i]) /\ 3 \in Answers(ms, i)
  BY DEF WellFormed, Called
<1>2. Cardinality(ms[i].ids) \in Nat
  BY <1>1, CallsAreFinite DEF WellFormed
<1>3. i \in 1..Len(ms)
  BY DEF WellFormed, Headed
<1>4. i = 1 \/ i = 2
  BY <1>1, <1>2, <1>3 DEF Answers
<1>5. i # 1
  BY <1>1 DEF WellFormed, Headed, IsCall
<1>6. i # 2
  <2>1. i = 2 => Cardinality(ms[i].ids) = 0
    BY FS_EmptySet DEF WellFormed, Headed
  <2> QED
    BY <1>1, <2>1 DEF Answers
<1> QED
  BY <1>4, <1>5, <1>6

LEMMA FollowsAnswers ==
  ASSUME NEW ms, NEW n \in Nat, WellFormed(ms, n), NEW s, NEW d, Follows(s, ms, d),
         NEW i \in 3..Len(s), IsCall(s[i])
  PROVE  /\ i + d \in DOMAIN ms /\ IsCall(ms[i + d])
         /\ \A j \in Int : j \in Answers(s, i) <=> j + d \in Answers(ms, i + d)
<1>1. d \in Nat /\ Len(s) = Len(ms) - d /\ Len(s) \in Nat /\ Len(ms) \in Nat
  BY DEF Follows, WellFormed, Headed
<1>2. i + d \in 1..Len(ms)
  BY <1>1
<1>3. DOMAIN ms = 1..Len(ms)
  BY DEF WellFormed, Headed
<1>4. IsCall(ms[i + d]) /\ s[i].ids = ms[i + d].ids
  BY DEF Follows, IsCall
<1>5. Cardinality(ms[i + d].ids) \in Nat
  BY <1>2, <1>3, <1>4, CallsAreFinite DEF WellFormed
<1> QED
  BY <1>1, <1>2, <1>3, <1>4, <1>5 DEF Answers

LEMMA FollowsWellFormed ==
  ASSUME NEW ms, NEW n \in Nat, WellFormed(ms, n), NEW s, NEW d, Follows(s, ms, d)
  PROVE  WellFormed(s, n)
<1>1. /\ d \in Nat /\ Len(s) = Len(ms) - d /\ Len(s) \in Nat /\ Len(ms) \in Nat
      /\ Len(s) >= 2
  BY DEF Follows, WellFormed, Headed
<1>2. DOMAIN ms = 1..Len(ms) /\ DOMAIN s = 1..Len(s)
  BY DEF WellFormed, Headed, Follows
<1>3. \A i \in 3..Len(s) : i + d \in DOMAIN ms
  BY <1>1, <1>2
<1>4. \A i \in DOMAIN s : /\ IsResult(s[i]) => i \in 3..Len(s)
                          /\ IsCall(s[i]) => i \in 3..Len(s) \/ s[i].ids = {}
  <2>1. \A i \in DOMAIN s : i = 1 \/ i = 2 \/ i \in 3..Len(s)
    BY <1>1, <1>2
  <2> QED
    BY <2>1 DEF IsCall, IsResult, Follows
<1>5. \A i \in 3..Len(s) : /\ IsResult(s[i]) <=> IsResult(ms[i + d])
                           /\ IsCall(s[i]) <=> IsCall(ms[i + d])
                           /\ s[i].ids = ms[i + d].ids
  BY DEF Follows, IsCall, IsResult
<1>6. Headed(s)
  <2>1. \A i \in DOMAIN s : IsResult(s[i]) => s[i].ids # {}
    BY <1>3, <1>4, <1>5 DEF WellFormed, Headed
  <2> QED
    BY <2>1 DEF Headed, Follows
<1>7. Numbered(s, n)
  <2>1. ASSUME NEW i \in DOMAIN s, NEW j \in DOMAIN s, IsCall(s[i]), IsCall(s[j]),
               i # j
        PROVE  s[i].ids \cap s[j].ids = {}
    <3>1. CASE i \in 3..Len(s) /\ j \in 3..Len(s)
      <4>1. i + d # j + d
        BY <1>1, <2>1, <3>1
      <4> QED
        BY <1>3, <1>5, <2>1, <3>1, <4>1 DEF WellFormed, Numbered
    <3>2. CASE s[i].ids = {} \/ s[j].ids = {}
      BY <3>2
    <3> QED
      BY <1>4, <2>1, <3>1, <3>2
  <2>2. ASSUME NEW i \in DOMAIN s, IsCall(s[i]) PROVE s[i].ids \subseteq 1..n
    BY <1>3, <1>4, <1>5, <2>2 DEF WellFormed, Numbered
  <2> QED
    BY <2>1, <2>2 DEF Numbered
<1>8. Answered(s)
  <2> SUFFICES ASSUME NEW i \in DOMAIN s, IsCall(s[i])
               PROVE  /\ \A j \in Answers(s, i) : j \in DOMAIN s /\ IsResult(s[j])
                      /\ UNION {s[j].ids : j \in Answers(s, i)} = s[i].ids
    BY DEF Answered
  <2>0. CASE s[i].ids = {}
    <3>1. Cardinality(s[i].ids) = 0
      BY <2>0, FS_EmptySet
    <3>2. i \in Int
      BY <1>1, <1>2
    <3>3. Answers(s, i) = {}
      BY <3>1, <3>2 DEF Answers
    <3> QED
      BY <2>0, <3>3
  <2> SUFFICES ASSUME s[i].ids # {}
               PROVE  /\ \A j \in Answers(s, i) : j \in DOMAIN s /\ IsResult(s[j])
                      /\ UNION {s[j].ids : j \in Answers(s, i)} = s[i].ids
    BY <2>0
  <2>1. i \in 3..Len(s)
    BY <1>4
  <2>2. /\ i + d \in DOMAIN ms /\ IsCall(ms[i + d])
        /\ \A j \in Int : j \in Answers(s, i) <=> j + d \in Answers(ms, i + d)
    BY <2>1, FollowsAnswers
  <2>3. /\ \A k \in Answers(ms, i + d) : k \in DOMAIN ms /\ IsResult(ms[k])
        /\ UNION {ms[k].ids : k \in Answers(ms, i + d)} = ms[i + d].ids
    BY <2>2 DEF WellFormed, Answered
  <2>4. ASSUME NEW j \in Answers(s, i)
        PROVE  j \in 3..Len(s) /\ j + d \in Answers(ms, i + d)
    <3>1. j \in Int /\ j > i
      BY <2>1 DEF Answers
    <3>2. j + d \in Answers(ms, i + d) /\ j + d \in 1..Len(ms)
      BY <1>2, <2>2, <2>3, <3>1
    <3> QED
      BY <1>1, <2>1, <3>1, <3>2
  <2>5. ASSUME NEW k \in Answers(ms, i + d) PROVE k - d \in Answers(s, i)
    <3>1. k \in Int /\ (k - d) + d = k /\ k - d \in Int
      BY <1>1, <1>2, <2>3
    <3> QED
      BY <2>2, <3>1
  <2>6. \A j \in Answers(s, i) : j \in DOMAIN s /\ IsResult(s[j])
    BY <1>1, <1>2, <1>5, <2>3, <2>4
  <2>7. \A j \in Answers(s, i) : s[j].ids = ms[j + d].ids
    BY <1>5, <2>4
  <2>8. UNION {s[j].ids : j \in Answers(s, i)}
          \subseteq UNION {ms[k].ids : k \in Answers(ms, i + d)}
    BY <2>4, <2>7
  <2>9. ASSUME NEW k \in Answers(ms, i + d)
        PROVE  \E j \in Answers(s, i) : s[j].ids = ms[k].ids
    <3>1. (k - d) + d = k
      BY <1>1, <1>2, <2>3
    <3> QED
      BY <2>5, <2>7, <3>1
  <2>10. UNION {ms[k].ids : k \in Answers(ms, i + d)}
           \subseteq UNION {s[j].ids : j \in Answers(s, i)}
    BY <2>9
  <2>11. s[i].ids = ms[i + d].ids
    BY <1>5, <2>1
  <2> QED
    BY <2>3, <2>6, <2>8, <2>10, <2>11
<1>9. Called(s)
  <2> SUFFICES ASSUME NEW j \in DOMAIN s, IsResult(s[j])
               PROVE  \E i \in DOMAIN s : IsCall(s[i]) /\ j \in Answers(s, i)
    BY DEF Called
  <2>1. j \in 3..Len(s) /\ j + d \in DOMAIN ms /\ IsResult(ms[j + d])
    BY <1>3, <1>4, <1>5
  <2>2. PICK k \in DOMAIN ms : IsCall(ms[k]) /\ j + d \in Answers(ms, k)
    BY <2>1 DEF WellFormed, Called
  <2>3. k \in Int /\ j \in Int /\ Cardinality(ms[k].ids) \in Nat
    BY <1>2, <2>1, <2>2, CallsAreFinite DEF WellFormed
  <2>4. k >= 3 + d
    <3> SUFFICES ASSUME k < 3 + d PROVE FALSE
      BY <1>1, <2>3
    <3>1. 3 + d \in Answers(ms, k)
      BY <1>1, <2>1, <2>2, <2>3 DEF Answers
    <3>2. IsResult(ms[3 + d])
      BY <2>2, <3>1 DEF WellFormed, Answered
    <3>3. 3 \in 3..Len(s) /\ Len(s) >= 3
      BY <1>1, <2>1
    <3>4. 3 + d = d + 3
      BY <1>1
    <3> QED
      BY <1>5, <3>2, <3>3 DEF Follows
  <2>5. k - d \in 3..Len(s) /\ (k - d) + d = k
    BY <1>1, <1>2, <2>3, <2>4
  <2>6. IsCall(s[k - d])
    BY <1>5, <2>2, <2>5
  <2>7. j \in Answers(s, k - d)
    BY <2>2, <2>3, <2>5, <2>6, FollowsAnswers
  <2>8. k - d \in DOMAIN s
    BY <1>1, <1>2, <2>5
  <2> QED
    BY <2>6, <2>7, <2>8
<1> QED
  BY <1>6, <1>7, <1>8, <1>9 DEF WellFormed

-----------------------------------------------------------------------------
(***************************************************************************)
(* _fix_tool_pairs behind a compression: results without their call go,    *)
(* and no call is ever without its results, so that no stub is written     *)
(***************************************************************************)
\* The equation of the list that FixToolPairs builds.
IsFixed(f, ms) ==
  f = [n \in 0..Len(ms) |->
         IF n = 0 THEN <<>>
         ELSE IF IsResult(ms[n]) /\ ~(ms[n].ids \subseteq CallsIn(ms)) THEN f[n - 1]
         ELSE f[n - 1] \o <<ms[n]>> \o Stubs(ms[n], AnsweredIn(ms))]

\* It has one solution.
LEMMA FixedIsUnique ==
  ASSUME NEW ms \in Seq(Messages), NEW g, IsFixed(g, ms)
  PROVE  FixToolPairs(ms) = g[Len(ms)]
<1> DEFINE f == CHOOSE h : IsFixed(h, ms)
           Step(n, before) ==
             IF IsResult(ms[n]) /\ ~(ms[n].ids \subseteq CallsIn(ms)) THEN before
             ELSE before \o <<ms[n]>> \o Stubs(ms[n], AnsweredIn(ms))
           Bad == {n \in 0..Len(ms) : f[n] # g[n]}
<1>0. Len(ms) \in Nat
  OBVIOUS
<1>1. FixToolPairs(ms) = f[Len(ms)]
  BY DEF FixToolPairs, IsFixed
<1>2. IsFixed(f, ms)
  OBVIOUS
<1> HIDE DEF f
<1>3. \A n \in 0..Len(ms) : /\ f[n] = IF n = 0 THEN <<>> ELSE Step(n, f[n - 1])
                            /\ g[n] = IF n = 0 THEN <<>> ELSE Step(n, g[n - 1])
  BY <1>2 DEF IsFixed
<1> HIDE DEF Step
<1>4. ASSUME Bad # {} PROVE FALSE
  <2>1. PICK n \in Bad : \A m \in Bad : n <= m
    <3>1. Bad \in SUBSET Nat
      BY <1>0
    <3> HIDE DEF Bad
    <3> QED
      BY <1>4, <3>1, LeastElement
  <2>2. n \in 0..Len(ms) /\ f[n] # g[n]
    BY <2>1
  <2>3. n # 0
    BY <1>3, <2>2
  <2>4. n - 1 \in 0..Len(ms) /\ ~ (n <= n - 1)
    BY <1>0, <2>2, <2>3
  <2>5. f[n - 1] = g[n - 1]
    BY <2>1, <2>4
  <2> QED
    BY <1>3, <2>2, <2>3, <2>5
<1>5. Len(ms) \in 0..Len(ms)
  BY <1>0
<1> QED
  BY <1>1, <1>4, <1>5

LEMMA NoStubs ==
  ASSUME NEW m, NEW answered, IsCall(m) => m.ids \subseteq answered
  PROVE  Stubs(m, answered) = <<>>
<1>1. CASE IsCall(m)
  <2>1. m.ids \ answered = {}
    BY <1>1
  <2> DEFINE none == SetToSeq({})
  <2>2. none = CHOOSE f \in [1..0 -> {}] : IsInjective(f)
    BY FS_EmptySet DEF SetToSeq
  <2>3. <<>> \in [1..0 -> {}] /\ IsInjective(<<>>)
    BY DEF IsInjective
  <2>4. none \in [1..0 -> {}]
    BY <2>2, <2>3
  <2>5. DOMAIN none = {}
    BY <2>4
  <2> HIDE DEF none
  <2>6. Stubs(m, answered)
          = [i \in DOMAIN none |-> Message("tool", {none[i]}, Small, {})]
    BY <1>1, <2>1 DEF Stubs, IsCall, none
  <2> QED
    BY <2>5, <2>6
<1>2. CASE ~IsCall(m)
  BY <1>2 DEF Stubs, IsCall
<1> QED
  BY <1>1, <1>2

LEMMA OneMore ==
  ASSUME NEW ms \in Seq(Messages), NEW n \in 1..Len(ms)
  PROVE  SubSeq(ms, 1, n - 1) \o <<ms[n]>> \o <<>> = SubSeq(ms, 1, n)
<1>1. Len(ms) \in Nat
  OBVIOUS
<1> DEFINE a == SubSeq(ms, 1, n - 1)
           b == SubSeq(ms, 1, n)
<1>2. /\ a \in Seq(Messages) /\ Len(a) = n - 1 /\ \A i \in 1..(n - 1) : a[i] = ms[i]
      /\ b \in Seq(Messages) /\ Len(b) = n /\ \A i \in 1..n : b[i] = ms[i]
  BY <1>1
<1>3. ms[n] \in Messages
  OBVIOUS
<1> HIDE DEF a, b
<1>4. a \o <<ms[n]>> = b
  BY <1>2, <1>3
<1> QED
  BY <1>2, <1>4 DEF a, b

\* The summary and the tail behind c messages of the body.
Joined(ms, m, c) == <<ms[1], m>> \o SubSeq(Body(ms), c + 1, Len(Body(ms)))

LEMMA BodyType ==
  ASSUME NEW ms \in Seq(Messages), Len(ms) >= 2
  PROVE  /\ Body(ms) \in Seq(Messages) /\ Len(Body(ms)) = Len(ms) - 1
         /\ \A i \in 1..(Len(ms) - 1) : Body(ms)[i] = ms[i + 1]
BY DEF Body

LEMMA JoinedType ==
  ASSUME NEW ms \in Seq(Messages), Len(ms) >= 2, NEW m \in Messages,
         NEW c \in 1..(Len(ms) - 1)
  PROVE  /\ Joined(ms, m, c) \in Seq(Messages)
         /\ Len(Joined(ms, m, c)) = Len(ms) - (c - 1)
         /\ Joined(ms, m, c)[1] = ms[1] /\ Joined(ms, m, c)[2] = m
         /\ \A i \in 3..Len(Joined(ms, m, c)) :
              Joined(ms, m, c)[i] = ms[i + (c - 1)]
<1> DEFINE front == <<ms[1], m>>
           body == Body(ms)
           tail == SubSeq(body, c + 1, Len(body))
<1>1. Len(ms) \in Nat /\ ms[1] \in Messages
  OBVIOUS
<1>2. /\ body \in Seq(Messages) /\ Len(body) = Len(ms) - 1
      /\ \A i \in 1..(Len(ms) - 1) : body[i] = ms[i + 1]
  BY BodyType
<1> HIDE DEF body
<1>3. /\ tail \in Seq(Messages) /\ Len(tail) = Len(ms) - 1 - c
      /\ \A k \in 1..(Len(ms) - 1 - c) : tail[k] = body[c + k]
  <2>1. c + 1 \in 1..(Len(body) + 1) /\ Len(body) \in 0..Len(body)
    BY <1>1, <1>2
  <2>2. /\ tail \in Seq(Messages)
        /\ Len(tail) = IF c + 1 <= Len(body) THEN Len(body) - (c + 1) + 1 ELSE 0
        /\ \A k \in 1..(Len(body) - (c + 1) + 1) : tail[k] = body[(c + 1) + k - 1]
    BY <1>2, <2>1, PartType
  <2> QED
    BY <1>1, <1>2, <2>2
<1> HIDE DEF tail
<1>4. /\ front \in Seq(Messages) /\ Len(front) = 2
      /\ front[1] = ms[1] /\ front[2] = m
  BY <1>1
<1> HIDE DEF front
<1>5. Joined(ms, m, c) = front \o tail
  BY DEF Joined, tail, body, front
<1> DEFINE s == front \o tail
<1>6. /\ s \in Seq(Messages) /\ Len(s) = 2 + Len(tail)
      /\ \A i \in 1..2 : s[i] = front[i]
      /\ \A i \in 3..(2 + Len(tail)) : s[i] = tail[i - 2]
  <2>1. /\ s \in Seq(Messages) /\ Len(s) = Len(front) + Len(tail)
        /\ \A i \in 1..Len(front) : s[i] = front[i]
        /\ \A i \in (Len(front) + 1)..(Len(front) + Len(tail)) :
             s[i] = tail[i - Len(front)]
    BY <1>3, <1>4, ConcatType
  <2> HIDE DEF s
  <2> QED
    BY <1>4, <2>1
<1>7. s[1] = ms[1] /\ s[2] = m
  BY <1>4, <1>6
<1> HIDE DEF s
<1>9. ASSUME NEW i \in 3..(Len(ms) - (c - 1)) PROVE s[i] = ms[i + (c - 1)]
  <2>1. i \in 3..(2 + Len(tail)) /\ i - 2 \in 1..(Len(ms) - 1 - c)
    BY <1>1, <1>3
  <2>2. c + (i - 2) \in 1..(Len(ms) - 1)
    BY <1>1, <2>1
  <2>3. body[c + (i - 2)] = ms[c + (i - 2) + 1]
    BY <1>2, <2>2
  <2>4. c + (i - 2) + 1 = i + (c - 1)
    BY <1>1
  <2> QED
    BY <1>3, <1>6, <2>1, <2>3, <2>4
<1>10. Len(s) = Len(ms) - (c - 1)
  BY <1>1, <1>3, <1>6
<1> QED
  BY <1>5, <1>6, <1>7, <1>9, <1>10 DEF s

LEMMA JoinedFollows ==
  ASSUME NEW ms, NEW n \in Nat, WellFormed(ms, n), NEW m \in Messages,
         m.role = "user", m.ids = {}, NEW c \in 1..(Len(ms) - 1),
         c < Len(ms) - 1 => ~IsResult(Body(ms)[c + 1])
  PROVE  Follows(Joined(ms, m, c), ms, c - 1)
<1>1. ms \in Seq(Messages) /\ Len(ms) >= 2 /\ Len(ms) \in Nat /\ ms[1].role = "system"
  BY DEF WellFormed, Headed
<1> DEFINE s == Joined(ms, m, c)
<1>2. /\ s \in Seq(Messages) /\ Len(s) = Len(ms) - (c - 1)
      /\ s[1] = ms[1] /\ s[2] = m
      /\ \A i \in 3..Len(s) : s[i] = ms[i + (c - 1)]
  BY <1>1, JoinedType
<1> HIDE DEF s
<1>3. Len(s) >= 3 => ~IsResult(s[3])
  <2> SUFFICES ASSUME Len(s) >= 3 PROVE ~IsResult(s[3])
    OBVIOUS
  <2>1. /\ 3 \in 3..Len(s) /\ 3 + (c - 1) = (c + 1) + 1
        /\ c < Len(ms) - 1 /\ c + 1 \in 1..(Len(ms) - 1)
    BY <1>1, <1>2
  <2>2. s[3] = ms[(c + 1) + 1]
    BY <1>2, <2>1
  <2>3. Body(ms)[c + 1] = ms[(c + 1) + 1]
    BY <1>1, <2>1, BodyType
  <2> QED
    BY <2>1, <2>2, <2>3
<1>4. c - 1 \in Nat /\ Len(s) >= 2
  BY <1>1, <1>2
<1>5. ~IsResult(s[2]) /\ s[2].ids = {}
  BY <1>2 DEF IsResult
<1> QED
  BY <1>1, <1>2, <1>3, <1>4, <1>5 DEF Follows, s

\* The tail raw begins with k results, whose calls are in the head.
LEMMA FixDropsOrphans ==
  ASSUME NEW ms, NEW n \in Nat, WellFormed(ms, n), NEW m \in Messages,
         m.role = "user", m.ids = {}, NEW c \in 1..(Len(ms) - 1),
         NEW e \in c..(Len(ms) - 1),
         \A i \in c..(e - 1) : IsResult(Body(ms)[i + 1]),
         e < Len(ms) - 1 => ~IsResult(Body(ms)[e + 1])
  PROVE  FixToolPairs(Joined(ms, m, c)) = Joined(ms, m, e)
<1> DEFINE raw == Joined(ms, m, c)
           out == Joined(ms, m, e)
           k == e - c
<1>1. /\ ms \in Seq(Messages) /\ Len(ms) >= 2 /\ Len(ms) \in Nat
      /\ DOMAIN ms = 1..Len(ms) /\ ms[1].role = "system"
  BY DEF WellFormed, Headed
<1>2. /\ raw \in Seq(Messages) /\ Len(raw) = Len(ms) - (c - 1)
      /\ raw[1] = ms[1] /\ raw[2] = m
      /\ \A i \in 3..Len(raw) : raw[i] = ms[i + (c - 1)]
  BY <1>1, JoinedType
<1>3. /\ out \in Seq(Messages) /\ Len(out) = Len(ms) - (e - 1)
      /\ out[1] = ms[1] /\ out[2] = m
      /\ \A i \in 3..Len(out) : out[i] = ms[i + (e - 1)]
  <2>1. e \in 1..(Len(ms) - 1)
    BY <1>1
  <2> QED
    BY <1>1, <2>1, JoinedType
<1>4. Follows(out, ms, e - 1)
  <2>1. e \in 1..(Len(ms) - 1)
    BY <1>1
  <2> QED
    BY <2>1, JoinedFollows
<1>5. WellFormed(out, n)
  BY <1>4, FollowsWellFormed
<1> HIDE DEF raw, out
<1>6. /\ k \in Nat /\ Len(raw) \in Nat /\ Len(out) \in Nat
      /\ Len(out) = Len(raw) - k /\ Len(out) >= 2 /\ Len(raw) >= 2
      /\ DOMAIN raw = 1..Len(raw) /\ DOMAIN out = 1..Len(out)
  BY <1>1, <1>2, <1>3
<1>7. \A i \in 3..Len(out) : i + k \in 3..Len(raw) /\ raw[i + k] = out[i]
  <2> SUFFICES ASSUME NEW i \in 3..Len(out)
               PROVE  i + k \in 3..Len(raw) /\ raw[i + k] = out[i]
    OBVIOUS
  <2>1. i + k \in 3..Len(raw) /\ (i + k) + (c - 1) = i + (e - 1)
    BY <1>1, <1>6
  <2> QED
    BY <1>2, <1>3, <2>1
<1>8. ~IsCall(raw[1]) /\ ~IsCall(raw[2]) /\ ~IsResult(raw[1]) /\ ~IsResult(raw[2])
  BY <1>1, <1>2 DEF IsCall, IsResult
<1>9. ASSUME NEW i \in 3..Len(raw), i <= k + 2
      PROVE  IsResult(raw[i])
  <2>1. i + c - 3 \in c..(e - 1) /\ (i + c - 3) + 1 \in 1..(Len(ms) - 1)
    BY <1>1, <1>6, <1>9
  <2>2. Body(ms)[(i + c - 3) + 1] = ms[((i + c - 3) + 1) + 1]
    BY <1>1, <2>1, BodyType
  <2>3. ((i + c - 3) + 1) + 1 = i + (c - 1)
    BY <1>1
  <2> QED
    BY <1>2, <2>1, <2>2, <2>3
<1>10. ASSUME NEW i \in DOMAIN raw, IsCall(raw[i])
       PROVE  i - k \in 3..Len(out) /\ (i - k) + k = i /\ raw[i] = out[i - k]
  <2>1. i \in 3..Len(raw)
    <3>1. i = 1 \/ i = 2 \/ i \in 3..Len(raw)
      BY <1>6
    <3> QED
      BY <1>8, <1>10, <3>1
  <2>2. ~(i <= k + 2)
    BY <1>9, <1>10, <2>1 DEF IsCall, IsResult
  <2>3. i - k \in 3..Len(out) /\ (i - k) + k = i
    BY <1>6, <2>1, <2>2
  <2> QED
    BY <1>7, <2>3
<1>11. CallsIn(out) \subseteq CallsIn(raw)
  <2> SUFFICES ASSUME NEW i \in DOMAIN out, IsCall(out[i])
               PROVE  out[i].ids \subseteq CallsIn(raw)
    BY DEF CallsIn, IsCall
  <2>1. i \in 3..Len(out)
    <3>1. i = 1 \/ i = 2 \/ i \in 3..Len(out)
      BY <1>6
    <3> QED
      BY <1>2, <1>3, <1>8, <3>1
  <2>2. i + k \in DOMAIN raw /\ raw[i + k] = out[i]
    BY <1>6, <1>7, <2>1
  <2> QED
    BY <2>2 DEF CallsIn, IsCall
<1>12. ASSUME NEW i \in 3..Len(raw), i <= k + 2
       PROVE  ~(raw[i].ids \subseteq CallsIn(raw))
  <2> SUFFICES ASSUME raw[i].ids \subseteq CallsIn(raw) PROVE FALSE
    OBVIOUS
  <2>1. i + (c - 1) \in DOMAIN ms /\ raw[i] = ms[i + (c - 1)]
    BY <1>1, <1>2
  <2>2. IsResult(ms[i + (c - 1)])
    BY <1>9, <1>12, <2>1
  <2>3. PICK a \in DOMAIN ms : IsCall(ms[a]) /\ i + (c - 1) \in Answers(ms, a)
    BY <2>1, <2>2 DEF WellFormed, Called
  <2>4. ms[i + (c - 1)].ids \subseteq ms[a].ids
    BY <2>3 DEF WellFormed, Answered
  <2>5. PICK x \in raw[i].ids : TRUE
    BY <2>1, <2>2 DEF WellFormed, Headed
  <2>6. PICK j \in DOMAIN raw : IsCall(raw[j]) /\ x \in raw[j].ids
    BY <2>5 DEF CallsIn, IsCall
  <2>7. j - k \in 3..Len(out) /\ (j - k) + k = j
    BY <1>10, <2>6
  <2>8. j \in 3..Len(raw) /\ j > k + 2
    BY <1>6, <1>7, <2>7
  <2>9. j + (c - 1) \in DOMAIN ms /\ raw[j] = ms[j + (c - 1)]
    <3>1. j \in 3..Len(raw)
      BY <2>8
    <3>2. j + (c - 1) \in 1..Len(ms)
      BY <1>1, <1>2, <3>1
    <3> QED
      BY <1>1, <1>2, <3>1, <3>2
  <2>10. j + (c - 1) = a
    <3>1. IsCall(ms[j + (c - 1)]) /\ x \in ms[j + (c - 1)].ids
      BY <2>6, <2>9
    <3>2. x \in ms[a].ids
      BY <2>1, <2>4, <2>5
    <3> QED
      BY <2>3, <2>9, <3>1, <3>2 DEF WellFormed, Numbered
  <2>11. a < i + (c - 1)
    <3>1. a \in Int /\ i + (c - 1) \in Int
      BY <1>1, <2>1
    <3>2. Cardinality(ms[a].ids) \in Nat
      BY <2>3, CallsAreFinite DEF WellFormed
    <3> QED
      BY <2>3, <3>1, <3>2 DEF Answers
  <2>12. i \in Int /\ j \in Int /\ c \in Int /\ k \in Int
    BY <1>6, <2>8
  <2>13. j < i
    BY <2>10, <2>11, <2>12
  <2> QED
    BY <1>12, <2>8, <2>12, <2>13
<1>13. ASSUME NEW i \in 3..Len(out)
       PROVE  /\ IsResult(out[i]) => out[i].ids \subseteq CallsIn(raw)
              /\ IsCall(out[i]) => out[i].ids \subseteq AnsweredIn(raw)
  <2>0. i \in DOMAIN out
    BY <1>6
  <2>1. ASSUME IsResult(out[i]) PROVE out[i].ids \subseteq CallsIn(raw)
    <3>1. PICK a \in DOMAIN out : IsCall(out[a]) /\ i \in Answers(out, a)
      BY <1>5, <2>0, <2>1 DEF WellFormed, Called
    <3>2. out[i].ids \subseteq out[a].ids
      BY <1>5, <3>1 DEF WellFormed, Answered
    <3>3. out[a].ids \subseteq CallsIn(out)
      BY <3>1 DEF CallsIn, IsCall
    <3> QED
      BY <1>11, <3>2, <3>3
  <2>2. ASSUME IsCall(out[i]), NEW x \in out[i].ids PROVE x \in AnsweredIn(raw)
    <3>1. out[i].ids \subseteq CallsIn(out)
      BY <2>0, <2>2 DEF CallsIn, IsCall
    <3>2. PICK j \in Answers(out, i) : x \in out[j].ids /\ j \in DOMAIN out
                                       /\ IsResult(out[j])
      BY <1>5, <2>0, <2>2 DEF WellFormed, Answered
    <3>3. j \in 3..Len(out)
      <4>1. j = 1 \/ j = 2 \/ j \in 3..Len(out)
        BY <1>6, <3>2
      <4> QED
        BY <1>2, <1>3, <1>8, <3>2, <4>1
    <3>4. j + k \in DOMAIN raw /\ raw[j + k] = out[j]
      BY <1>6, <1>7, <3>3
    <3> QED
      BY <1>11, <2>2, <3>1, <3>2, <3>4 DEF AnsweredIn
  <2> QED
    BY <2>1, <2>2
<1> DEFINE q(i) == IF i <= 2 THEN i ELSE IF i <= k + 2 THEN 2 ELSE i - k
           g == [i \in 0..Len(raw) |-> SubSeq(out, 1, q(i))]
           Step(i, before) ==
             IF IsResult(raw[i]) /\ ~(raw[i].ids \subseteq CallsIn(raw)) THEN before
             ELSE before \o <<raw[i]>> \o Stubs(raw[i], AnsweredIn(raw))
<1>14. ASSUME NEW i \in 1..Len(raw)
       PROVE  SubSeq(out, 1, q(i)) = Step(i, SubSeq(out, 1, q(i - 1)))
  <2>1. CASE i \in 3..Len(raw) /\ i <= k + 2
    <3>1. q(i) = 2 /\ q(i - 1) = 2
      BY <1>6, <2>1
    <3>2. Step(i, SubSeq(out, 1, 2)) = SubSeq(out, 1, 2)
      BY <1>9, <1>12, <2>1
    <3> QED
      BY <3>1, <3>2
  <2>2. CASE i <= 2 \/ i > k + 2
    <3>1. /\ q(i) \in 1..Len(out) /\ q(i - 1) = q(i) - 1
          /\ (i <= 2 => q(i) = i) /\ (i > 2 => q(i) \in 3..Len(out) /\ q(i) + k = i)
      BY <1>6, <2>2
    <3>2. raw[i] = out[q(i)]
      <4>1. i = 1 \/ i = 2 \/ i > 2
        BY <1>6
      <4> HIDE DEF q
      <4> QED
        BY <1>2, <1>3, <1>7, <3>1, <4>1
    <3>3. /\ IsResult(raw[i]) => raw[i].ids \subseteq CallsIn(raw)
          /\ IsCall(raw[i]) => raw[i].ids \subseteq AnsweredIn(raw)
      <4>1. i = 1 \/ i = 2 \/ i > 2
        BY <1>6
      <4> HIDE DEF q
      <4> QED
        BY <1>8, <1>13, <3>1, <3>2, <4>1
    <3>4. Stubs(raw[i], AnsweredIn(raw)) = <<>>
      BY <3>3, NoStubs
    <3>5. Step(i, SubSeq(out, 1, q(i) - 1))
            = SubSeq(out, 1, q(i) - 1) \o <<out[q(i)]>> \o <<>>
      <4> HIDE DEF q
      <4> QED
        BY <3>2, <3>3, <3>4
    <3> HIDE DEF q, Step
    <3> QED
      BY <1>3, <3>1, <3>5, OneMore
  <2>3. i <= 2 \/ i > k + 2 \/ (i \in 3..Len(raw) /\ i <= k + 2)
    BY <1>6
  <2> HIDE DEF q, Step
  <2> QED
    BY <2>1, <2>2, <2>3
<1>15. SubSeq(out, 1, q(0)) = <<>>
  BY <1>3
<1>16. q(Len(raw)) = Len(out)
  BY <1>6
<1> HIDE DEF q
<1>17. ASSUME NEW i \in 0..Len(raw)
       PROVE  g[i] = IF i = 0 THEN <<>> ELSE Step(i, g[i - 1])
  <2>1. CASE i = 0
    BY <1>6, <1>15, <2>1
  <2>2. CASE i # 0
    <3>1. i \in 1..Len(raw) /\ i - 1 \in 0..Len(raw)
      BY <1>6, <2>2
    <3>2. g[i] = SubSeq(out, 1, q(i)) /\ g[i - 1] = SubSeq(out, 1, q(i - 1))
      BY <3>1
    <3> HIDE DEF Step, g
    <3> QED
      BY <1>14, <2>2, <3>1, <3>2
  <2> QED
    BY <2>1, <2>2
<1>18. g = [i \in 0..Len(raw) |-> g[i]] /\ g[Len(raw)] = SubSeq(out, 1, Len(out))
  <2>1. Len(raw) \in 0..Len(raw)
    BY <1>6
  <2> QED
    BY <1>16, <2>1
<1> HIDE DEF g
<1>19. IsFixed(g, raw)
  BY <1>17, <1>18 DEF IsFixed
<1>20. SubSeq(out, 1, Len(out)) = out
  BY <1>3
<1> QED
  BY <1>2, <1>18, <1>19, <1>20, FixedIsUnique DEF raw, out

-----------------------------------------------------------------------------
(***************************************************************************)
(* What the layers keep                                                    *)
(***************************************************************************)
\* On the way from ms to s, what is not in causes was not lost, and no more than
\* more messages came behind what the last room messages tell.
Keeps(ms, s, causes, more) ==
  /\ {"fallback", "unread", "shortened", "trimmed"} \cap causes = {} /\ TaskTold(ms)
       => TaskTold(s)
  /\ causes \subseteq {"shortened"} =>
       \A x : \A room \in 0..PreserveRecent : Safe(ms, x, room) => Safe(s, x, room + more)

LEMMA FollowsResultsAfter ==
  ASSUME NEW ms, NEW n \in Nat, WellFormed(ms, n), NEW s, NEW d, Follows(s, ms, d),
         NEW i \in 3..Len(s)
  PROVE  ResultsAfter(s, i) = ResultsAfter(ms, i + d)
<1> DEFINE S == {j \in DOMAIN s : j > i /\ IsResult(s[j])}
           T == {j \in DOMAIN ms : j > i + d /\ IsResult(ms[j])}
           f == [j \in S |-> j + d]
<1>1. /\ d \in Nat /\ Len(s) = Len(ms) - d /\ Len(s) \in Nat /\ Len(ms) \in Nat
      /\ DOMAIN ms = 1..Len(ms) /\ DOMAIN s = 1..Len(s)
  BY DEF WellFormed, Headed, Follows
<1>2. \A j \in 3..Len(s) : IsResult(s[j]) <=> IsResult(ms[j + d])
  BY DEF Follows, IsResult
<1>3. ASSUME NEW j \in S PROVE j \in Int /\ j + d \in T
  <2>1. j \in 3..Len(s) /\ IsResult(s[j]) /\ j > i
    BY <1>1
  <2>2. j + d \in 1..Len(ms) /\ j + d > i + d
    BY <1>1, <2>1
  <2> QED
    BY <1>1, <1>2, <2>1, <2>2
<1>4. ASSUME NEW k \in T PROVE k - d \in S /\ (k - d) + d = k
  <2>1. k \in 1..Len(ms) /\ IsResult(ms[k]) /\ k > i + d
    BY <1>1
  <2>2. k - d \in 3..Len(s) /\ k - d > i /\ (k - d) + d = k
    BY <1>1, <2>1
  <2>3. k - d \in DOMAIN s
    BY <1>1, <2>2
  <2> QED
    BY <1>2, <2>1, <2>2, <2>3
<1>5. IsFiniteSet(S)
  <2>1. S \subseteq 1..Len(s) /\ IsFiniteSet(1..Len(s))
    BY <1>1, FS_Interval
  <2> QED
    BY <2>1, FS_Subset
<1> HIDE DEF S, T
<1>6. f \in Bijection(S, T)
  <2>1. f \in [S -> T] /\ \A j \in S : f[j] = j + d
    BY <1>3
  <2>2. \A a, b \in S : f[a] = f[b] => a = b
    BY <1>1, <1>3, <2>1
  <2>3. \A k \in T : \E j \in S : f[j] = k
    BY <1>4, <2>1
  <2> HIDE DEF f
  <2> QED
    BY <2>1, <2>2, <2>3 DEF Bijection, Injection, Surjection, IsInjective
<1>7. Cardinality(T) = Cardinality(S)
  BY <1>5, <1>6, FS_Bijection DEF ExistsBijection
<1> QED
  BY <1>7 DEF ResultsAfter, S, T

\* A layer that only changes the size of messages, and what they tell.
LEMMA SameShape ==
  ASSUME NEW ms, NEW n \in Nat, WellFormed(ms, n), NEW s \in Seq(Messages),
         Len(s) = Len(ms),
         \A i \in DOMAIN ms : s[i].role = ms[i].role /\ s[i].ids = ms[i].ids
  PROVE  WellFormed(s, n) /\ \A i \in DOMAIN ms : ResultsAfter(s, i) = ResultsAfter(ms, i)
<1>1. Len(ms) \in Nat /\ Len(ms) >= 2 /\ DOMAIN ms = 1..Len(ms) /\ DOMAIN s = DOMAIN ms
  BY DEF WellFormed, Headed
<1>2. s[1].role = "system" /\ s[2].ids = {} /\ ~IsResult(s[2])
  <2>1. 1 \in DOMAIN ms /\ 2 \in DOMAIN ms
    BY <1>1
  <2> QED
    BY <2>1 DEF WellFormed, Headed, IsResult
<1>3. \A i \in 3..Len(s) : s[i].role = ms[i + 0].role /\ s[i].ids = ms[i + 0].ids
  BY <1>1
<1>4. Len(s) >= 3 => ~IsResult(s[3])
  <2> SUFFICES ASSUME Len(s) >= 3 PROVE ~IsResult(s[3])
    OBVIOUS
  <2>1. 3 \in DOMAIN ms
    BY <1>1
  <2>2. ~IsResult(ms[3])
    BY <2>1, ThirdIsNoResult
  <2> QED
    BY <2>1, <2>2 DEF IsResult
<1>5. Follows(s, ms, 0)
  BY <1>1, <1>2, <1>3, <1>4 DEF Follows
<1>6. \A j \in DOMAIN ms : IsResult(s[j]) <=> IsResult(ms[j])
  BY DEF IsResult
<1>7. ASSUME NEW i \in DOMAIN ms PROVE ResultsAfter(s, i) = ResultsAfter(ms, i)
  <2>1. {j \in DOMAIN s : j > i /\ IsResult(s[j])}
          = {j \in DOMAIN ms : j > i /\ IsResult(ms[j])}
    BY <1>1, <1>6
  <2> QED
    BY <2>1 DEF ResultsAfter
<1> QED
  BY <1>5, <1>7, FollowsWellFormed

LEMMA MicrocompactKeeps ==
  ASSUME NEW ms, NEW n \in Nat, WellFormed(ms, n)
  PROVE  WellFormed(Microcompact(ms), n) /\ Keeps(ms, Microcompact(ms), {}, 0)
<1> DEFINE s == Microcompact(ms)
<1>1. /\ ms \in Seq(Messages) /\ Len(ms) \in Nat /\ DOMAIN ms = 1..Len(ms)
      /\ Len(ms) >= 2 /\ \A i \in DOMAIN ms : ms[i] \in Messages
  BY DEF WellFormed, Headed
<1>2. s = [i \in DOMAIN ms |-> s[i]]
  BY DEF Microcompact
<1>3. ASSUME NEW i \in DOMAIN ms
      PROVE  /\ s[i] \in Messages /\ s[i].role = ms[i].role /\ s[i].ids = ms[i].ids
             /\ s[i] # ms[i] => IsResult(ms[i]) /\ ResultsAfter(ms, i) >= KeepRecent
  <2>1. s[i] = IF IsResult(ms[i]) /\ ms[i].size > Small
                  /\ ResultsAfter(ms, i) >= KeepRecent
               THEN [ms[i] EXCEPT !.size = Small, !.tells = {}] ELSE ms[i]
    BY DEF Microcompact
  <2>2. ms[i] \in Messages
    BY <1>1
  <2>3. LET m == [ms[i] EXCEPT !.size = Small, !.tells = {}]
        IN m \in Messages /\ m.role = ms[i].role /\ m.ids = ms[i].ids
    BY <2>2 DEF Messages, Small
  <2> QED
    BY <2>1, <2>2, <2>3
<1> HIDE DEF s
<1>4. s \in Seq(Messages) /\ Len(s) = Len(ms) /\ DOMAIN s = DOMAIN ms
  BY <1>1, <1>2, <1>3
<1>5. /\ WellFormed(s, n)
      /\ \A i \in DOMAIN ms : ResultsAfter(s, i) = ResultsAfter(ms, i)
  BY <1>3, <1>4, SameShape
<1>6. ASSUME TaskTold(ms) PROVE TaskTold(s)
  <2>1. PICK i \in 2..Len(ms) : Task \in ms[i].tells /\ ~IsResult(ms[i])
    BY <1>6 DEF TaskTold
  <2>2. i \in DOMAIN ms /\ i \in 2..Len(s)
    BY <1>1, <1>4
  <2>3. s[i] = ms[i]
    BY <1>3, <2>1, <2>2
  <2> QED
    BY <2>1, <2>2, <2>3 DEF TaskTold
<1>7. ASSUME NEW x, NEW room \in 0..PreserveRecent, Safe(ms, x, room)
      PROVE  Safe(s, x, room + 0)
  <2>1. PICK i \in DOMAIN ms : /\ x \in ms[i].tells /\ i > Len(ms) - room
                               /\ IsResult(ms[i]) => ResultsAfter(ms, i) < KeepRecent
    BY <1>7 DEF Safe
  <2>2. ResultsAfter(ms, i) \in Nat
    <3>1. {j \in DOMAIN ms : j > i /\ IsResult(ms[j])} \subseteq 1..Len(ms)
          /\ IsFiniteSet(1..Len(ms))
      BY <1>1, FS_Interval
    <3> QED
      BY <3>1, FS_Subset, FS_CardinalityType DEF ResultsAfter
  <2>3. s[i] = ms[i]
    BY <1>3, <2>1, <2>2, TranscriptAssumption
  <2>4. room + 0 = room
    OBVIOUS
  <2> QED
    BY <1>4, <1>5, <2>1, <2>3, <2>4 DEF Safe
<1> QED
  BY <1>5, <1>6, <1>7 DEF Keeps, s

LEMMA FoldKeeps ==
  ASSUME NEW ms, NEW n \in Nat, WellFormed(ms, n), NEW gone
  PROVE  /\ WellFormed(Fold(ms, gone), n)
         /\ Keeps(ms, Fold(ms, gone), IF Task \in gone THEN {"shortened"} ELSE {}, 0)
<1> DEFINE s == Fold(ms, gone)
<1>1. /\ ms \in Seq(Messages) /\ Len(ms) \in Nat /\ DOMAIN ms = 1..Len(ms)
      /\ Len(ms) >= 2 /\ \A i \in DOMAIN ms : ms[i] \in Messages
  BY DEF WellFormed, Headed
<1>2. s = [i \in DOMAIN ms |-> s[i]]
  BY DEF Fold
<1>3. ASSUME NEW i \in DOMAIN ms
      PROVE  /\ s[i] \in Messages /\ s[i].role = ms[i].role /\ s[i].ids = ms[i].ids
             /\ ms[i].tells \ gone \subseteq s[i].tells
             /\ i \notin Old(ms) => s[i] = ms[i]
  <2> DEFINE folded == [ms[i] EXCEPT !.size = Folded, !.tells = @ \ gone]
  <2>1. s[i] = IF i \in Old(ms) THEN folded ELSE ms[i]
    BY DEF Fold
  <2>2. ms[i] \in Messages
    BY <1>1
  <2>3. /\ folded \in Messages /\ folded.role = ms[i].role /\ folded.ids = ms[i].ids
        /\ folded.tells = ms[i].tells \ gone
    BY <2>2 DEF Messages, Folded
  <2> QED
    BY <2>1, <2>2, <2>3
<1> HIDE DEF s
<1>4. s \in Seq(Messages) /\ Len(s) = Len(ms) /\ DOMAIN s = DOMAIN ms
  BY <1>1, <1>2, <1>3
<1>5. /\ WellFormed(s, n)
      /\ \A i \in DOMAIN ms : ResultsAfter(s, i) = ResultsAfter(ms, i)
  BY <1>3, <1>4, SameShape
<1>6. ASSUME Task \notin gone, TaskTold(ms) PROVE TaskTold(s)
  <2>1. PICK i \in 2..Len(ms) : Task \in ms[i].tells /\ ~IsResult(ms[i])
    BY <1>6 DEF TaskTold
  <2>2. i \in DOMAIN ms /\ i \in 2..Len(s)
    BY <1>1, <1>4
  <2>3. Task \in s[i].tells /\ ~IsResult(s[i])
    BY <1>3, <1>6, <2>1, <2>2 DEF IsResult
  <2> QED
    BY <2>2, <2>3 DEF TaskTold
<1>7. ASSUME NEW x, NEW room \in 0..PreserveRecent, Safe(ms, x, room)
      PROVE  Safe(s, x, room + 0)
  <2>1. PICK i \in DOMAIN ms : /\ x \in ms[i].tells /\ i > Len(ms) - room
                               /\ IsResult(ms[i]) => ResultsAfter(ms, i) < KeepRecent
    BY <1>7 DEF Safe
  <2>2. i \notin Old(ms)
    BY <1>1, <2>1, TranscriptAssumption DEF Old
  <2>3. s[i] = ms[i] /\ room + 0 = room
    BY <1>3, <2>2
  <2> QED
    BY <1>4, <1>5, <2>1, <2>3 DEF Safe
<1> QED
  BY <1>5, <1>6, <1>7 DEF Keeps, s

\* What the layers may make of ms, when n calls have been made.
Sound(ms, n, result, more) ==
  \E s, told, causes :
    /\ result = Result(s, told, causes)
    /\ WellFormed(s, n) /\ Keeps(ms, s, causes, more)
    /\ told \in SUBSET Nat /\ causes \in SUBSET Cause

LEMMA KeepsAll ==
  ASSUME NEW ms
  PROVE  Keeps(ms, ms, {}, 0)
BY DEF Keeps

LEMMA KeepsTrans ==
  ASSUME NEW a, NEW b, NEW c, NEW first, NEW second, NEW more,
         Keeps(a, b, first, 0), Keeps(b, c, second, more)
  PROVE  Keeps(a, c, first \cup second, more)
<1>1. ASSUME first \cup second \subseteq {"shortened"}, NEW x,
             NEW room \in 0..PreserveRecent, Safe(a, x, room)
      PROVE  Safe(c, x, room + more)
  <2>1. first \subseteq {"shortened"} /\ second \subseteq {"shortened"} /\ room + 0 = room
    BY <1>1
  <2>2. Safe(b, x, room)
    BY <1>1, <2>1 DEF Keeps
  <2> QED
    BY <1>1, <2>1, <2>2 DEF Keeps
<1> QED
  BY <1>1 DEF Keeps

\* One layer after another: what each has lost is lost.
LEMMA SoundTrans ==
  ASSUME NEW a, NEW n, NEW first, NEW second, NEW more,
         Sound(a, n, first, 0), Sound(first.messages, n, second, more)
  PROVE  Sound(a, n, [second EXCEPT !.lost = @ \cup first.lost], more)
<1>1. PICK b, toldB, causesB :
        /\ first = Result(b, toldB, causesB)
        /\ WellFormed(b, n) /\ Keeps(a, b, causesB, 0)
        /\ toldB \in SUBSET Nat /\ causesB \in SUBSET Cause
  BY DEF Sound
<1>2. first.messages = b /\ first.lost = causesB
  BY <1>1 DEF Result
<1>3. PICK c, toldC, causesC :
        /\ second = Result(c, toldC, causesC)
        /\ WellFormed(c, n) /\ Keeps(b, c, causesC, more)
        /\ toldC \in SUBSET Nat /\ causesC \in SUBSET Cause
  BY <1>2 DEF Sound
<1>4. Keeps(a, c, causesB \cup causesC, more)
  BY <1>1, <1>3, KeepsTrans
<1>5. causesB \cup causesC = causesC \cup causesB
  OBVIOUS
<1>6. [second EXCEPT !.lost = @ \cup first.lost] = Result(c, toldC, causesC \cup causesB)
  BY <1>2, <1>3 DEF Result
<1>7. causesC \cup causesB \in SUBSET Cause
  BY <1>1, <1>3
<1> QED
  BY <1>3, <1>4, <1>5, <1>6, <1>7 DEF Sound

\* A layer that loses nothing.
LEMMA KeepsSound ==
  ASSUME NEW a, NEW b, NEW n, WellFormed(b, n), Keeps(a, b, {}, 0),
         previous \in SUBSET Nat
  PROVE  Sound(a, n, Result(b, previous, {}), 0)
<1>1. {} \in SUBSET Cause
  OBVIOUS
<1> QED
  BY <1>1 DEF Sound

\* The layer before has lost nothing.
LEMMA FirstLosesNothing ==
  ASSUME NEW a, NEW b, NEW n, NEW result, Keeps(a, b, {}, 0), Sound(b, n, result, 0)
  PROVE  Sound(a, n, result, 0) /\ WellFormed(result.messages, n)
<1>1. PICK s, told, causes :
        /\ result = Result(s, told, causes)
        /\ WellFormed(s, n) /\ Keeps(b, s, causes, 0)
        /\ told \in SUBSET Nat /\ causes \in SUBSET Cause
  BY DEF Sound
<1>2. Keeps(a, s, {} \cup causes, 0)
  BY <1>1, KeepsTrans
<1>3. {} \cup causes = causes /\ result.messages = s
  BY <1>1 DEF Result
<1> QED
  BY <1>1, <1>2, <1>3 DEF Sound

LEMMA CollapsedKeeps ==
  ASSUME NEW ms, NEW n \in Nat, WellFormed(ms, n), previous \in SUBSET Nat,
         NEW result \in Collapsed(ms)
  PROVE  Sound(ms, n, result, 0)
<1>1. PICK gone \in SUBSET UNION {ms[i].tells : i \in Old(ms)} :
        result = Result(Fold(ms, gone), previous,
                        IF Task \in gone THEN {"shortened"} ELSE {})
  BY DEF Collapsed
<1> DEFINE causes == IF Task \in gone THEN {"shortened"} ELSE {}
<1>2. causes \in SUBSET Cause
  BY DEF Cause
<1>3. WellFormed(Fold(ms, gone), n) /\ Keeps(ms, Fold(ms, gone), causes, 0)
  BY FoldKeeps
<1> HIDE DEF causes
<1>4. result = Result(Fold(ms, gone), previous, causes)
  BY <1>1 DEF causes
<1> QED
  BY <1>2, <1>3, <1>4 DEF Sound

LEMMA HeadEndType ==
  ASSUME NEW body \in Seq(Messages), NEW emergency \in BOOLEAN
  PROVE  LET cut == BudgetCut(body, emergency)
             end == HeadEnd(body, emergency)
         IN /\ end \in 0..Len(body)
            /\ PastResults(body, cut) # 0 =>
                 end # 0 /\ (end < Len(body) => ~IsResult(body[end + 1]))
<1> DEFINE cut == BudgetCut(body, emergency)
           past == PastResults(body, cut)
           end == HeadEnd(body, emergency)
<1>1. Len(body) \in Nat /\ cut \in 0..Len(body)
  BY BudgetCutType
<1>2. end = IF past > 0 THEN past ELSE IF Len(body) > 2 THEN Len(body) \div 2 ELSE 0
  BY DEF HeadEnd
<1>3. Len(body) \div 2 \in 0..Len(body)
  BY <1>1
<1>4. CASE cut = 0
  <2>1. past = 0
    BY <1>4 DEF PastResults
  <2> HIDE DEF past, cut, end
  <2>2. end \in 0..Len(body)
    BY <1>1, <1>2, <1>3, <2>1
  <2> QED
    BY <2>1, <2>2 DEF past, cut, end
<1>5. CASE cut # 0
  <2>1. cut \in 1..Len(body)
    BY <1>1, <1>5
  <2>2. past \in cut..Len(body) /\ (past < Len(body) => ~IsResult(body[past + 1]))
    BY <2>1, PastResultsType
  <2> HIDE DEF past, cut, end
  <2>3. end = past /\ past # 0
    BY <1>1, <1>2, <2>1, <2>2
  <2> QED
    BY <1>1, <2>1, <2>2, <2>3 DEF past, cut, end
<1> QED
  BY <1>4, <1>5

\* A summary of head in front of what is left behind e messages of the body.
LEMMA JoinedKeeps ==
  ASSUME NEW ms, NEW n \in Nat, WellFormed(ms, n), NEW m \in Messages,
         m.role = "user", m.ids = {}, NEW c \in 1..(Len(ms) - 1),
         c < Len(ms) - 1 => ~IsResult(Body(ms)[c + 1]),
         \A i \in 2..(c + 1) : ms[i].tells \subseteq m.tells,
         NEW x, NEW room \in Nat, Safe(ms, x, room)
  PROVE  Safe(Joined(ms, m, c), x, room)
<1> DEFINE s == Joined(ms, m, c)
<1>1. /\ ms \in Seq(Messages) /\ Len(ms) \in Nat /\ DOMAIN ms = 1..Len(ms)
      /\ Len(ms) >= 2 /\ ms[1].role = "system"
  BY DEF WellFormed, Headed
<1>2. /\ s \in Seq(Messages) /\ Len(s) = Len(ms) - (c - 1)
      /\ s[1] = ms[1] /\ s[2] = m
      /\ \A i \in 3..Len(s) : s[i] = ms[i + (c - 1)]
  BY <1>1, JoinedType
<1>3. Follows(s, ms, c - 1)
  BY JoinedFollows
<1> HIDE DEF s
<1>4. DOMAIN s = 1..Len(s) /\ Len(s) >= 2 /\ Len(s) \in Nat
  BY <1>1, <1>2
<1>5. PICK i \in DOMAIN ms : /\ x \in ms[i].tells /\ i > Len(ms) - room
                             /\ IsResult(ms[i]) => ResultsAfter(ms, i) < KeepRecent
  BY DEF Safe
<1>6. CASE i = 1
  <2>1. 1 \in DOMAIN s /\ x \in s[1].tells /\ ~IsResult(s[1])
    BY <1>1, <1>2, <1>4, <1>5, <1>6 DEF IsResult
  <2>2. 1 > Len(s) - room
    BY <1>1, <1>2, <1>5, <1>6
  <2> QED
    BY <2>1, <2>2 DEF Safe, s
<1>7. CASE i \in 2..(c + 1)
  <2>1. 2 \in DOMAIN s /\ x \in s[2].tells /\ ~IsResult(s[2])
    BY <1>2, <1>4, <1>5, <1>7 DEF IsResult
  <2>2. 2 > Len(s) - room
    BY <1>1, <1>2, <1>5, <1>7
  <2> QED
    BY <2>1, <2>2 DEF Safe, s
<1>8. CASE i > c + 1
  <2>1. i - (c - 1) \in 3..Len(s) /\ (i - (c - 1)) + (c - 1) = i
    BY <1>1, <1>2, <1>8
  <2>2. s[i - (c - 1)] = ms[i]
    BY <1>2, <2>1
  <2>3. ResultsAfter(s, i - (c - 1)) = ResultsAfter(ms, i)
    BY <1>3, <2>1, FollowsResultsAfter
  <2>4. i - (c - 1) \in DOMAIN s
    BY <1>4, <2>1
  <2>5. i - (c - 1) > Len(s) - room
    BY <1>1, <1>2, <1>5
  <2> QED
    BY <1>5, <2>2, <2>3, <2>4, <2>5 DEF Safe, s
<1>9. i = 1 \/ i \in 2..(c + 1) \/ i > c + 1
  BY <1>1
<1> QED
  BY <1>6, <1>7, <1>8, <1>9

\* _auto_compact: what it writes is well formed, and it tells the task and the
\* results unless one of the causes holds.
LEMMA CompactedKeeps ==
  ASSUME NEW ms, NEW n \in Nat, WellFormed(ms, n), previous \in SUBSET Nat,
         NEW emergency \in BOOLEAN, NEW result \in Compacted(ms, emergency)
  PROVE  Sound(ms, n, result, 0)
<1> DEFINE body == Body(ms)
           end == HeadEnd(body, emergency)
           head == SubSeq(body, 1, end)
           input == Summarised(head, emergency)
           forced == PastResults(body, BudgetCut(body, emergency)) = 0
           causes == (IF forced THEN {"split"} ELSE {})
                       \cup (IF input # head THEN {"cut"} ELSE {})
                       \cup (IF TaskUnread(head, emergency) THEN {"unread"} ELSE {})
           Summary(size, told) == Message("user", {}, size, told)
           With(size, told) == FixToolPairs(Joined(ms, Summary(size, told), end))
           told == previous \cup Told(input)
<1>1. \/ end = 0 /\ result = Result(ms, previous, {})
      \/ /\ end # 0
         /\ \E size \in Sizes :
              \/ result = Result(With(size, told), told, causes)
              \/ result = Result(With(size, {}), {}, causes \cup {"fallback"})
  BY DEF Compacted, Joined
<1>2. /\ ms \in Seq(Messages) /\ Len(ms) \in Nat /\ DOMAIN ms = 1..Len(ms)
      /\ Len(ms) >= 2 /\ \A i \in DOMAIN ms : ms[i] \in Messages
  BY DEF WellFormed, Headed
<1>3. /\ body \in Seq(Messages) /\ Len(body) = Len(ms) - 1
      /\ \A i \in 1..(Len(ms) - 1) : body[i] = ms[i + 1]
  BY <1>2, BodyType
<1>4. /\ end \in 0..Len(body)
      /\ ~forced => end # 0 /\ (end < Len(body) => ~IsResult(body[end + 1]))
  BY <1>3, HeadEndType
<1>5. CASE end = 0
  <2>1. result = Result(ms, previous, {}) /\ {} \in SUBSET Cause
    BY <1>1, <1>5
  <2> QED
    BY <2>1, KeepsAll DEF Sound
<1>6. CASE end # 0
  <2>0. end \in 1..(Len(ms) - 1)
    BY <1>2, <1>3, <1>4, <1>6
  <2>1. /\ head \in Seq(Messages) /\ Len(head) = end
        /\ \A i \in 1..end : head[i] = ms[i + 1]
    <3>1. 1 \in 1..(Len(body) + 1)
      BY <1>2, <1>3
    <3>2. /\ head \in Seq(Messages)
          /\ Len(head) = IF 1 <= end THEN end - 1 + 1 ELSE 0
          /\ \A i \in 1..(end - 1 + 1) : head[i] = body[1 + i - 1]
      BY <1>3, <1>4, <3>1, PartType
    <3> HIDE DEF head, end, body
    <3> QED
      BY <1>2, <1>3, <2>0, <3>2
  <2>2. PICK k \in 0..end : /\ input = SubSeq(head, 1, k)
                            /\ \A more \in (k + 1)..end : ~Fits(head, more, emergency)
    BY <2>1, SummarisedType
  <2>3. /\ input \in Seq(Messages) /\ (k = 0 => input = <<>>) /\ Len(input) = k
        /\ \A i \in 1..k : input[i] = ms[i + 1]
    <3>1. 1 \in 1..(Len(head) + 1) /\ k \in 0..Len(head)
      BY <2>0, <2>1
    <3>2. /\ input \in Seq(Messages) /\ (input = <<>> <=> k < 1)
          /\ Len(input) = IF 1 <= k THEN k - 1 + 1 ELSE 0
          /\ \A i \in 1..(k - 1 + 1) : input[i] = head[1 + i - 1]
      BY <2>1, <2>2, <3>1, PartType
    <3> HIDE DEF head, input, end
    <3> QED
      BY <2>0, <2>1, <2>2, <3>2
  <2>4. Told(input) \in SUBSET Nat /\ \A i \in 1..k : ms[i + 1].tells \subseteq Told(input)
    <3>1. DOMAIN input = 1..k /\ \A i \in 1..k : input[i] \in Messages
      <4> HIDE DEF input
      <4> QED
        BY <2>0, <2>2, <2>3
    <3>2. Told(input) = UNION {input[i].tells : i \in 1..k}
      <4> HIDE DEF input
      <4> QED
        BY <3>1 DEF Told, Range
    <3> HIDE DEF input
    <3>3. \A i \in 1..k : input[i].tells \in SUBSET Nat
      BY <3>1 DEF Messages
    <3>4. Told(input) \in SUBSET Nat
      BY <3>2, <3>3
    <3>5. \A i \in 1..k : ms[i + 1].tells \subseteq Told(input)
      BY <2>3, <3>2
    <3> QED
      BY <3>4, <3>5
  <2>16. ASSUME NEW i \in 2..(end + 1), Task \in ms[i].tells,
                ~TaskUnread(head, emergency)
         PROVE  Task \in Told(input)
    <3>1. i - 1 \in 1..end /\ (i - 1) + 1 = i
      BY <2>0, <2>16
    <3> HIDE DEF end
    <3>2. DOMAIN head = 1..end
      <4> HIDE DEF head
      <4> QED
        BY <2>0, <2>1
    <3> HIDE DEF head, input
    <3>3. head[i - 1] = ms[i]
      BY <2>1, <3>1
    <3>4. Fits(head, i - 1, emergency)
      BY <2>16, <3>1, <3>2, <3>3 DEF TaskUnread
    <3>5. i - 1 \in 1..k
      BY <2>0, <2>2, <3>1, <3>4
    <3>6. ms[(i - 1) + 1].tells \subseteq Told(input)
      BY <2>4, <3>5
    <3> QED
      BY <2>16, <3>1, <3>6
  <2> HIDE DEF input, head
  <2>5. told \in SUBSET Nat
    BY <2>4
  <2> DEFINE e == PastResults(body, end)
  <2>6. /\ e \in end..(Len(ms) - 1)
        /\ e < Len(ms) - 1 => ~IsResult(body[e + 1])
        /\ \A i \in end..(e - 1) : IsResult(body[i + 1])
    <3>1. end \in 1..Len(body)
      BY <1>3, <2>0
    <3> HIDE DEF end, body
    <3> QED
      BY <1>3, <3>1, PastResultsType
  <2> HIDE DEF body, end, forced, e
  <2>7. e \in 1..(Len(ms) - 1)
    BY <1>2, <2>0, <2>6
  <2>8. ~forced => e = end
    <3> SUFFICES ASSUME ~forced, e # end PROVE FALSE
      OBVIOUS
    <3>1. end \in end..(e - 1) /\ end < Len(body)
      BY <1>2, <1>3, <2>0, <2>6
    <3> QED
      BY <1>4, <2>6, <3>1
  <2>9. ASSUME NEW size \in Sizes, NEW t \in SUBSET Nat
        PROVE  LET m == Summary(size, t)
               IN /\ m \in Messages /\ m.role = "user" /\ m.ids = {} /\ m.tells = t
                  /\ With(size, t) = Joined(ms, m, e)
                  /\ WellFormed(Joined(ms, m, e), n) /\ Joined(ms, m, e)[2] = m
    <3> DEFINE m == Summary(size, t)
    <3>1. m \in Messages /\ m.role = "user" /\ m.ids = {} /\ m.tells = t
      BY DEF Message, Messages, Role, Sizes, Small, Big
    <3> HIDE DEF m
    <3>2. FixToolPairs(Joined(ms, m, end)) = Joined(ms, m, e)
      BY <2>0, <2>6, <3>1, FixDropsOrphans DEF body
    <3>3. Follows(Joined(ms, m, e), ms, e - 1)
      BY <2>6, <2>7, <3>1, JoinedFollows DEF body
    <3>4. WellFormed(Joined(ms, m, e), n)
      BY <3>3, FollowsWellFormed
    <3>5. Joined(ms, m, e)[2] = m
      BY <1>2, <2>7, <3>1, JoinedType
    <3> QED
      BY <3>1, <3>2, <3>4, <3>5 DEF m
  <2>10. ASSUME NEW size \in Sizes
         PROVE  Keeps(ms, Joined(ms, Summary(size, told), e), causes, 0)
    <3> DEFINE m == Summary(size, told)
               s == Joined(ms, m, e)
    <3>1. m \in Messages /\ m.role = "user" /\ m.ids = {} /\ m.tells = told /\ s[2] = m
      BY <2>5, <2>9
    <3>4. /\ Len(s) = Len(ms) - (e - 1) /\ Len(s) \in Nat /\ Len(s) >= 2
          /\ \A i \in 3..Len(s) : s[i] = ms[i + (e - 1)]
      <4> HIDE DEF m
      <4>1. /\ Len(s) = Len(ms) - (e - 1)
            /\ \A i \in 3..Len(s) : s[i] = ms[i + (e - 1)]
        BY <1>2, <2>7, <3>1, JoinedType
      <4> HIDE DEF s
      <4> QED
        BY <1>2, <2>7, <4>1
    <3>2. ASSUME {"fallback", "unread", "shortened", "trimmed"} \cap causes = {},
                 TaskTold(ms)
          PROVE  TaskTold(s)
      <4>1. ~TaskUnread(head, emergency)
        BY <3>2
      <4>2. PICK i \in 2..Len(ms) : Task \in ms[i].tells /\ ~IsResult(ms[i])
        BY <3>2 DEF TaskTold
      <4> HIDE DEF m, s, causes
      <4>3. CASE i \in 2..(end + 1)
        <5>1. Task \in Told(input)
          BY <2>16, <4>1, <4>2, <4>3
        <5>2. Task \in s[2].tells /\ ~IsResult(s[2]) /\ 2 \in 2..Len(s)
          BY <3>1, <3>4, <5>1 DEF IsResult
        <5> QED
          BY <5>2 DEF TaskTold
      <4>4. CASE i > end + 1
        <5>1. i - 1 \in 1..(Len(ms) - 1) /\ (i - 1) + 1 = i
          BY <1>2, <2>0, <4>4
        <5>2. ~IsResult(body[i - 1])
          BY <1>3, <4>2, <5>1
        <5>3. ~(i - 2 \in end..(e - 1))
          <6>1. (i - 2) + 1 = i - 1
            BY <4>2
          <6> QED
            BY <2>6, <5>2, <6>1
        <5>4. i > e + 1
          BY <1>2, <2>0, <2>7, <4>4, <5>3
        <5>5. i - (e - 1) \in 3..Len(s) /\ (i - (e - 1)) + (e - 1) = i
          BY <1>2, <2>7, <3>4, <5>4
        <5>6. s[i - (e - 1)] = ms[i] /\ i - (e - 1) \in 2..Len(s)
          BY <3>4, <5>5
        <5> QED
          BY <4>2, <5>6 DEF TaskTold
      <4>5. i \in 2..(end + 1) \/ i > end + 1
        BY <1>2, <2>0
      <4> QED
        BY <4>3, <4>4, <4>5
    <3>3. ASSUME causes \subseteq {"shortened"}, NEW x, NEW room \in 0..PreserveRecent,
                 Safe(ms, x, room)
          PROVE  Safe(s, x, room + 0)
      <4>1. ~forced /\ input = head
        BY <3>3
      <4>2. e = end /\ k = end
        BY <2>0, <2>1, <2>2, <2>3, <2>8, <4>1
      <4>3. ASSUME NEW i \in 2..(e + 1) PROVE ms[i].tells \subseteq m.tells
        <5>1. i - 1 \in 1..k /\ (i - 1) + 1 = i
          BY <2>0, <4>2
        <5>2. ms[(i - 1) + 1].tells \subseteq Told(input)
          BY <2>4, <5>1
        <5> HIDE DEF m
        <5> QED
          BY <3>1, <5>1, <5>2
      <4>4. e < Len(ms) - 1 => ~IsResult(Body(ms)[e + 1])
        BY <2>6 DEF body
      <4>5. room \in Nat /\ room + 0 = room
        BY TranscriptAssumption
      <4> HIDE DEF m
      <4>6. Safe(s, x, room)
        BY <2>7, <3>1, <3>3, <4>3, <4>4, <4>5, JoinedKeeps
      <4> QED
        BY <4>5, <4>6
    <3> HIDE DEF m, causes
    <3> QED
      BY <3>2, <3>3 DEF Keeps, m
  <2>11. ASSUME NEW s PROVE Keeps(ms, s, causes \cup {"fallback"}, 0)
    BY DEF Keeps
  <2>12. PICK size \in Sizes :
           \/ result = Result(With(size, told), told, causes)
           \/ result = Result(With(size, {}), {}, causes \cup {"fallback"})
    BY <1>1, <1>6
  <2>15. causes \in SUBSET Cause /\ causes \cup {"fallback"} \in SUBSET Cause
    BY DEF Cause
  <2> HIDE DEF causes, told
  <2>13. CASE result = Result(With(size, told), told, causes)
    <3>1. result = Result(Joined(ms, Summary(size, told), e), told, causes)
      BY <2>5, <2>9, <2>13
    <3>2. WellFormed(Joined(ms, Summary(size, told), e), n)
      BY <2>5, <2>9
    <3> HIDE DEF Summary
    <3> QED
      BY <2>5, <2>10, <2>15, <3>1, <3>2 DEF Sound
  <2>14. CASE result = Result(With(size, {}), {}, causes \cup {"fallback"})
    <3>0. {} \in SUBSET Nat
      OBVIOUS
    <3>1. /\ result = Result(Joined(ms, Summary(size, {}), e), {}, causes \cup {"fallback"})
          /\ WellFormed(Joined(ms, Summary(size, {}), e), n)
      BY <2>9, <2>14, <3>0
    <3> HIDE DEF Summary
    <3> QED
      BY <2>11, <2>15, <3>0, <3>1 DEF Sound
  <2> QED
    BY <2>12, <2>13, <2>14
<1> QED
  BY <1>5, <1>6

-----------------------------------------------------------------------------
(***************************************************************************)
(* What is added to the transcript                                         *)
(***************************************************************************)
\* The loop adds a message that makes no call and answers none.
LEMMA AppendKeeps ==
  ASSUME NEW ms, NEW n \in Nat, WellFormed(ms, n), NEW m \in Messages,
         ~IsResult(m), m.ids = {}
  PROVE  /\ WellFormed(Append(ms, m), n) /\ Keeps(ms, Append(ms, m), {}, 1)
<1> DEFINE s == Append(ms, m)
<1>1. /\ ms \in Seq(Messages) /\ Len(ms) \in Nat /\ DOMAIN ms = 1..Len(ms)
      /\ Len(ms) >= 2
  BY DEF WellFormed, Headed
<1>2. /\ s \in Seq(Messages) /\ Len(s) = Len(ms) + 1 /\ DOMAIN s = 1..(Len(ms) + 1)
      /\ \A i \in DOMAIN ms : s[i] = ms[i] /\ i \in DOMAIN s
      /\ s[Len(ms) + 1] = m
  BY <1>1
<1> HIDE DEF s
<1>3. \A i \in DOMAIN s : i \in DOMAIN ms \/ i = Len(ms) + 1
  BY <1>1, <1>2
<1>4. \A i \in DOMAIN ms : Answers(s, i) = Answers(ms, i)
  BY <1>2 DEF Answers
<1>5. Answers(s, Len(ms) + 1) = {}
  <2>1. Cardinality(s[Len(ms) + 1].ids) = 0
    BY <1>2, FS_EmptySet
  <2> QED
    BY <1>1, <2>1 DEF Answers
<1>6. Headed(s)
  <2>1. 1 \in DOMAIN ms /\ 2 \in DOMAIN ms
    BY <1>1
  <2>2. \A i \in DOMAIN s : IsResult(s[i]) => s[i].ids # {}
    BY <1>2, <1>3 DEF WellFormed, Headed
  <2>3. Len(s) >= 2
    BY <1>1, <1>2
  <2> QED
    BY <1>2, <2>1, <2>2, <2>3 DEF WellFormed, Headed
<1>7. Numbered(s, n)
  <2>1. \A i \in DOMAIN s : s[i].ids = {} \/ (i \in DOMAIN ms /\ s[i] = ms[i])
    BY <1>2, <1>3
  <2>2. ASSUME NEW i \in DOMAIN s, IsCall(s[i]) PROVE s[i].ids \subseteq 1..n
    BY <2>1, <2>2 DEF WellFormed, Numbered
  <2>3. ASSUME NEW i \in DOMAIN s, NEW j \in DOMAIN s, IsCall(s[i]), IsCall(s[j]),
               i # j
        PROVE  s[i].ids \cap s[j].ids = {}
    BY <2>1, <2>3 DEF WellFormed, Numbered
  <2> QED
    BY <2>2, <2>3 DEF Numbered
<1>8. Answered(s)
  <2> SUFFICES ASSUME NEW i \in DOMAIN s, IsCall(s[i])
               PROVE  /\ \A j \in Answers(s, i) : j \in DOMAIN s /\ IsResult(s[j])
                      /\ UNION {s[j].ids : j \in Answers(s, i)} = s[i].ids
    BY DEF Answered
  <2>1. CASE i \in DOMAIN ms
    <3>1. s[i] = ms[i] /\ Answers(s, i) = Answers(ms, i)
      BY <1>2, <1>4, <2>1
    <3>2. /\ \A j \in Answers(ms, i) : j \in DOMAIN ms /\ IsResult(ms[j])
          /\ UNION {ms[j].ids : j \in Answers(ms, i)} = ms[i].ids
      BY <2>1, <3>1 DEF WellFormed, Answered
    <3>3. \A j \in Answers(ms, i) : s[j] = ms[j] /\ j \in DOMAIN s
      BY <1>2, <3>2
    <3> QED
      BY <3>1, <3>2, <3>3
  <2>2. CASE i = Len(ms) + 1
    BY <1>2, <1>5, <2>2
  <2> QED
    BY <1>3, <2>1, <2>2
<1>9. Called(s)
  <2> SUFFICES ASSUME NEW j \in DOMAIN s, IsResult(s[j])
               PROVE  \E i \in DOMAIN s : IsCall(s[i]) /\ j \in Answers(s, i)
    BY DEF Called
  <2>1. j \in DOMAIN ms /\ IsResult(ms[j])
    BY <1>2, <1>3
  <2>2. PICK i \in DOMAIN ms : IsCall(ms[i]) /\ j \in Answers(ms, i)
    BY <2>1 DEF WellFormed, Called
  <2> QED
    BY <1>2, <1>4, <2>2
<1>10. ASSUME NEW x, NEW room \in 0..PreserveRecent, Safe(ms, x, room)
       PROVE  Safe(s, x, room + 1)
  <2>1. PICK i \in DOMAIN ms : /\ x \in ms[i].tells /\ i > Len(ms) - room
                               /\ IsResult(ms[i]) => ResultsAfter(ms, i) < KeepRecent
    BY <1>10 DEF Safe
  <2>2. {j \in DOMAIN s : j > i /\ IsResult(s[j])}
          = {j \in DOMAIN ms : j > i /\ IsResult(ms[j])}
    BY <1>2, <1>3
  <2>3. i > Len(s) - (room + 1)
    BY <1>1, <1>2, <2>1
  <2> QED
    BY <1>2, <2>1, <2>2, <2>3 DEF Safe, ResultsAfter
<1>11. TaskTold(ms) => TaskTold(s)
  <2>1. \A i \in 2..Len(ms) : i \in 2..Len(s) /\ s[i] = ms[i]
    BY <1>1, <1>2
  <2> QED
    BY <2>1 DEF TaskTold
<1> QED
  BY <1>6, <1>7, <1>8, <1>9, <1>10, <1>11 DEF WellFormed, Keeps, s

\* The results of the calls ids, and the transcript with the calls and them.
AnswersAll(results, ids) ==
  /\ results \in Seq(Messages)
  /\ \A j \in 1..Len(results) : /\ IsResult(results[j]) /\ results[j].ids # {}
                                /\ results[j].ids \subseteq ids
  /\ \A x \in ids : \E j \in 1..Len(results) : x \in results[j].ids
Extended(ms, ids, results) ==
  Append(ms, Message("assistant", ids, Small, {})) \o results

\* The model's calls and their results.  If there are not more of them than are
\* kept, none is cleared before the next request.
LEMMA CallKeeps ==
  ASSUME NEW ms, NEW n \in Nat, WellFormed(ms, n), NEW k \in Nat \ {0},
         NEW results, Len(results) = k, AnswersAll(results, (n + 1)..(n + k))
  PROVE  /\ WellFormed(Extended(ms, (n + 1)..(n + k), results), n + k)
         /\ TaskTold(ms) => TaskTold(Extended(ms, (n + 1)..(n + k), results))
         /\ k <= KeepRecent =>
              \A j \in 1..k : \A x \in results[j].tells :
                Safe(Extended(ms, (n + 1)..(n + k), results), x, KeepRecent)
<1> DEFINE ids == (n + 1)..(n + k)
           call == Message("assistant", ids, Small, {})
           s == Extended(ms, ids, results)
           L == Len(ms)
<1>0. /\ results \in Seq(Messages)
      /\ \A j \in 1..k : /\ IsResult(results[j]) /\ results[j].ids # {}
                         /\ results[j].ids \subseteq ids
      /\ \A x \in ids : \E j \in 1..k : x \in results[j].ids
  BY DEF AnswersAll
<1>1. /\ ms \in Seq(Messages) /\ L \in Nat /\ DOMAIN ms = 1..L /\ L >= 2
  BY DEF WellFormed, Headed
<1>2. call \in Messages /\ IsCall(call) /\ ~IsResult(call) /\ call.ids = ids
  BY DEF Message, Messages, Role, Small, IsCall, IsResult
<1>3. Cardinality(ids) = k
  BY FS_Interval
<1> HIDE DEF call, ids, s
<1>4. /\ s \in Seq(Messages) /\ Len(s) = L + 1 + k /\ DOMAIN s = 1..(L + 1 + k)
      /\ \A i \in 1..L : s[i] = ms[i]
      /\ s[L + 1] = call
      /\ \A j \in 1..k : s[L + 1 + j] = results[j]
  <2> DEFINE front == Append(ms, call)
  <2>1. /\ front \in Seq(Messages) /\ Len(front) = L + 1
        /\ \A i \in 1..L : front[i] = ms[i]
        /\ front[L + 1] = call
    BY <1>1, <1>2
  <2> HIDE DEF front
  <2>2. /\ front \o results \in Seq(Messages)
        /\ Len(front \o results) = Len(front) + Len(results)
        /\ \A i \in 1..Len(front) : (front \o results)[i] = front[i]
        /\ \A i \in (Len(front) + 1)..(Len(front) + Len(results)) :
             (front \o results)[i] = results[i - Len(front)]
    BY <1>0, <2>1, ConcatType
  <2>3. s = front \o results
    BY DEF front, s, call, Extended
  <2>4. ASSUME NEW j \in 1..k PROVE s[L + 1 + j] = results[j]
    <3>1. L + 1 + j \in (Len(front) + 1)..(Len(front) + Len(results))
          /\ (L + 1 + j) - Len(front) = j
      BY <1>1, <2>1
    <3> QED
      BY <2>2, <2>3, <3>1
  <2>5. s \in Seq(Messages) /\ Len(s) = L + 1 + k
    BY <1>0, <1>1, <2>1, <2>2, <2>3
  <2>6. ASSUME NEW i \in 1..(L + 1) PROVE s[i] = front[i]
    BY <1>0, <1>1, <2>1, <2>2, <2>3
  <2>7. (\A i \in 1..L : s[i] = ms[i]) /\ s[L + 1] = call
    BY <1>1, <2>1, <2>6
  <2> QED
    BY <1>1, <2>4, <2>5, <2>7
<1>5. ASSUME NEW i \in DOMAIN s
      PROVE  i \in 1..L \/ i = L + 1 \/ \E j \in 1..k : i = L + 1 + j
  <2>1. CASE i > L + 1
    <3>1. i - (L + 1) \in 1..k /\ i = L + 1 + (i - (L + 1))
      BY <1>1, <1>4, <2>1
    <3> QED
      BY <3>1
  <2>2. CASE ~(i > L + 1)
    BY <1>1, <1>4, <2>2
  <2> QED
    BY <2>1, <2>2
<1>6. \A i \in 1..L : i \in DOMAIN s /\ Answers(s, i) = Answers(ms, i)
  BY <1>1, <1>4 DEF Answers
<1>7. L + 1 \in DOMAIN s /\ Answers(s, L + 1) = (L + 2)..(L + 1 + k)
  <2>1. Cardinality(s[L + 1].ids) = k
    BY <1>2, <1>3, <1>4
  <2> QED
    BY <1>1, <1>4, <2>1 DEF Answers
<1>8. ASSUME NEW i \in Answers(s, L + 1)
      PROVE  \E j \in 1..k : i = L + 1 + j /\ s[i] = results[j]
  <2>1. i - (L + 1) \in 1..k /\ i = L + 1 + (i - (L + 1))
    BY <1>1, <1>7
  <2> QED
    BY <1>4, <2>1
<1>9. \A j \in 1..k : L + 1 + j \in Answers(s, L + 1) /\ L + 1 + j \in DOMAIN s
  BY <1>1, <1>4, <1>7
<1>10. \A i \in DOMAIN s : IsCall(s[i]) => i \in 1..L \/ i = L + 1
  <2>1. \A j \in 1..k : ~IsCall(s[L + 1 + j])
    BY <1>0, <1>4 DEF IsCall, IsResult
  <2> QED
    BY <1>5, <2>1
<1>11. Headed(s)
  <2>1. 1 \in 1..L /\ 2 \in 1..L /\ Len(s) >= 2
    BY <1>1, <1>4
  <2>2. ASSUME NEW i \in DOMAIN s, IsResult(s[i]) PROVE s[i].ids # {}
    <3>1. CASE i \in 1..L
      BY <1>1, <1>4, <2>2, <3>1 DEF WellFormed, Headed
    <3>2. CASE i = L + 1
      BY <1>2, <1>4, <2>2, <3>2
    <3>3. CASE \E j \in 1..k : i = L + 1 + j
      BY <1>0, <1>4, <3>3
    <3> QED
      BY <1>5, <3>1, <3>2, <3>3
  <2> QED
    BY <1>4, <2>1, <2>2 DEF WellFormed, Headed
<1>12. Numbered(s, n + k)
  <2>1. ASSUME NEW i \in 1..L, IsCall(s[i]) PROVE s[i].ids \subseteq 1..n
    BY <1>1, <1>4, <2>1 DEF WellFormed, Numbered
  <2>2. 1..n \subseteq 1..(n + k) /\ ids \subseteq 1..(n + k) /\ ids \cap 1..n = {}
    BY DEF ids
  <2>3. ASSUME NEW i \in DOMAIN s, IsCall(s[i]) PROVE s[i].ids \subseteq 1..(n + k)
    BY <1>2, <1>4, <1>10, <2>1, <2>2, <2>3
  <2>4. ASSUME NEW i \in DOMAIN s, NEW j \in DOMAIN s, IsCall(s[i]), IsCall(s[j]),
               i # j
        PROVE  s[i].ids \cap s[j].ids = {}
    <3>1. CASE i \in 1..L /\ j \in 1..L
      BY <1>1, <1>4, <2>4, <3>1 DEF WellFormed, Numbered
    <3>2. CASE i = L + 1 /\ j \in 1..L
      BY <1>2, <1>4, <2>1, <2>2, <2>4, <3>2
    <3>3. CASE i \in 1..L /\ j = L + 1
      BY <1>2, <1>4, <2>1, <2>2, <2>4, <3>3
    <3> QED
      BY <1>10, <2>4, <3>1, <3>2, <3>3
  <2> QED
    BY <2>3, <2>4 DEF Numbered
<1>13. Answered(s)
  <2> SUFFICES ASSUME NEW i \in DOMAIN s, IsCall(s[i])
               PROVE  /\ \A j \in Answers(s, i) : j \in DOMAIN s /\ IsResult(s[j])
                      /\ UNION {s[j].ids : j \in Answers(s, i)} = s[i].ids
    BY DEF Answered
  <2>1. CASE i \in 1..L
    <3>1. s[i] = ms[i] /\ Answers(s, i) = Answers(ms, i)
      BY <1>4, <1>6, <2>1
    <3>2. /\ \A j \in Answers(ms, i) : j \in DOMAIN ms /\ IsResult(ms[j])
          /\ UNION {ms[j].ids : j \in Answers(ms, i)} = ms[i].ids
      BY <1>1, <2>1, <3>1 DEF WellFormed, Answered
    <3>3. \A j \in Answers(ms, i) : s[j] = ms[j] /\ j \in DOMAIN s
      BY <1>1, <1>4, <1>6, <3>2
    <3> QED
      BY <3>1, <3>2, <3>3
  <2>2. CASE i = L + 1
    <3>1. \A j \in Answers(s, L + 1) : j \in DOMAIN s /\ IsResult(s[j])
      BY <1>0, <1>8, <1>9
    <3>2. \A j \in Answers(s, L + 1) : s[j].ids \subseteq ids
      BY <1>0, <1>8
    <3>3. ASSUME NEW x \in ids PROVE \E j \in Answers(s, L + 1) : x \in s[j].ids
      <4>1. PICK j \in 1..k : x \in results[j].ids
        BY <1>0
      <4> QED
        BY <1>4, <1>9, <4>1
    <3>4. UNION {s[j].ids : j \in Answers(s, L + 1)} = ids
      BY <3>2, <3>3
    <3>5. s[i].ids = ids
      BY <1>2, <1>4, <2>2
    <3> QED
      BY <2>2, <3>1, <3>4, <3>5
  <2> QED
    BY <1>10, <2>1, <2>2
<1>14. Called(s)
  <2> SUFFICES ASSUME NEW j \in DOMAIN s, IsResult(s[j])
               PROVE  \E i \in DOMAIN s : IsCall(s[i]) /\ j \in Answers(s, i)
    BY DEF Called
  <2>1. CASE j \in 1..L
    <3>1. IsResult(ms[j])
      BY <1>4, <2>1
    <3>2. PICK i \in DOMAIN ms : IsCall(ms[i]) /\ j \in Answers(ms, i)
      BY <1>1, <2>1, <3>1 DEF WellFormed, Called
    <3> QED
      BY <1>1, <1>4, <1>6, <3>2
  <2>2. CASE j = L + 1
    BY <1>2, <1>4, <2>2
  <2>3. CASE \E i \in 1..k : j = L + 1 + i
    BY <1>0, <1>2, <1>4, <1>7, <1>9, <2>3
  <2> QED
    BY <1>5, <2>1, <2>2, <2>3
<1>15. ASSUME k <= KeepRecent, NEW j \in 1..k, NEW x \in results[j].tells
       PROVE  Safe(s, x, KeepRecent)
  <2> DEFINE after == {i \in DOMAIN s : i > L + 1 + j /\ IsResult(s[i])}
  <2>1. after \subseteq (L + 2 + j)..(L + 1 + k)
    BY <1>1, <1>4
  <2>2. /\ IsFiniteSet((L + 2 + j)..(L + 1 + k))
        /\ Cardinality((L + 2 + j)..(L + 1 + k)) < k
    <3> DEFINE a == L + 2 + j
               b == L + 1 + k
    <3>1. a \in Int /\ b \in Int /\ b - a + 1 < k
      BY <1>1
    <3> HIDE DEF a, b
    <3>2. IsFiniteSet(a..b) /\ Cardinality(a..b) = IF a > b THEN 0 ELSE b - a + 1
      BY <3>1, FS_Interval
    <3>3. Cardinality(a..b) < k
      BY <3>1, <3>2
    <3> QED
      BY <3>2, <3>3 DEF a, b
  <2>3. Cardinality(after) \in Nat /\ Cardinality(after) < k
    <3>1. Cardinality((L + 2 + j)..(L + 1 + k)) \in Nat
      BY <2>2, FS_CardinalityType
    <3>2. /\ IsFiniteSet(after)
          /\ Cardinality(after) <= Cardinality((L + 2 + j)..(L + 1 + k))
      BY <2>1, <2>2, FS_Subset
    <3>3. Cardinality(after) \in Nat
      BY <3>2, FS_CardinalityType
    <3> HIDE DEF after
    <3> QED
      BY <2>2, <3>1, <3>2, <3>3
  <2>4. ResultsAfter(s, L + 1 + j) < KeepRecent
    <3>1. ResultsAfter(s, L + 1 + j) = Cardinality(after)
      BY DEF ResultsAfter
    <3> HIDE DEF after
    <3> QED
      BY <1>15, <2>3, <3>1, TranscriptAssumption
  <2>5. L + 1 + j \in DOMAIN s /\ x \in s[L + 1 + j].tells
    BY <1>4, <1>9
  <2>6. L + 1 + j > Len(s) - KeepRecent
    BY <1>1, <1>4, <1>15, TranscriptAssumption
  <2> QED
    BY <2>4, <2>5, <2>6 DEF Safe
<1>16. TaskTold(ms) => TaskTold(s)
  <2>1. \A i \in 2..Len(ms) : i \in 2..Len(s) /\ s[i] = ms[i]
    BY <1>1, <1>4
  <2> QED
    BY <2>1 DEF TaskTold
<1> QED
  BY <1>11, <1>12, <1>13, <1>14, <1>15, <1>16 DEF WellFormed, s, ids

-----------------------------------------------------------------------------
(***************************************************************************)
(* The invariant, action by action                                         *)
(***************************************************************************)
LEMMA InitEstablishes == Init => IInv
<1> SUFFICES ASSUME Init PROVE IInv
  OBVIOUS
<1>1. PICK history \in Histories, size \in Sizes :
        messages = <<Message("system", {}, Big, {})>> \o history
                     \o <<Message("user", {}, size, {Task})>>
  BY DEF Init
<1> DEFINE system == <<Message("system", {}, Big, {})>>
           user == <<Message("user", {}, size, {Task})>>
<1>2. PICK n \in 0..MaxHistory :
        history \in [1..n -> {Message(role, {}, sz, {}) :
                                role \in {"user", "assistant"}, sz \in Sizes}]
  BY DEF Histories
<1>3. /\ history \in Seq(Messages) /\ Len(history) = n /\ n \in Nat
      /\ \A i \in 1..n : history[i].ids = {} /\ ~IsResult(history[i])
  <2>1. n \in Nat
    BY TranscriptAssumption
  <2>2. ASSUME NEW i \in 1..n
        PROVE  /\ history[i] \in Messages /\ history[i].ids = {} /\ ~IsResult(history[i])
    <3>1. PICK role \in {"user", "assistant"}, sz \in Sizes :
            history[i] = Message(role, {}, sz, {})
      BY <1>2
    <3> QED
      BY <3>1 DEF Message, Messages, Role, Sizes, Small, Big, IsResult
  <2>3. history = [i \in 1..n |-> history[i]]
    BY <1>2
  <2> QED
    BY <2>1, <2>2, <2>3
<1>4. /\ system \in Seq(Messages) /\ Len(system) = 1
      /\ system[1].role = "system" /\ system[1].ids = {} /\ ~IsResult(system[1])
  BY DEF Message, Messages, Role, Big, IsResult
<1>5. /\ user \in Seq(Messages) /\ Len(user) = 1
      /\ user[1].ids = {} /\ user[1].tells = {Task} /\ ~IsResult(user[1])
  BY DEF Message, Messages, Role, Sizes, Small, Big, Task, IsResult
<1> HIDE DEF system, user
<1>6. /\ messages \in Seq(Messages) /\ Len(messages) = n + 2
      /\ messages[1] = system[1] /\ messages[n + 2] = user[1]
      /\ \A i \in 1..n : messages[i + 1] = history[i]
  <2> DEFINE front == system \o history
  <2>1. /\ front \in Seq(Messages) /\ Len(front) = n + 1 /\ front[1] = system[1]
        /\ \A i \in 1..n : front[i + 1] = history[i]
    <3>1. /\ front \in Seq(Messages) /\ Len(front) = Len(system) + Len(history)
          /\ \A i \in 1..Len(system) : front[i] = system[i]
          /\ \A i \in (Len(system) + 1)..(Len(system) + Len(history)) :
               front[i] = history[i - Len(system)]
      BY <1>3, <1>4, ConcatType
    <3> HIDE DEF front
    <3>2. ASSUME NEW i \in 1..n PROVE front[i + 1] = history[i]
      <4>1. i + 1 \in (Len(system) + 1)..(Len(system) + Len(history))
            /\ (i + 1) - Len(system) = i
        BY <1>3, <1>4
      <4> QED
        BY <3>1, <4>1
    <3> QED
      BY <1>3, <1>4, <3>1, <3>2
  <2> HIDE DEF front
  <2>2. messages = front \o user
    BY <1>1 DEF front, system, user
  <2>3. /\ messages \in Seq(Messages) /\ Len(messages) = Len(front) + Len(user)
        /\ \A i \in 1..Len(front) : messages[i] = front[i]
        /\ \A i \in (Len(front) + 1)..(Len(front) + Len(user)) :
             messages[i] = user[i - Len(front)]
    BY <1>5, <2>1, <2>2, ConcatType
  <2>4. n + 2 \in (Len(front) + 1)..(Len(front) + Len(user)) /\ (n + 2) - Len(front) = 1
    BY <1>3, <1>5, <2>1
  <2>5. messages[n + 2] = user[1]
    BY <2>3, <2>4
  <2>6. 1 \in 1..Len(front) /\ \A i \in 1..n : i + 1 \in 1..Len(front)
    BY <1>3, <2>1
  <2> QED
    BY <1>3, <1>5, <2>1, <2>3, <2>5, <2>6
<1>7. DOMAIN messages = 1..(n + 2) /\ Len(messages) >= 2
  BY <1>3, <1>6
<1>8. ASSUME NEW i \in DOMAIN messages
      PROVE  messages[i].ids = {} /\ ~IsResult(messages[i])
  <2>1. CASE i = 1
    BY <1>4, <1>6, <2>1
  <2>2. CASE i = n + 2
    BY <1>5, <1>6, <2>2
  <2>3. CASE i \in 2..(n + 1)
    <3>1. i - 1 \in 1..n /\ (i - 1) + 1 = i
      BY <1>3, <2>3
    <3>2. messages[(i - 1) + 1] = history[i - 1]
      BY <1>6, <3>1
    <3> QED
      BY <1>3, <3>1, <3>2
  <2> QED
    BY <1>3, <1>7, <2>1, <2>2, <2>3
<1>9. \A i \in DOMAIN messages : Answers(messages, i) = {}
  <2> SUFFICES ASSUME NEW i \in DOMAIN messages PROVE Answers(messages, i) = {}
    OBVIOUS
  <2>1. messages[i].ids = {}
    BY <1>8
  <2>2. Cardinality(messages[i].ids) = 0
    BY <2>1, FS_EmptySet
  <2>3. i \in Int
    BY <1>3, <1>7
  <2> QED
    BY <2>2, <2>3 DEF Answers
<1>10. WellFormed(messages, issued)
  <2>1. Headed(messages)
    <3>1. 2 \in DOMAIN messages
      BY <1>3, <1>7
    <3> QED
      BY <1>4, <1>6, <1>7, <1>8, <3>1 DEF Headed
  <2>2. Numbered(messages, issued) /\ Called(messages)
    BY <1>8 DEF Numbered, Called
  <2>3. Answered(messages)
    BY <1>8, <1>9 DEF Answered
  <2> QED
    BY <2>1, <2>2, <2>3 DEF WellFormed
<1>11. TypeInv
  BY <1>6, TranscriptAssumption DEF Init, TypeInv
<1>12. TaskTold(messages)
  <2>1. n + 2 \in 2..Len(messages) /\ Task \in messages[n + 2].tells
        /\ ~IsResult(messages[n + 2])
    BY <1>3, <1>5, <1>6
  <2> QED
    BY <2>1 DEF TaskTold
<1>13. TaskIsTold /\ LatestIsSafe
  BY <1>12 DEF Init, TaskIsTold, LatestIsSafe
<1> QED
  BY <1>10, <1>11, <1>13 DEF IInv

\* Behind what is safe there may be more room.
LEMMA SafeGrows ==
  ASSUME NEW ms \in Seq(Messages), NEW x, NEW room \in Nat, NEW more \in Nat,
         Safe(ms, x, room)
  PROVE  Safe(ms, x, room + more)
<1>1. PICK i \in DOMAIN ms : /\ x \in ms[i].tells /\ i > Len(ms) - room
                             /\ IsResult(ms[i]) => ResultsAfter(ms, i) < KeepRecent
  BY DEF Safe
<1>2. i > Len(ms) - (room + more)
  BY <1>1
<1> QED
  BY <1>1, <1>2 DEF Safe

LEMMA RoomType == Room \in 0..PreserveRecent
BY TranscriptAssumption DEF Room

\* A sound result takes the place of the transcript.
LEMMA BecomeKeeps ==
  ASSUME IInv, NEW result, NEW more, Sound(messages, issued, result, more), Become(result),
         issued' = issued, latest' = latest, Room' = Room + more
  PROVE  /\ WellFormed(messages', issued') /\ previous' \in SUBSET Nat
         /\ messages' \in Seq(Messages) /\ lost' \in SUBSET Cause
         /\ TaskIsTold' /\ LatestIsSafe'
<1>1. PICK s, told, causes :
        /\ result = Result(s, told, causes)
        /\ WellFormed(s, issued) /\ Keeps(messages, s, causes, more)
        /\ told \in SUBSET Nat /\ causes \in SUBSET Cause
  BY DEF Sound
<1>2. messages' = s /\ previous' = told /\ lost' = lost \cup causes
  BY <1>1 DEF Become, Result
<1>3. TaskIsTold'
  <2> SUFFICES ASSUME {"fallback", "unread", "shortened", "trimmed"} \cap lost' = {}
               PROVE  TaskTold(s)
    BY <1>2 DEF TaskIsTold, TaskTold, IsResult
  <2>1. /\ {"fallback", "unread", "shortened", "trimmed"} \cap lost = {}
        /\ {"fallback", "unread", "shortened", "trimmed"} \cap causes = {}
    BY <1>2
  <2> QED
    BY <1>1, <2>1 DEF IInv, TaskIsTold, Keeps
<1>4. LatestIsSafe'
  <2>1. (\A x \in latest' : Safe(messages', x, Room'))
          <=> \A x \in latest : Safe(s, x, Room + more)
    BY <1>2
  <2> SUFFICES ASSUME lost' \subseteq {"shortened"}, Cardinality(latest) <= KeepRecent,
                      NEW x \in latest
               PROVE  Safe(s, x, Room + more)
    BY <2>1 DEF LatestIsSafe
  <2>2. lost \subseteq {"shortened"} /\ causes \subseteq {"shortened"}
    BY <1>2
  <2>3. Safe(messages, x, Room)
    BY <2>2 DEF IInv, LatestIsSafe
  <2> QED
    BY <1>1, <2>2, <2>3, RoomType DEF Keeps
<1>5. s \in Seq(Messages) /\ lost \in SUBSET Cause
  BY <1>1 DEF WellFormed, Headed, IInv, TypeInv
<1> QED
  BY <1>1, <1>2, <1>3, <1>4, <1>5

LEMMA WrapUpKeeps ==
  ASSUME NEW ms, NEW n \in Nat, NEW result, Sound(ms, n, result, 0), NEW k
  PROVE  Sound(ms, n, [result EXCEPT !.messages = WrapUp(@, k)], 1)
<1>1. PICK s, told, causes :
        /\ result = Result(s, told, causes)
        /\ WellFormed(s, n) /\ Keeps(ms, s, causes, 0)
        /\ told \in SUBSET Nat /\ causes \in SUBSET Cause
  BY DEF Sound
<1> DEFINE note == Message("user", {}, Small, {})
<1>2. note \in Messages /\ ~IsResult(note) /\ note.ids = {}
  BY DEF Message, Messages, Role, Small, IsResult
<1>3. WellFormed(Append(s, note), n) /\ Keeps(s, Append(s, note), {}, 1)
  BY <1>1, <1>2, AppendKeeps
<1>4. Keeps(s, s, {}, 1)
  <2>1. ASSUME NEW x, NEW room \in 0..PreserveRecent, Safe(s, x, room)
        PROVE  Safe(s, x, room + 1)
    BY <1>1, <2>1, SafeGrows DEF WellFormed, Headed
  <2> QED
    BY <2>1 DEF Keeps
<1>5. WrapUp(s, k) = s \/ WrapUp(s, k) = Append(s, note)
  BY DEF WrapUp
<1>6. WellFormed(WrapUp(s, k), n) /\ Keeps(s, WrapUp(s, k), {}, 1)
  BY <1>1, <1>3, <1>4, <1>5
<1>7. Keeps(ms, WrapUp(s, k), causes \cup {}, 1)
  BY <1>1, <1>6, KeepsTrans
<1>8. causes \cup {} = causes
  OBVIOUS
<1>9. [result EXCEPT !.messages = WrapUp(@, k)] = Result(WrapUp(s, k), told, causes)
  BY <1>1 DEF Result
<1> QED
  BY <1>1, <1>6, <1>7, <1>8, <1>9 DEF Sound

LEMMA TrimmedKeeps ==
  ASSUME NEW ms, NEW n \in Nat, NEW result, Sound(ms, n, result, 0),
         NEW trimmed \in Trimmed(result)
  PROVE  Sound(ms, n, trimmed, 0)
<1>1. PICK s, told, causes :
        /\ result = Result(s, told, causes)
        /\ WellFormed(s, n) /\ Keeps(ms, s, causes, 0)
        /\ told \in SUBSET Nat /\ causes \in SUBSET Cause
  BY DEF Sound
<1>2. /\ s \in Seq(Messages) /\ Len(s) \in Nat /\ DOMAIN s = 1..Len(s) /\ 2 \in DOMAIN s
      /\ s[2] \in Messages
  BY <1>1 DEF WellFormed, Headed
<1> DEFINE Cut(tells) == [s EXCEPT ![2] = [s[2] EXCEPT !.size = Small, !.tells = tells]]
           worse == causes \cup {"trimmed"}
<1>3. \/ trimmed = result
      \/ \E tells \in {s[2].tells, s[2].tells \cap {Task}, {}} :
           trimmed = Result(Cut(tells), told, worse)
  <2> DEFINE cut(tells) ==
               [result EXCEPT !.messages[2] = [@ EXCEPT !.size = Small, !.tells = tells],
                              !.lost = @ \cup {"trimmed"}]
  <2>1. result.messages = s
    BY <1>1 DEF Result
  <2>2. \/ trimmed = result
        \/ \E tells \in {s[2].tells, s[2].tells \cap {Task}, {}} : trimmed = cut(tells)
    BY <2>1 DEF Trimmed
  <2>3. ASSUME NEW tells PROVE cut(tells) = Result(Cut(tells), told, worse)
    <3>1. result = [messages |-> s, previous |-> told, lost |-> causes]
      BY <1>1 DEF Result
    <3>2. cut(tells) = [result EXCEPT !.messages = Cut(tells), !.lost = worse]
      BY <1>2, <3>1
    <3> HIDE DEF cut, Cut, worse
    <3> QED
      BY <3>1, <3>2 DEF Result
  <2> HIDE DEF cut, Cut, worse
  <2> QED
    BY <2>2, <2>3
<1>4. ASSUME NEW tells \in SUBSET Nat PROVE WellFormed(Cut(tells), n)
  <2> DEFINE m == [s[2] EXCEPT !.size = Small, !.tells = tells]
             t == [s EXCEPT ![2] = m]
  <2>1. m \in Messages /\ m.role = s[2].role /\ m.ids = s[2].ids
    BY <1>2 DEF Messages, Small
  <2> HIDE DEF m
  <2>2. /\ t \in Seq(Messages) /\ Len(t) = Len(s)
        /\ \A i \in DOMAIN s : t[i].role = s[i].role /\ t[i].ids = s[i].ids
    BY <1>2, <2>1
  <2> HIDE DEF t
  <2>3. WellFormed(t, n)
    BY <1>1, <2>2, SameShape
  <2> QED
    BY <2>3 DEF t, m
<1>5. Keeps(ms, Cut(s[2].tells), worse, 0) /\ worse \in SUBSET Cause
      /\ \A t : Keeps(ms, t, worse, 0)
  BY <1>1 DEF Keeps, Cause
<1>6. \A tells \in {s[2].tells, s[2].tells \cap {Task}, {}} : tells \in SUBSET Nat
  BY <1>2 DEF Messages
<1> HIDE DEF Cut, worse
<1> QED
  BY <1>1, <1>3, <1>4, <1>5, <1>6 DEF Sound

LEMMA IterateStep == IInv /\ Iterate => IInv'
<1> SUFFICES ASSUME IInv, Iterate PROVE IInv'
  OBVIOUS
<1> DEFINE first == IF 2 * Tokens(messages) > Threshold
                    THEN Microcompact(messages) ELSE messages
<1>1. PICK second \in IF 10 * Tokens(first) > 7 * Threshold
                       THEN Collapsed(first) ELSE {Result(first, previous, {})} :
        \E third \in IF Tokens(second.messages) > Threshold
                     THEN Compacted(second.messages, FALSE)
                     ELSE {Result(second.messages, previous, {})} :
          Become([third EXCEPT !.messages = WrapUp(@, iteration + 1),
                               !.lost = @ \cup second.lost])
  BY DEF Iterate
<1>2. PICK third \in IF Tokens(second.messages) > Threshold
                      THEN Compacted(second.messages, FALSE)
                      ELSE {Result(second.messages, previous, {})} :
        Become([third EXCEPT !.messages = WrapUp(@, iteration + 1),
                             !.lost = @ \cup second.lost])
  BY <1>1
<1>3. /\ WellFormed(messages, issued) /\ issued \in Nat /\ previous \in SUBSET Nat
  BY DEF IInv, TypeInv
<1>4. WellFormed(first, issued) /\ Keeps(messages, first, {}, 0)
  BY <1>3, MicrocompactKeeps, KeepsAll
<1> HIDE DEF first
<1>5. Sound(first, issued, second, 0)
  <2>1. CASE second \in Collapsed(first)
    BY <1>3, <1>4, <2>1, CollapsedKeeps
  <2>2. CASE second = Result(first, previous, {})
    BY <1>3, <1>4, <2>2, KeepsAll, KeepsSound
  <2> QED
    BY <1>1, <2>1, <2>2
<1>6. Sound(messages, issued, second, 0) /\ WellFormed(second.messages, issued)
  BY <1>4, <1>5, FirstLosesNothing
<1>7. Sound(second.messages, issued, third, 0)
  <2>1. CASE third \in Compacted(second.messages, FALSE)
    BY <1>3, <1>6, <2>1, CompactedKeeps
  <2>2. CASE third = Result(second.messages, previous, {})
    BY <1>3, <1>6, <2>2, KeepsAll, KeepsSound
  <2> QED
    BY <1>2, <2>1, <2>2
<1> DEFINE fourth == [third EXCEPT !.messages = WrapUp(@, iteration + 1)]
           fifth == [fourth EXCEPT !.lost = @ \cup second.lost]
<1>8. Sound(second.messages, issued, fourth, 1)
  BY <1>3, <1>7, WrapUpKeeps
<1>9. fifth = [third EXCEPT !.messages = WrapUp(@, iteration + 1),
                            !.lost = @ \cup second.lost]
  BY <1>7 DEF Sound, Result
<1> HIDE DEF fourth
<1>10. Sound(messages, issued, fifth, 1)
  BY <1>6, <1>8, SoundTrans
<1>11. Become(fifth)
  BY <1>2, <1>9
<1> HIDE DEF fifth
<1>12. issued' = issued /\ latest' = latest
  BY DEF Iterate
<1>13. Room' = Room + 1
  BY DEF Iterate, Room
<1>14. /\ WellFormed(messages', issued') /\ previous' \in SUBSET Nat
       /\ messages' \in Seq(Messages) /\ lost' \in SUBSET Cause
       /\ TaskIsTold' /\ LatestIsSafe'
  BY <1>10, <1>11, <1>12, <1>13, BecomeKeeps
<1>15. TypeInv'
  BY <1>12, <1>14, TranscriptAssumption DEF IInv, TypeInv, Iterate
<1> QED
  BY <1>14, <1>15 DEF IInv

LEMMA EmergencyStep == IInv /\ Emergency => IInv'
<1> SUFFICES ASSUME IInv, Emergency PROVE IInv'
  OBVIOUS
<1> DEFINE first == Microcompact(messages)
<1>0. PICK second \in Collapsed(first) :
        \E third \in Compacted(second.messages, TRUE) :
        \E trimmed \in Trimmed(third) : Become([trimmed EXCEPT !.lost = @ \cup second.lost])
  BY DEF Emergency
<1>11. PICK third \in Compacted(second.messages, TRUE) :
         \E trimmed \in Trimmed(third) : Become([trimmed EXCEPT !.lost = @ \cup second.lost])
  BY <1>0
<1>1. PICK trimmed \in Trimmed(third) : Become([trimmed EXCEPT !.lost = @ \cup second.lost])
  BY <1>11
<1>2. /\ WellFormed(messages, issued) /\ issued \in Nat /\ previous \in SUBSET Nat
  BY DEF IInv, TypeInv
<1>3. WellFormed(first, issued) /\ Keeps(messages, first, {}, 0)
  BY <1>2, MicrocompactKeeps
<1> HIDE DEF first
<1>4. Sound(messages, issued, second, 0) /\ WellFormed(second.messages, issued)
  BY <1>2, <1>3, CollapsedKeeps, FirstLosesNothing
<1>5. Sound(second.messages, issued, trimmed, 0)
  <2>1. Sound(second.messages, issued, third, 0)
    BY <1>2, <1>4, CompactedKeeps
  <2> QED
    BY <1>2, <2>1, TrimmedKeeps
<1> DEFINE fourth == [trimmed EXCEPT !.lost = @ \cup second.lost]
<1>6. Sound(messages, issued, fourth, 0) /\ Become(fourth)
  BY <1>1, <1>4, <1>5, SoundTrans
<1> HIDE DEF fourth
<1>7. issued' = issued /\ latest' = latest
  BY DEF Emergency
<1>8. Room' = Room + 0
  BY TranscriptAssumption DEF Emergency, Room
<1>9. /\ WellFormed(messages', issued') /\ previous' \in SUBSET Nat
      /\ messages' \in Seq(Messages) /\ lost' \in SUBSET Cause
      /\ TaskIsTold' /\ LatestIsSafe'
  BY <1>6, <1>7, <1>8, BecomeKeeps
<1>10. TypeInv'
  BY <1>7, <1>9, TranscriptAssumption DEF IInv, TypeInv, Emergency
<1> QED
  BY <1>9, <1>10 DEF IInv

LEMMA CallToolsStep == IInv /\ CallTools => IInv'
<1> SUFFICES ASSUME IInv, CallTools PROVE IInv'
  OBVIOUS
<1>1. PICK n \in 1..MaxCalls :
        LET ids == (issued + 1)..(issued + n)
            call == Message("assistant", ids, Small, {})
        IN /\ issued' = issued + n
           /\ latest' = ids
           /\ \E order \in SetToSeqs(ids), sizes \in [ids -> Sizes], compact \in BOOLEAN :
                LET results == [i \in 1..n |->
                      Message("tool", {order[i]}, sizes[order[i]], {order[i]})]
                    all == Append(messages, call) \o results
                IN \E result \in IF compact THEN Compacted(all, FALSE)
                                 ELSE {Result(all, previous, {})} : Become(result)
  BY DEF CallTools
<1> DEFINE ids == (issued + 1)..(issued + n)
           call == Message("assistant", ids, Small, {})
<1>2. PICK order \in SetToSeqs(ids), sizes \in [ids -> Sizes], compact \in BOOLEAN :
        LET results == [i \in 1..n |->
              Message("tool", {order[i]}, sizes[order[i]], {order[i]})]
            all == Append(messages, call) \o results
        IN \E result \in IF compact THEN Compacted(all, FALSE)
                         ELSE {Result(all, previous, {})} : Become(result)
  BY <1>1
<1> DEFINE results == [i \in 1..n |->
             Message("tool", {order[i]}, sizes[order[i]], {order[i]})]
           all == Append(messages, call) \o results
<1>3. PICK result \in IF compact THEN Compacted(all, FALSE)
                      ELSE {Result(all, previous, {})} : Become(result)
  BY <1>2
<1>4. /\ WellFormed(messages, issued) /\ issued \in Nat /\ previous \in SUBSET Nat
      /\ n \in Nat \ {0} /\ issued + n \in Nat
  BY TranscriptAssumption DEF IInv, TypeInv
<1>5. issued' = issued + n /\ latest' = ids
  BY <1>1
<1>6. IsFiniteSet(ids) /\ Cardinality(ids) = n /\ ids \in SUBSET Nat
  BY <1>4, FS_Interval
<1> HIDE DEF ids
<1>7. order \in [1..n -> ids] /\ \A x \in ids : \E i \in 1..n : order[i] = x
  <2>1. order \in [1..n -> ids] /\ \A i, j \in 1..n : i # j => order[i] # order[j]
    BY <1>6 DEF SetToSeqs
  <2>2. order \in Injection(1..n, ids)
    BY <2>1 DEF Injection, IsInjective
  <2>3. IsFiniteSet(1..n) /\ Cardinality(1..n) = n
    BY <1>4, FS_Interval
  <2>4. order \in Surjection(1..n, ids)
    BY <1>6, <2>2, <2>3, FS_Injection
  <2> QED
    BY <2>1, <2>4 DEF Surjection
<1>8. /\ results \in Seq(Messages) /\ Len(results) = n
      /\ \A i \in 1..n : /\ IsResult(results[i]) /\ results[i].ids = {order[i]}
                         /\ results[i].tells = {order[i]}
  <2>1. ASSUME NEW i \in 1..n
        PROVE  /\ results[i] \in Messages /\ IsResult(results[i])
               /\ results[i].ids = {order[i]} /\ results[i].tells = {order[i]}
    <3>1. order[i] \in ids /\ order[i] \in Nat /\ sizes[order[i]] \in Sizes
      BY <1>6, <1>7
    <3>2. results[i] = Message("tool", {order[i]}, sizes[order[i]], {order[i]})
      OBVIOUS
    <3> HIDE DEF results
    <3> QED
      BY <3>1, <3>2 DEF Message, Messages, Role, Sizes, Small, Big, IsResult
  <2>2. results = [i \in 1..n |-> results[i]]
    OBVIOUS
  <2> HIDE DEF results
  <2>3. results \in Seq(Messages) /\ Len(results) = n
    BY <1>4, <2>1, <2>2
  <2> QED
    BY <2>1, <2>3
<1> HIDE DEF results
<1>9. /\ \A j \in 1..n : results[j].ids \subseteq ids
      /\ \A x \in ids : \E j \in 1..n : x \in results[j].ids
  BY <1>7, <1>8
<1>10. /\ WellFormed(all, issued + n)
       /\ TaskTold(messages) => TaskTold(all)
       /\ n <= KeepRecent =>
            \A j \in 1..n : \A x \in results[j].tells : Safe(all, x, KeepRecent)
  <2>1. AnswersAll(results, ids)
    BY <1>8, <1>9 DEF AnswersAll
  <2>2. all = Extended(messages, ids, results)
    BY DEF Extended
  <2> HIDE DEF all, call
  <2> QED
    BY <1>4, <1>8, <2>1, <2>2, CallKeeps DEF ids
<1> HIDE DEF all, call
<1>11. Sound(all, issued + n, result, 0)
  <2>1. CASE compact
    BY <1>3, <1>4, <1>10, <2>1, CompactedKeeps
  <2>2. CASE ~compact
    <3>1. result = Result(all, previous, {})
      BY <1>3, <2>2
    <3> QED
      BY <1>4, <1>10, <3>1, KeepsAll, KeepsSound
  <2> QED
    BY <2>1, <2>2
<1>12. PICK s, told, causes :
         /\ result = Result(s, told, causes)
         /\ WellFormed(s, issued + n) /\ Keeps(all, s, causes, 0)
         /\ told \in SUBSET Nat /\ causes \in SUBSET Cause
  BY <1>11 DEF Sound
<1>13. messages' = s /\ previous' = told /\ lost' = lost \cup causes
  BY <1>3, <1>12 DEF Become, Result
<1>14. WellFormed(messages', issued')
  BY <1>5, <1>12, <1>13
<1>15. TaskIsTold'
  <2> SUFFICES ASSUME {"fallback", "unread", "shortened", "trimmed"} \cap lost' = {}
               PROVE  TaskTold(s)
    BY <1>13 DEF TaskIsTold, TaskTold, IsResult
  <2>1. /\ {"fallback", "unread", "shortened", "trimmed"} \cap lost = {}
        /\ {"fallback", "unread", "shortened", "trimmed"} \cap causes = {}
    BY <1>13
  <2> QED
    BY <1>10, <1>12, <2>1 DEF IInv, TaskIsTold, Keeps
<1>16. LatestIsSafe'
  <2>1. Room' = KeepRecent
    BY DEF CallTools, Room
  <2>2. (\A x \in latest' : Safe(messages', x, Room')) <=> \A x \in ids : Safe(s, x, KeepRecent)
    BY <1>5, <1>13, <2>1
  <2>3. (Cardinality(latest) <= KeepRecent)' <=> n <= KeepRecent
    BY <1>5, <1>6
  <2> SUFFICES ASSUME lost' \subseteq {"shortened"}, n <= KeepRecent, NEW x \in ids
               PROVE  Safe(s, x, KeepRecent)
    BY <2>2, <2>3 DEF LatestIsSafe
  <2>4. causes \subseteq {"shortened"}
    BY <1>13
  <2>5. PICK j \in 1..n : x \in results[j].tells
    BY <1>7, <1>8
  <2>6. Safe(all, x, KeepRecent)
    BY <1>10, <2>5
  <2>7. KeepRecent \in 0..PreserveRecent /\ KeepRecent + 0 = KeepRecent
    BY TranscriptAssumption
  <2> QED
    BY <1>12, <2>4, <2>6, <2>7 DEF Keeps
<1>17. TypeInv'
  <2>1. messages' \in Seq(Messages)
    BY <1>14 DEF WellFormed, Headed
  <2>2. previous' \in SUBSET Nat /\ lost' \in SUBSET Cause
    BY <1>12, <1>13 DEF IInv, TypeInv
  <2>3. issued' \in Nat /\ latest' \in SUBSET Nat
    BY <1>4, <1>5, <1>6
  <2> QED
    BY <2>1, <2>2, <2>3 DEF IInv, TypeInv, CallTools
<1> QED
  BY <1>14, <1>15, <1>16, <1>17 DEF IInv

LEMMA GoOnStep == IInv /\ GoOn => IInv'
<1> SUFFICES ASSUME IInv, GoOn PROVE IInv'
  OBVIOUS
<1>1. PICK size \in Sizes, role \in {"system", "user"} :
        LET note == Message(role, {}, Small, {})
            answer == Message("assistant", {}, size, {})
        IN messages' \in {Append(messages, note), messages \o <<answer, note>>}
  BY DEF GoOn
<1> DEFINE note == Message(role, {}, Small, {})
           answer == Message("assistant", {}, size, {})
<1>2. note \in Messages /\ ~IsResult(note) /\ note.ids = {}
  BY DEF Message, Messages, Role, Small, IsResult
<1>3. answer \in Messages /\ ~IsResult(answer) /\ answer.ids = {}
  BY DEF Message, Messages, Role, Sizes, Small, Big, IsResult
<1>4. messages' = Append(messages, note) \/ messages' = messages \o <<answer, note>>
  BY <1>1
<1> HIDE DEF note, answer
<1>5. /\ WellFormed(messages, issued) /\ issued \in Nat /\ messages \in Seq(Messages)
  BY DEF IInv, TypeInv
<1>6. messages \o <<answer, note>> = Append(Append(messages, answer), note)
  BY <1>2, <1>3, <1>5
<1>7. /\ WellFormed(Append(messages, note), issued)
      /\ Keeps(messages, Append(messages, note), {}, 1)
  BY <1>2, <1>5, AppendKeeps
<1>8. /\ WellFormed(Append(messages, answer), issued)
      /\ Keeps(messages, Append(messages, answer), {}, 1)
  BY <1>3, <1>5, AppendKeeps
<1>9. /\ WellFormed(Append(Append(messages, answer), note), issued)
      /\ Keeps(Append(messages, answer), Append(Append(messages, answer), note), {}, 1)
  BY <1>2, <1>5, <1>8, AppendKeeps
<1>10. TaskTold(messages) => TaskTold(messages')
  BY <1>4, <1>6, <1>7, <1>8, <1>9 DEF Keeps
<1>11. WellFormed(messages', issued') /\ lost' = lost /\ latest' = {}
  BY <1>4, <1>6, <1>7, <1>9 DEF GoOn
<1>12. TaskIsTold' /\ LatestIsSafe'
  BY <1>10, <1>11 DEF IInv, TaskIsTold, TaskTold, IsResult, LatestIsSafe
<1>13. TypeInv'
  <2>1. messages' \in Seq(Messages)
    BY <1>11 DEF WellFormed, Headed
  <2> QED
    BY <2>1 DEF IInv, TypeInv, GoOn
<1> QED
  BY <1>11, <1>12, <1>13 DEF IInv

LEMMA StepKeeps == IInv /\ [Next]_vars => IInv'
<1> SUFFICES ASSUME IInv, [Next]_vars PROVE IInv'
  OBVIOUS
<1>1. CASE Iterate
  BY <1>1, IterateStep
<1>2. CASE Emergency
  BY <1>2, EmergencyStep
<1>3. CASE CallTools
  BY <1>3, CallToolsStep
<1>4. CASE GoOn
  BY <1>4, GoOnStep
<1>5. CASE End \/ UNCHANGED vars
  <2>1. UNCHANGED <<messages, previous, iteration, issued, latest, lost, emergencies>>
        /\ pc' \in {pc, "done"}
    BY <1>5 DEF End, vars
  <2>2. TypeInv'
    BY <2>1 DEF IInv, TypeInv
  <2>3. Room' = Room \/ Room' = Room + 1
    BY <2>1, TranscriptAssumption DEF Room
  <2>4. ASSUME NEW x \in latest, Safe(messages, x, Room) PROVE Safe(messages, x, Room')
    BY <2>3, <2>4, RoomType, SafeGrows DEF IInv, TypeInv
  <2>5. LatestIsSafe'
    <3>1. (\A x \in latest' : Safe(messages', x, Room'))
            <=> \A x \in latest : Safe(messages, x, Room')
      BY <2>1
    <3> QED
      BY <2>1, <2>4, <3>1 DEF IInv, LatestIsSafe
  <2>6. WellFormed(messages', issued') /\ TaskIsTold'
    BY <2>1 DEF IInv, TaskIsTold
  <2> QED
    BY <2>2, <2>5, <2>6 DEF IInv
<1> QED
  BY <1>1, <1>2, <1>3, <1>4, <1>5 DEF Next

\* The invariant the other theorems about the transcript follow from: requests are
\* well formed between iterations too, a message that is not a result tells the
\* task, and the latest results are where the next layer neither clears nor folds
\* them.
THEOREM TranscriptInvariant == Spec => []IInv
<1> QED
  BY InitEstablishes, StepKeeps, PTL DEF Spec

\* The transcript and what is recorded of it have their types.
THEOREM TranscriptType == Spec => []TypeInv
<1>1. IInv => TypeInv
  BY DEF IInv
<1> QED
  BY <1>1, TranscriptInvariant, PTL

\* Every request is one a provider accepts, whatever was compressed before it
\* (loop.py:324).
THEOREM EveryRequestIsWellFormed == Spec => []RequestsAreWellFormed
<1>1. IInv => RequestsAreWellFormed
  BY DEF IInv, WellFormed, Answered, Called, RequestsAreWellFormed, IsCall
<1> QED
  BY <1>1, TranscriptInvariant, PTL

\* Compression never makes the model forget what it was asked, if it is not one
\* of the ways that are named (loop.py:1913).
THEOREM TheTaskIsKept == Spec => []TaskIsRemembered
<1>1. IInv => TaskIsRemembered
  <2> SUFFICES ASSUME IInv, {"fallback", "unread", "shortened", "trimmed"} \cap lost = {}
               PROVE  Task \in Told(messages)
    BY DEF TaskIsRemembered
  <2>1. PICK i \in 2..Len(messages) : Task \in messages[i].tells
    BY DEF IInv, TaskIsTold, TaskTold
  <2>2. i \in DOMAIN messages
    BY DEF IInv, TypeInv
  <2> QED
    BY <2>1, <2>2 DEF Told, Range
<1> QED
  BY <1>1, TranscriptInvariant, PTL

\* The results the model has just asked for are in the next request (loop.py:236).
THEOREM TheLatestResultsArrive == Spec => []ResultsReachTheModel
<1>1. IInv => ResultsReachTheModel
  <2> SUFFICES ASSUME IInv, lost \subseteq {"shortened"},
                      Cardinality(latest) <= KeepRecent, NEW x \in latest
               PROVE  x \in Told(messages)
    BY DEF ResultsReachTheModel
  <2>1. PICK i \in DOMAIN messages : x \in messages[i].tells
    BY DEF IInv, LatestIsSafe, Safe
  <2> QED
    BY <2>1 DEF Told, Range
<1> QED
  BY <1>1, TranscriptInvariant, PTL

-----------------------------------------------------------------------------
(***************************************************************************)
(* _fix_tool_pairs for any transcript, also one that no run produces       *)
(***************************************************************************)
LEMMA FixedExists ==
  ASSUME NEW ms \in Seq(Messages)
  PROVE  \E f : IsFixed(f, ms)
<1> DEFINE Step(n, before) ==
             IF IsResult(ms[n]) /\ ~(ms[n].ids \subseteq CallsIn(ms)) THEN before
             ELSE before \o <<ms[n]>> \o Stubs(ms[n], AnsweredIn(ms))
           Solves(f, n) ==
             f = [k \in 0..n |-> IF k = 0 THEN <<>> ELSE Step(k, f[k - 1])]
           Bad == {n \in 0..Len(ms) : ~ \E f : Solves(f, n)}
<1>0. Len(ms) \in Nat /\ Len(ms) \in 0..Len(ms)
  OBVIOUS
<1>1. (\E f : Solves(f, Len(ms))) => \E f : IsFixed(f, ms)
  BY DEF IsFixed
<1> HIDE DEF Step
<1>2. ASSUME Bad # {} PROVE FALSE
  <2>1. PICK n \in Bad : \A m \in Bad : n <= m
    <3>1. Bad \in SUBSET Nat
      BY <1>0
    <3> HIDE DEF Bad
    <3> QED
      BY <1>2, <3>1, LeastElement
  <2>2. n \in 0..Len(ms) /\ ~ \E f : Solves(f, n)
    OBVIOUS
  <2>3. n # 0
    <3>1. Solves([k \in 0..0 |-> <<>>], 0)
      OBVIOUS
    <3> HIDE DEF Solves
    <3> QED
      BY <2>2, <3>1
  <2>4. n - 1 \in 0..Len(ms) /\ ~ (n <= n - 1)
    BY <1>0, <2>2, <2>3
  <2>5. PICK f : Solves(f, n - 1)
    BY <2>1, <2>4
  <2> DEFINE g == [k \in 0..n |-> IF k < n THEN f[k] ELSE Step(n, f[n - 1])]
  <2>6. ASSUME NEW k \in 0..n
        PROVE  g[k] = IF k = 0 THEN <<>> ELSE Step(k, g[k - 1])
    <3>1. CASE k = n
      BY <2>2, <2>3, <3>1
    <3>2. CASE k # n
      <4>1. k \in 0..(n - 1) /\ k < n
        BY <2>2, <3>2
      <4>2. g[k] = f[k]
        BY <4>1
      <4>3. f[k] = IF k = 0 THEN <<>> ELSE Step(k, f[k - 1])
        BY <2>5, <4>1
      <4>4. k # 0 => g[k - 1] = f[k - 1]
        BY <2>2, <4>1
      <4> QED
        BY <4>2, <4>3, <4>4
    <3> QED
      BY <3>1, <3>2
  <2>7. g = [k \in 0..n |-> g[k]]
    OBVIOUS
  <2>8. Solves(g, n)
    <3> HIDE DEF g
    <3> QED
      BY <2>6, <2>7
  <2> HIDE DEF Solves, g
  <2> QED
    BY <2>2, <2>8
<1> HIDE DEF Solves
<1>3. \E f : Solves(f, Len(ms))
  BY <1>0, <1>2
<1> QED
  BY <1>1, <1>3

\* The stubs of a call: one for each id that has no answer.
LEMMA StubsType ==
  ASSUME NEW m \in Messages, NEW answered, IsCall(m) => IsFiniteSet(m.ids)
  PROVE  LET stubs == Stubs(m, answered)
         IN /\ stubs \in Seq(Messages)
            /\ \A i \in 1..Len(stubs) : IsResult(stubs[i]) /\ IsCall(m)
                                        /\ stubs[i].ids \subseteq m.ids
            /\ IsCall(m) => \A x \in m.ids \ answered :
                              \E i \in 1..Len(stubs) : stubs[i].ids = {x}
<1> DEFINE stubs == Stubs(m, answered)
           S == m.ids \ answered
           open == SetToSeq(S)
           n == Cardinality(S)
<1>1. CASE ~IsCall(m)
  <2>1. stubs = <<>>
    BY <1>1 DEF Stubs, IsCall
  <2> HIDE DEF stubs
  <2> QED
    BY <1>1, <2>1 DEF stubs
<1>2. CASE IsCall(m)
  <2>1. IsFiniteSet(S) /\ S \subseteq m.ids /\ m.ids \in SUBSET Nat
    BY <1>2, FS_Subset DEF Messages
  <2> HIDE DEF S
  <2>2. n \in Nat /\ ExistsBijection(1..n, S)
    BY <2>1, FS_CardinalityType
  <2>3. \E f \in [1..n -> S] : IsInjective(f)
    BY <2>2 DEF ExistsBijection, Bijection, Injection
  <2>4. open \in [1..n -> S] /\ IsInjective(open)
    BY <2>3 DEF SetToSeq
  <2>5. \A x \in S : \E i \in 1..n : open[i] = x
    <3>1. open \in Injection(1..n, S)
      BY <2>4 DEF Injection
    <3>2. IsFiniteSet(1..n) /\ Cardinality(1..n) = n
      BY <2>2, FS_Interval
    <3>3. open \in Surjection(1..n, S)
      BY <2>1, <3>1, <3>2, FS_Injection
    <3> QED
      BY <3>3 DEF Surjection
  <2> HIDE DEF open, n
  <2>6. stubs = [i \in 1..n |-> Message("tool", {open[i]}, Small, {})]
    BY <1>2, <2>4 DEF Stubs, IsCall, open, S
  <2> HIDE DEF stubs
  <2>7. ASSUME NEW i \in 1..n
        PROVE  /\ stubs[i] \in Messages /\ IsResult(stubs[i])
               /\ stubs[i].ids = {open[i]} /\ open[i] \in m.ids
    <3>1. open[i] \in S /\ open[i] \in m.ids /\ open[i] \in Nat
      BY <2>1, <2>4
    <3>2. stubs[i] = Message("tool", {open[i]}, Small, {})
      BY <2>6
    <3> QED
      BY <3>1, <3>2 DEF Message, Messages, Role, Small, IsResult
  <2>8. stubs \in Seq(Messages) /\ Len(stubs) = n
    BY <2>2, <2>6, <2>7
  <2>9. /\ \A i \in 1..Len(stubs) : IsResult(stubs[i]) /\ stubs[i].ids \subseteq m.ids
        /\ \A x \in S : \E i \in 1..Len(stubs) : stubs[i].ids = {x}
    BY <2>5, <2>7, <2>8
  <2> QED
    BY <1>2, <2>8, <2>9 DEF stubs, S
<1> QED
  BY <1>1, <1>2

\* Of the first n messages of ms, out has the calls, the results of calls, and
\* stubs for the calls that nothing answers.
Repairs(out, ms, n) ==
  /\ out \in Seq(Messages)
  /\ \A i \in 1..Len(out) : \/ \E j \in 1..n : out[i] = ms[j]
                            \/ IsResult(out[i])
  /\ \A i \in 1..Len(out) : IsResult(out[i]) => out[i].ids \subseteq CallsIn(ms)
  /\ \A j \in 1..n :
       \/ \E i \in 1..Len(out) : out[i] = ms[j]
       \/ IsResult(ms[j]) /\ ~(ms[j].ids \subseteq CallsIn(ms))
  /\ \A j \in 1..n : IsCall(ms[j]) =>
       \A x \in ms[j].ids \ AnsweredIn(ms) :
         \E i \in 1..Len(out) : IsResult(out[i]) /\ out[i].ids = {x}

LEMMA RepairsStep ==
  ASSUME NEW ms \in Seq(Messages), NEW n \in 1..Len(ms),
         IsCall(ms[n]) => IsFiniteSet(ms[n].ids),
         NEW out, Repairs(out, ms, n - 1)
  PROVE  Repairs(IF IsResult(ms[n]) /\ ~(ms[n].ids \subseteq CallsIn(ms)) THEN out
                 ELSE out \o <<ms[n]>> \o Stubs(ms[n], AnsweredIn(ms)), ms, n)
<1>1. /\ Len(ms) \in Nat /\ ms[n] \in Messages /\ n - 1 \in Nat
      /\ \A j \in 1..n : j \in 1..(n - 1) \/ j = n
      /\ \A j \in 1..(n - 1) : j \in 1..n
      /\ n \in 1..n
  OBVIOUS
<1>2. ~(IsResult(ms[n]) /\ IsCall(ms[n]))
  BY DEF IsResult, IsCall
<1>3. CASE IsResult(ms[n]) /\ ~(ms[n].ids \subseteq CallsIn(ms))
  <2>1. Repairs(out, ms, n)
    BY <1>1, <1>2, <1>3 DEF Repairs
  <2> QED
    BY <1>3, <2>1
<1>4. CASE ~(IsResult(ms[n]) /\ ~(ms[n].ids \subseteq CallsIn(ms)))
  <2> DEFINE stubs == Stubs(ms[n], AnsweredIn(ms))
             one == <<ms[n]>>
             front == out \o one
             new == front \o stubs
  <2>0. out \in Seq(Messages) /\ Len(out) \in Nat
    BY DEF Repairs
  <2>1. /\ stubs \in Seq(Messages)
        /\ \A i \in 1..Len(stubs) : IsResult(stubs[i]) /\ IsCall(ms[n])
                                    /\ stubs[i].ids \subseteq ms[n].ids
        /\ IsCall(ms[n]) => \A x \in ms[n].ids \ AnsweredIn(ms) :
                              \E i \in 1..Len(stubs) : stubs[i].ids = {x}
    BY <1>1, StubsType
  <2> HIDE DEF stubs
  <2>2. one \in Seq(Messages) /\ Len(one) = 1 /\ one[1] = ms[n]
    BY <1>1
  <2> HIDE DEF one
  <2>3. /\ front \in Seq(Messages) /\ Len(front) = Len(out) + 1
        /\ \A i \in 1..Len(out) : front[i] = out[i]
        /\ front[Len(out) + 1] = ms[n]
    <3>1. /\ front \in Seq(Messages) /\ Len(front) = Len(out) + Len(one)
          /\ \A i \in 1..Len(out) : front[i] = out[i]
          /\ \A i \in (Len(out) + 1)..(Len(out) + Len(one)) : front[i] = one[i - Len(out)]
      BY <2>0, <2>2, ConcatType
    <3> HIDE DEF front
    <3>2. Len(out) + 1 \in (Len(out) + 1)..(Len(out) + Len(one))
          /\ (Len(out) + 1) - Len(out) = 1
      BY <2>0, <2>2
    <3> QED
      BY <2>2, <3>1, <3>2
  <2> HIDE DEF front
  <2>4. /\ new \in Seq(Messages) /\ Len(new) = Len(out) + 1 + Len(stubs)
        /\ \A i \in 1..Len(front) : new[i] = front[i]
        /\ \A i \in (Len(front) + 1)..(Len(front) + Len(stubs)) :
             new[i] = stubs[i - Len(front)]
    <3>1. /\ new \in Seq(Messages) /\ Len(new) = Len(front) + Len(stubs)
          /\ \A i \in 1..Len(front) : new[i] = front[i]
          /\ \A i \in (Len(front) + 1)..(Len(front) + Len(stubs)) :
               new[i] = stubs[i - Len(front)]
      BY <2>1, <2>3, ConcatType
    <3> HIDE DEF new
    <3> QED
      BY <2>3, <3>1
  <2> HIDE DEF new
  <2>5. Len(stubs) \in Nat
    BY <2>1
  <2>6. /\ \A i \in 1..Len(out) : i \in 1..Len(new) /\ new[i] = out[i]
        /\ Len(out) + 1 \in 1..Len(new) /\ new[Len(out) + 1] = ms[n]
    BY <2>0, <2>3, <2>4, <2>5
  <2>7. \A i \in 1..Len(stubs) : \E l \in 1..Len(new) : new[l] = stubs[i]
    <3> SUFFICES ASSUME NEW i \in 1..Len(stubs)
                 PROVE  \E l \in 1..Len(new) : new[l] = stubs[i]
      OBVIOUS
    <3>1. /\ Len(front) + i \in (Len(front) + 1)..(Len(front) + Len(stubs))
          /\ Len(front) + i \in 1..Len(new)
          /\ (Len(front) + i) - Len(front) = i
      BY <2>0, <2>3, <2>4, <2>5
    <3> QED
      BY <2>4, <3>1
  <2>8. ASSUME NEW l \in 1..Len(new)
        PROVE  \/ l \in 1..Len(out) /\ new[l] = out[l]
               \/ new[l] = ms[n]
               \/ \E i \in 1..Len(stubs) : new[l] = stubs[i]
    <3>1. CASE l \in 1..Len(out)
      BY <2>6, <3>1
    <3>2. CASE l = Len(out) + 1
      BY <2>6, <3>2
    <3>3. CASE l > Len(out) + 1
      <4>1. /\ l \in (Len(front) + 1)..(Len(front) + Len(stubs))
            /\ l - Len(front) \in 1..Len(stubs)
        BY <2>0, <2>3, <2>4, <2>5, <3>3
      <4> QED
        BY <2>4, <4>1
    <3>4. l \in 1..Len(out) \/ l = Len(out) + 1 \/ l > Len(out) + 1
      BY <2>0, <2>4, <2>5
    <3> QED
      BY <3>1, <3>2, <3>3, <3>4
  <2>9. \A l \in 1..Len(new) : (\E j \in 1..n : new[l] = ms[j]) \/ IsResult(new[l])
    BY <1>1, <2>1, <2>8 DEF Repairs
  <2>10. ASSUME NEW l \in 1..Len(new), IsResult(new[l])
         PROVE  new[l].ids \subseteq CallsIn(ms)
    <3>1. IsCall(ms[n]) => ms[n].ids \subseteq CallsIn(ms)
      BY DEF CallsIn, IsCall
    <3> QED
      BY <1>4, <2>1, <2>8, <2>10, <3>1 DEF Repairs
  <2>11. \A j \in 1..n : \/ \E i \in 1..Len(new) : new[i] = ms[j]
                         \/ IsResult(ms[j]) /\ ~(ms[j].ids \subseteq CallsIn(ms))
    BY <1>1, <2>6 DEF Repairs
  <2>12. ASSUME NEW j \in 1..n, IsCall(ms[j]), NEW x \in ms[j].ids \ AnsweredIn(ms)
         PROVE  \E i \in 1..Len(new) : IsResult(new[i]) /\ new[i].ids = {x}
    <3>1. CASE j \in 1..(n - 1)
      BY <2>6, <2>12, <3>1 DEF Repairs
    <3>2. CASE j = n
      BY <2>1, <2>7, <2>12, <3>2
    <3> QED
      BY <1>1, <3>1, <3>2
  <2>13. Repairs(new, ms, n)
    BY <2>4, <2>9, <2>10, <2>11, <2>12 DEF Repairs
  <2> QED
    BY <1>4, <2>13 DEF new, front, one, stubs
<1> QED
  BY <1>3, <1>4

\* After _fix_tool_pairs the calls are still there, every one of them is answered,
\* and there is no result without its call, whatever the layers have left of the
\* transcript (loop.py:324-331).
THEOREM FixToolPairsRepairs ==
  ASSUME NEW ms \in Seq(Messages),
         \A i \in DOMAIN ms : IsResult(ms[i]) => \E x : ms[i].ids = {x},
         \A i \in DOMAIN ms : IsCall(ms[i]) => IsFiniteSet(ms[i].ids)
  PROVE  LET out == FixToolPairs(ms)
         IN /\ out \in Seq(Messages)
            /\ CallsIn(out) = CallsIn(ms) /\ AnsweredIn(out) = CallsIn(out)
            /\ \A i \in DOMAIN out : IsResult(out[i]) => out[i].ids \subseteq CallsIn(out)
<1> DEFINE out == FixToolPairs(ms)
<1>0. Len(ms) \in Nat /\ DOMAIN ms = 1..Len(ms) /\ Len(ms) \in 0..Len(ms)
  OBVIOUS
<1>1. PICK f : IsFixed(f, ms)
  BY FixedExists
<1>2. out = f[Len(ms)]
  BY <1>1, FixedIsUnique
<1>3. \A n \in 0..Len(ms) : f[n] =
        IF n = 0 THEN <<>>
        ELSE IF IsResult(ms[n]) /\ ~(ms[n].ids \subseteq CallsIn(ms)) THEN f[n - 1]
        ELSE f[n - 1] \o <<ms[n]>> \o Stubs(ms[n], AnsweredIn(ms))
  BY <1>1 DEF IsFixed
<1> DEFINE Bad == {n \in 0..Len(ms) : ~Repairs(f[n], ms, n)}
<1>4. ASSUME Bad # {} PROVE FALSE
  <2>1. PICK n \in Bad : \A m \in Bad : n <= m
    <3>1. Bad \in SUBSET Nat
      BY <1>0
    <3> HIDE DEF Bad
    <3> QED
      BY <1>4, <3>1, LeastElement
  <2>2. n \in 0..Len(ms) /\ ~Repairs(f[n], ms, n)
    OBVIOUS
  <2>3. n # 0
    <3>1. f[0] = <<>>
      <4>1. 0 \in 0..Len(ms)
        BY <1>0
      <4> HIDE DEF Bad
      <4> QED
        BY <1>3, <4>1
    <3>2. Repairs(<<>>, ms, 0)
      BY DEF Repairs
    <3> QED
      BY <2>2, <3>1, <3>2
  <2>4. n - 1 \in 0..Len(ms) /\ ~ (n <= n - 1) /\ n \in 1..Len(ms)
    BY <1>0, <2>2, <2>3
  <2>5. Repairs(f[n - 1], ms, n - 1)
    BY <2>1, <2>4
  <2>6. IsCall(ms[n]) => IsFiniteSet(ms[n].ids)
    BY <1>0, <2>4
  <2> DEFINE new == IF IsResult(ms[n]) /\ ~(ms[n].ids \subseteq CallsIn(ms)) THEN f[n - 1]
                    ELSE f[n - 1] \o <<ms[n]>> \o Stubs(ms[n], AnsweredIn(ms))
  <2>7. Repairs(new, ms, n)
    BY <2>4, <2>5, <2>6, RepairsStep
  <2>8. f[n] = new
    BY <1>3, <2>2, <2>3
  <2> HIDE DEF new
  <2> QED
    BY <2>2, <2>7, <2>8
<1>5. Repairs(out, ms, Len(ms))
  BY <1>0, <1>2, <1>4
<1> HIDE DEF out
<1>6. out \in Seq(Messages) /\ DOMAIN out = 1..Len(out)
  BY <1>5 DEF Repairs
<1>7. \A m : ~(IsResult(m) /\ IsCall(m))
  BY DEF IsResult, IsCall
<1>8. CallsIn(out) = CallsIn(ms)
  <2>1. ASSUME NEW i \in DOMAIN out, IsCall(out[i])
        PROVE  \E j \in DOMAIN ms : IsCall(ms[j]) /\ ms[j].ids = out[i].ids
    BY <1>0, <1>5, <1>6, <1>7, <2>1 DEF Repairs
  <2>2. ASSUME NEW j \in DOMAIN ms, IsCall(ms[j])
        PROVE  \E i \in DOMAIN out : IsCall(out[i]) /\ ms[j].ids = out[i].ids
    BY <1>0, <1>5, <1>6, <1>7, <2>2 DEF Repairs
  <2>3. CallsIn(out) \subseteq CallsIn(ms)
    BY <2>1 DEF CallsIn, IsCall
  <2>4. CallsIn(ms) \subseteq CallsIn(out)
    BY <2>2 DEF CallsIn, IsCall
  <2> QED
    BY <2>3, <2>4
<1>9. ASSUME NEW x \in CallsIn(out)
      PROVE  \E i \in DOMAIN out : IsResult(out[i]) /\ x \in out[i].ids
  <2>1. CASE x \in AnsweredIn(ms)
    <3>1. PICK j \in DOMAIN ms : IsResult(ms[j]) /\ x \in ms[j].ids
      BY <2>1 DEF AnsweredIn
    <3>2. ms[j].ids = {x}
      BY <3>1
    <3>3. ms[j].ids \subseteq CallsIn(ms)
      BY <1>8, <1>9, <3>2
    <3> QED
      BY <1>0, <1>5, <1>6, <3>1, <3>3 DEF Repairs
  <2>2. CASE x \notin AnsweredIn(ms)
    <3>1. PICK j \in DOMAIN ms : IsCall(ms[j]) /\ x \in ms[j].ids
      BY <1>8, <1>9 DEF CallsIn, IsCall
    <3> QED
      BY <1>0, <1>5, <1>6, <2>2, <3>1 DEF Repairs
  <2> QED
    BY <2>1, <2>2
<1>10. AnsweredIn(out) = CallsIn(out)
  BY <1>9 DEF AnsweredIn
<1>11. \A i \in DOMAIN out : IsResult(out[i]) => out[i].ids \subseteq CallsIn(out)
  BY <1>5, <1>6, <1>8 DEF Repairs
<1> QED
  BY <1>6, <1>8, <1>10, <1>11 DEF out

=============================================================================

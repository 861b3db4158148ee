----------------------------- MODULE Transcript -----------------------------
(***************************************************************************)
(* The messages an agent run sends to the model with every request, and the *)
(* layers of compression that keep them within the limits (agent/loop.py):  *)
(* old tool results are cleared, long old texts are folded, and at last     *)
(* everything but a recent tail is replaced by a summary.  A provider       *)
(* refuses a request in which a tool call and its result are apart, and     *)
(* what the summary does not say is gone.                                   *)
(*                                                                         *)
(* A message has a role, the ids of the calls it makes or answers, a size,  *)
(* and what can be learnt from it: Task, what the user asked for, or the    *)
(* result of a call.                                                        *)
(***************************************************************************)
EXTENDS Integers, Sequences, FiniteSets, SequencesExt

CONSTANTS
  KeepRecent,     \* KEEP_RECENT, tool results that are never cleared
  PreserveRecent, \* COLLAPSE_PRESERVE_RECENT, messages that are never folded
  Threshold,      \* _token_threshold()
  TailBudget,     \* tokens of the tail, by whether it is an emergency
  SummaryLimit,   \* size of the text to summarise, by the same
  MaxIterations,  \* max_iterations
  MaxHistory,     \* bound on the messages of the conversation before the run
  MaxCalls,       \* bound on the calls of a response
  MaxEmergencies  \* bound on the requests that are refused as too large

ASSUME TranscriptAssumption ==
  /\ {KeepRecent, PreserveRecent, MaxIterations, MaxCalls} \subseteq Nat \ {0}
  /\ {Threshold, MaxHistory, MaxEmergencies} \subseteq Nat
  /\ KeepRecent < PreserveRecent
  /\ TailBudget \in [BOOLEAN -> Nat] /\ SummaryLimit \in [BOOLEAN -> Nat]

VARIABLES
  pc,
  messages,
  previous,    \* what _previous_summary tells
  iteration,
  issued,      \* the number of calls the model has made
  latest,      \* those of its latest response
  lost,        \* how something may have got lost without being summarised
  emergencies

vars == <<pc, messages, previous, iteration, issued, latest, lost, emergencies>>

Task == 0
Small == 1
Folded == 2
Big == 3
Sizes == {Small, Big}

Message(role, ids, size, tells) ==
  [role |-> role, ids |-> ids, size |-> size, tells |-> tells]

\* What has been said before the run: turns of the user and answers without calls.
Histories ==
  UNION {[1..n -> {Message(role, {}, size, {}) :
                     role \in {"user", "assistant"}, size \in Sizes}] :
           n \in 0..MaxHistory}

\* What ContextBuilder.build_messages returns.
Init ==
  /\ pc = "top"
  /\ \E history \in Histories, size \in Sizes :
       messages = <<Message("system", {}, Big, {})>> \o history
                    \o <<Message("user", {}, size, {Task})>>
  /\ previous = {}
  /\ iteration = 0
  /\ issued = 0 /\ latest = {}
  /\ lost = {}
  /\ emergencies = 0

Told(ms) == UNION {m.tells : m \in Range(ms)}

\* estimate_tokens
Tokens(ms) ==
  LET total[n \in 0..Len(ms)] == IF n = 0 THEN 0 ELSE total[n - 1] + ms[n].size
  IN total[Len(ms)]

IsResult(m) == m.role = "tool"
-----------------------------------------------------------------------------
(***************************************************************************)
(* The layers that need no model                                           *)
(***************************************************************************)
ResultsAfter(ms, i) == Cardinality({j \in DOMAIN ms : j > i /\ IsResult(ms[j])})

\* _microcompact: a short result is not worth clearing.
Microcompact(ms) ==
  [i \in DOMAIN ms |->
     IF IsResult(ms[i]) /\ ms[i].size > Small /\ ResultsAfter(ms, i) >= KeepRecent
     THEN [ms[i] EXCEPT !.size = Small, !.tells = {}]
     ELSE ms[i]]

\* What the layers make of the transcript.
Result(ms, told, causes) == [messages |-> ms, previous |-> told, lost |-> causes]

\* The messages that _context_collapse folds: long ones that are not recent.
Old(ms) == {i \in 2..(Len(ms) - PreserveRecent) : ms[i].size = Big}

\* The two ends of a long text stay; gone is what was said between them.
Fold(ms, gone) ==
  [i \in DOMAIN ms |->
     IF i \in Old(ms) THEN [ms[i] EXCEPT !.size = Folded, !.tells = @ \ gone] ELSE ms[i]]

\* What _context_collapse may make of the transcript ms.
Collapsed(ms) ==
  {Result(Fold(ms, gone), previous, IF Task \in gone THEN {"shortened"} ELSE {}) :
     gone \in SUBSET UNION {ms[i].tells : i \in Old(ms)}}

\* Mutant of FixToolPairs: results without their call are left in place.
FixToolPairsOnlyCalls(ms) == ms

\* The calls made in ms, and those of them that are answered there.
CallsIn(ms) == UNION {ms[i].ids : i \in {j \in DOMAIN ms : ms[j].role = "assistant"}}
AnsweredIn(ms) ==
  CallsIn(ms) \cap UNION {ms[i].ids : i \in {j \in DOMAIN ms : IsResult(ms[j])}}

\* One for each call of m without a result.  No two messages call with the same id;
\* if they did, the code would write a stub for the first of them only.
Stubs(m, answered) ==
  LET open == SetToSeq(m.ids \ answered)
  IN IF m.role # "assistant" THEN <<>>
     ELSE [i \in DOMAIN open |-> Message("tool", {open[i]}, Small, {})]

\* _fix_tool_pairs: results without their call go, calls without a result get a stub.
FixToolPairs(ms) ==
  LET fixed[n \in 0..Len(ms)] ==
        IF n = 0 THEN <<>>
        ELSE IF IsResult(ms[n]) /\ ~(ms[n].ids \subseteq CallsIn(ms)) THEN fixed[n - 1]
        ELSE fixed[n - 1] \o <<ms[n]>> \o Stubs(ms[n], AnsweredIn(ms))
  IN fixed[Len(ms)]
-----------------------------------------------------------------------------
(***************************************************************************)
(* _auto_compact                                                           *)
(***************************************************************************)
Body(ms) == Tail(ms)

\* How many messages come before the longest tail within the budget.
BudgetCut(body, emergency) ==
  CHOOSE cut \in 0..Len(body) :
    /\ Tokens(SubSeq(body, cut + 1, Len(body))) <= TailBudget[emergency]
    /\ cut > 0 => Tokens(SubSeq(body, cut, Len(body))) > TailBudget[emergency]

\* Mutant of PastResults: the tail may begin with the results of a call.
PastResultsNot(body, cut) == cut

\* The tail does not begin with results: their call would be in front of it.
PastResults(body, cut) ==
  IF cut = 0 THEN 0
  ELSE CHOOSE c \in cut..Len(body) :
         /\ c < Len(body) => ~IsResult(body[c + 1])
         /\ \A i \in cut..(c - 1) : IsResult(body[i + 1])

\* Where the head ends: 0 if there is nothing to compress.  If the whole body is
\* within the budget it is cut in half, wherever that is.
HeadEnd(body, emergency) ==
  LET cut == PastResults(body, BudgetCut(body, emergency))
  IN IF cut > 0 THEN cut ELSE IF Len(body) > 2 THEN Len(body) \div 2 ELSE 0

\* Mutant of Summarised: the text is cut off at the wrong end.
SummarisedFromTheEnd(head, emergency) ==
  LET n == CHOOSE n \in 1..(Len(head) + 1) :
             /\ Tokens(SubSeq(head, n, Len(head))) <= SummaryLimit[emergency]
             /\ n > 1 => Tokens(SubSeq(head, n - 1, Len(head))) > SummaryLimit[emergency]
  IN SubSeq(head, n, Len(head))

\* The first n messages of the head are no more than can be summarised.
Fits(head, n, emergency) == Tokens(SubSeq(head, 1, n)) <= SummaryLimit[emergency]

\* What the model is given to summarise: as much of the head as fits.
Summarised(head, emergency) ==
  LET n == CHOOSE n \in 0..Len(head) :
             /\ Fits(head, n, emergency)
             /\ \A more \in (n + 1)..Len(head) : ~Fits(head, more, emergency)
  IN SubSeq(head, 1, n)

\* The head tells the task, but where the text to summarise may have ended already.
TaskUnread(head, emergency) ==
  \E n \in DOMAIN head : Task \in head[n].tells /\ ~Fits(head, n, emergency)

\* What _auto_compact may make of the transcript ms: the model summarises,
\* updating its previous summary, or fails and is replaced by a fixed text.
Compacted(ms, emergency) ==
  LET body == Body(ms)
      end == HeadEnd(body, emergency)
      head == SubSeq(body, 1, end)
      tail == SubSeq(body, end + 1, Len(body))
      input == Summarised(head, emergency)
      forced == PastResults(body, BudgetCut(body, emergency)) = 0
      causes == (IF forced THEN {"split"} ELSE {})
                  \cup (IF input # head THEN {"cut"} ELSE {})
                  \cup (IF TaskUnread(head, emergency) THEN {"unread"} ELSE {})
      With(size, told) ==
        FixToolPairs(<<ms[1], Message("user", {}, size, told)>> \o tail)
      told == previous \cup Told(input)
  IN IF end = 0 THEN {Result(ms, previous, {})}
     ELSE UNION {{Result(With(size, told), told, causes),
                  Result(With(size, {}), {}, causes \cup {"fallback"})} :
                   size \in Sizes}

\* The layers have made this of the transcript.
Become(result) ==
  /\ messages' = result.messages
  /\ previous' = result.previous
  /\ lost' = lost \cup result.lost
-----------------------------------------------------------------------------
(***************************************************************************)
(* AgentLoop.run                                                           *)
(***************************************************************************)
WrapUpAt == IF (MaxIterations * 8) \div 10 > 1 THEN (MaxIterations * 8) \div 10 ELSE 1

\* The prompt to come to an end.
WrapUp(ms, n) ==
  IF n = WrapUpAt /\ 1 < n /\ n < MaxIterations
  THEN Append(ms, Message("user", {}, Small, {}))
  ELSE ms

\* The head of an iteration: each layer if its threshold is exceeded.
Iterate ==
  /\ pc = "top"
  /\ iteration < MaxIterations
  /\ pc' = "call"
  /\ iteration' = iteration + 1
  /\ LET first == IF 2 * Tokens(messages) > Threshold
                  THEN Microcompact(messages) ELSE messages
     IN \E second \in IF 10 * Tokens(first) > 7 * Threshold
                      THEN Collapsed(first) ELSE {Result(first, previous, {})} :
        \E third \in IF Tokens(second.messages) > Threshold
                     THEN Compacted(second.messages, FALSE)
                     ELSE {Result(second.messages, previous, {})} :
          Become([third EXCEPT !.messages = WrapUp(@, iteration + 1),
                               !.lost = @ \cup second.lost])
  /\ UNCHANGED <<issued, latest, emergencies>>

\* _compact_messages_for_emergency: the message behind the system prompt is cut
\* short.  A summary begins with the goal, but loses results it tells of; the
\* user's message may begin with recalled memories and lose all the user said.
Trimmed(result) ==
  LET second == result.messages[2]
      Cut(tells) ==
        [result EXCEPT !.messages[2] = [@ EXCEPT !.size = Small, !.tells = tells],
                       !.lost = @ \cup {"trimmed"}]
  IN IF second.size = Small THEN {result}
     ELSE {Cut(second.tells), Cut(second.tells \cap {Task})}
            \cup (IF result.previous = {} THEN {Cut({})} ELSE {})

\* The provider finds the request too large: all layers at once, and again.
Emergency ==
  /\ pc = "call"
  /\ emergencies < MaxEmergencies
  /\ pc' = "recall"
  /\ emergencies' = emergencies + 1
  /\ \E second \in Collapsed(Microcompact(messages)) :
     \E third \in Compacted(second.messages, TRUE) :
     \E trimmed \in Trimmed(third) : Become([trimmed EXCEPT !.lost = @ \cup second.lost])
  /\ UNCHANGED <<iteration, issued, latest>>

Requested == pc \in {"call", "recall"}

\* The model calls tools, and each call is answered once, in some order.  One of
\* them may be compact.
CallTools ==
  /\ Requested
  /\ pc' = "top"
  /\ \E n \in 1..MaxCalls :
       LET ids == (issued + 1)..(issued + n)
           call == Message("assistant", ids, Small, {})
       IN /\ issued' = issued + n
          /\ latest' = ids
          /\ \E order \in SetToSeqs(ids), sizes \in [ids -> Sizes], compact \in BOOLEAN :
               LET results == [i \in 1..n |->
                     Message("tool", {order[i]}, sizes[order[i]], {order[i]})]
                   all == Append(messages, call) \o results
               IN \E result \in IF compact THEN Compacted(all, FALSE)
                                ELSE {Result(all, previous, {})} : Become(result)
  /\ UNCHANGED <<iteration, emergencies>>

\* The response was filtered, empty or rejected, or an answer that leaves a goal
\* open: the loop goes on with a note to the model.
GoOn ==
  /\ Requested
  /\ pc' = "top"
  /\ latest' = {}
  /\ \E size \in Sizes, role \in {"system", "user"} :
       LET note == Message(role, {}, Small, {})
           answer == Message("assistant", {}, size, {})
       IN messages' \in {Append(messages, note), messages \o <<answer, note>>}
  /\ UNCHANGED <<previous, iteration, issued, lost, emergencies>>

\* An answer, a cancellation, an error or the last iteration.
End ==
  /\ Requested \/ iteration = MaxIterations
  /\ pc # "done"
  /\ pc' = "done"
  /\ UNCHANGED <<messages, previous, iteration, issued, latest, lost, emergencies>>

Next == Iterate \/ Emergency \/ CallTools \/ GoOn \/ End

Spec == Init /\ [][Next]_vars
-----------------------------------------------------------------------------
(***************************************************************************)
(* Properties                                                              *)
(***************************************************************************)
\* Where the results of the calls of message i are to be.
Answers(ms, i) == (i + 1)..(i + Cardinality(ms[i].ids))

\* Whatever the layers did, in each request the calls of a message are followed
\* at once by their results, one for each, and there is no other result: the
\* form providers insist on, which _fix_tool_pairs is there for (loop.py:324).
RequestsAreWellFormed ==
  Requested =>
    /\ \A i \in DOMAIN messages :
         messages[i].role = "assistant" =>
           /\ \A j \in Answers(messages, i) :
                j \in DOMAIN messages /\ IsResult(messages[j])
           /\ UNION {messages[j].ids : j \in Answers(messages, i)} = messages[i].ids
    /\ \A j \in DOMAIN messages :
         IsResult(messages[j]) =>
           \E i \in DOMAIN messages :
             messages[i].role = "assistant" /\ j \in Answers(messages, i)

\* The model is told what the user asked for in every request, first or last,
\* through any number of compressions (loop.py:1913), unless it failed to write a
\* summary, the text it was given to summarise ended before the message, the message
\* was so long that its middle was folded away, or it was cut in an emergency.
TaskIsRemembered ==
  Requested /\ {"fallback", "unread", "shortened", "trimmed"} \cap lost = {} =>
    Task \in Told(messages)

\* The results of the latest response reach the model, in full or through the
\* summary, if there are no more of them than are kept; unless a compression in
\* between had to split the calls from them, to cut its input, or failed.
ResultsReachTheModel ==
  Requested /\ lost \subseteq {"shortened"} /\ Cardinality(latest) <= KeepRecent =>
    latest \subseteq Told(messages)
=============================================================================

--------------------------- MODULE ProviderStream ---------------------------
(***************************************************************************)
(* ChatLLM.stream_chat (providers/chat.py:205-222, 372-392, 458-565): one   *)
(* streamed request to the language model, tried up to MaxRetries + 1       *)
(* times.  The callbacks hand every piece of text to the agent loop at      *)
(* once, so the text of an attempt that fails later has been delivered.     *)
(*                                                                         *)
(* Pieces of reasoning, usage figures and the model's name are data.        *)
(***************************************************************************)
EXTENDS Integers

CONSTANT MaxRetries   \* max_retries

ASSUME RetryBound == MaxRetries \in Nat

VARIABLES
  stream,   \* where the request is
  lan,      \* the number of the attempt, from 0
  text,     \* this attempt has delivered text
  shown,    \* text of this turn has reached the display
  reply     \* the ChatResponse, or the ProviderStreamError

streamVars == <<stream, lan, text, shown, reply>>

NoReply == [kind |-> "none"]
\* What the loop tells apart: a response that moderation blocked, one with tool
\* calls, and one with or without text.
Answer(kind) == [kind |-> kind]
Error(retryable) == [kind |-> "error", retryable |-> retryable]

InitStream ==
  /\ stream = "idle"
  /\ lan = 0
  /\ text = FALSE
  /\ shown = FALSE
  /\ reply = NoReply

\* A call of stream_chat, with nothing collected yet.
Open ==
  /\ stream' = "connecting"
  /\ lan' = 0
  /\ text' = FALSE
  /\ reply' = NoReply

RaiseError(retryable) ==
  /\ stream' = "raised"
  /\ reply' = Error(retryable)
  /\ lan' = 0
  /\ UNCHANGED <<text, shown>>

\* A failure that another attempt may mend, and attempts are left: wait.
\* Cancellation is not asked for here.
BackOff ==
  /\ lan < MaxRetries
  /\ stream' = "waiting"
  /\ UNCHANGED <<lan, text, shown, reply>>

Transient == BackOff \/ (lan = MaxRetries /\ RaiseError(TRUE))

Connect ==
  /\ stream = "connecting"
  /\ stream' = "reading"
  /\ UNCHANGED <<lan, text, shown, reply>>

\* The connection is refused: for good (a 4xx, a missing key), because the
\* request is too large (HTTP 413), or for now.
Refused ==
  /\ stream = "connecting"
  /\ RaiseError(FALSE) \/ RaiseError(TRUE) \/ Transient

\* The connection breaks while the answer is read.
Broken ==
  /\ stream = "reading"
  /\ Transient

\* The next attempt.  What the callbacks were given stays with the loop, and
\* what was shown stays on the display.
Retry ==
  /\ stream = "waiting"
  /\ stream' = "connecting"
  /\ lan' = lan + 1
  /\ text' = FALSE
  /\ UNCHANGED <<shown, reply>>

\* A line with text; hidden says that drafts must not be shown.
Text(cancel, hidden) ==
  /\ stream = "reading"
  /\ ~cancel
  /\ ~text
  /\ text' = TRUE
  /\ shown' = (shown \/ ~hidden)
  /\ UNCHANGED <<stream, lan, reply>>

\* The stream ends, or the next line finds the run cancelled: what has arrived
\* is the response, whole or not.
Finish ==
  /\ stream = "reading"
  /\ stream' = "answered"
  /\ \E kind \in {"filtered", "tools", IF text THEN "text" ELSE "empty"} :
       reply' = Answer(kind)
  /\ lan' = 0
  /\ UNCHANGED <<text, shown>>

StreamStep(cancel, hidden) ==
  \/ Connect \/ Refused \/ Broken \/ Retry \/ Finish
  \/ Text(cancel, hidden)
=============================================================================

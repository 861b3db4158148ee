--------------------------- MODULE GroundingLedger ---------------------------
(***************************************************************************)
(* The identity half of GroundingLedger (agent/grounding.py): which names  *)
(* the tools of a run may use.  A name is locked when the user's request   *)
(* spells it, or when the resolver tool found exactly one candidate for a  *)
(* query; tools that take names are refused until then.  The numeric       *)
(* evidence the ledger also collects decides nothing (its checks have no   *)
(* caller) and is left out.                                                *)
(***************************************************************************)
EXTENDS Naturals, Sequences

CONSTANTS
  Symbol,   \* normalized entity codes
  BaseOf,   \* the part of a code in front of its first separator
  Query     \* normalized resolver queries

ASSUME BaseAssumption == \A s \in Symbol : s \in DOMAIN BaseOf

VARIABLES
  named,     \* the codes in the user's message ("explicit:" records); constant
  identity,  \* the record of each query
  required   \* _identity_required

ledgerVars == <<named, identity, required>>

NoSymbol == "no symbol"
RecordStatus == {"none", "unresolved", "locked", "ambiguous", "conflicting",
                 "invalidated", "not_found"}
Record == [status : RecordStatus, symbol : Symbol \cup {NoSymbol}]

Unlocked(status) == [status |-> status, symbol |-> NoSymbol]
LockedTo(s) == [status |-> "locked", symbol |-> s]

\* _seed_symbols: the codes in the message are locked, and required.
SeedSymbols ==
  /\ named \in SUBSET Symbol
  /\ named # {} => required

\* A message that asks for a look-up needs an identity as well.
InitLedger ==
  /\ required \in BOOLEAN
  /\ SeedSymbols
  /\ identity = [q \in Query |-> Unlocked("none")]

\* What the resolver locked, and what is authorized altogether.
Resolved == {identity[q].symbol : q \in {p \in Query : identity[p].status = "locked"}}
AuthorizedSymbols == named \cup Resolved

Statuses == {identity[q].status : q \in Query} \ {"none"}

\* The statuses that hold a run up, worst first.
Blocking == <<"conflicting", "ambiguous", "invalidated", "unresolved">>

\* identity_status: one bad record outweighs every good one.
IdentityStatus ==
  LET bad == SelectSeq(Blocking, LAMBDA b : b \in Statuses)
  IN IF bad # <<>> THEN Head(bad)
     ELSE IF "locked" \in Statuses \/ named # {} THEN "locked"
     ELSE IF Statuses # {} THEN "not_found"
     ELSE IF required THEN "unresolved" ELSE "not_required"

\* _begin_resolution, when the call is authorized and before it runs.
BeginResolution(q) ==
  /\ required' = TRUE
  /\ identity' = [identity EXCEPT ![q] = Unlocked("unresolved")]
  /\ UNCHANGED named

\* _finish_failed_resolution: a failing look-up takes the lock of its query away.
FailResolution(q) ==
  /\ identity' = [identity EXCEPT ![q] = Unlocked("invalidated")]
  /\ UNCHANGED <<named, required>>

\* Another locked code for what seems to be the same thing.
IsAliasOfLocked(s) ==
  \E x \in AuthorizedSymbols : x # s /\ BaseOf[x] = BaseOf[s]

\* Mutant of Lock: codes locked earlier are not looked at.
LockUnchecked(q, s) ==
  IF identity[q].status = "locked" /\ identity[q].symbol # s
  THEN Unlocked("conflicting") ELSE LockedTo(s)

\* The resolver picked s: locked, unless it is at odds with what is locked.
Lock(q, s) ==
  IF IsAliasOfLocked(s) \/ (identity[q].status = "locked" /\ identity[q].symbol # s)
  THEN Unlocked("conflicting") ELSE LockedTo(s)

\* _ingest_resolution.  The record is filed under the query the result names,
\* which need not be the one that was asked; a result that is not a JSON object
\* changes nothing.
Ingest ==
  \/ UNCHANGED ledgerVars
  \/ /\ \E q \in Query :
          \/ \E status \in {"not_found", "invalidated", "ambiguous"} :
               identity' = [identity EXCEPT ![q] = Unlocked(status)]
          \/ \E s \in Symbol : identity' = [identity EXCEPT ![q] = Lock(q, s)]
     /\ UNCHANGED <<named, required>>

TypeOKLedger ==
  /\ named \in SUBSET Symbol
  /\ identity \in [Query -> Record]
  /\ required \in BOOLEAN

\* What the resolver locked never names two codes of one thing, nor one that
\* the user's own codes contradict: the tools that get different codes from one
\* set of authorized ones are about different things (grounding.py:784-804).
LockedSymbolsAgree ==
  \A s \in Resolved, x \in AuthorizedSymbols : BaseOf[s] = BaseOf[x] => s = x
=============================================================================

----------------------------- MODULE Moderation -----------------------------
(***************************************************************************)
(* The security check before a turn runs (core/src/moderation.js and its    *)
(* caller in core/src/server.js): at most two calls of a classifier whose   *)
(* reply may be refused, malformed or fail, with the decision logged before *)
(* it is returned.  A failure blocks the request.  The level in the reply    *)
(* is not validated: it is compared as JavaScript compares it.              *)
(***************************************************************************)
EXTENDS Integers

CONSTANT Calls   \* calls of the classifier per message

VARIABLES
  phase,     \* "start", "call", "parse", "log" or "done"
  jsonMode,  \* the provider is asked for a JSON object
  attempt,
  score,     \* the risk level read
  spent,     \* calls the provider answered, and billed
  billed,    \* calls the caller was told to account for
  logged,
  fate       \* "pending", "bypassed", "runs", "blocked" or "stopped"

vars == <<phase, jsonMode, attempt, score, spent, billed, logged, fate>>

\* The level in a reply: a number (-1: below the scale), or something else that compares
\* as one (null, '', [], a boolean, a numeric string), or nothing that compares: a level
\* that is missing, an object or a word.
NoLevel == [is |-> "nothing", as |-> 0]
Levels == [is : {"number", "other"}, as : -1..10] \cup {NoLevel}

TypeOK ==
  /\ phase \in {"start", "call", "parse", "log", "done"}
  /\ jsonMode \in BOOLEAN /\ logged \in BOOLEAN
  /\ attempt \in 1..Calls /\ score \in Levels
  /\ spent \in 0..Calls /\ billed \in 0..Calls
  /\ fate \in {"pending", "bypassed", "runs", "blocked", "stopped"}

Init ==
  /\ phase = "start" /\ jsonMode \in BOOLEAN /\ attempt = 1 /\ score = NoLevel
  /\ spent = 0 /\ billed = 0 /\ logged = FALSE /\ fate = "pending"

\* What handle() does with the decision: a stop that came meanwhile ends the turn.
Decide(allowed) ==
  /\ phase' = "done"
  /\ fate' \in IF allowed THEN {"runs", "stopped"} ELSE {"blocked"}

\* moderate(): a fully trusted sender is not classified.
moderate ==
  /\ phase = "start"
  /\ \/ phase' = "call" /\ UNCHANGED fate
     \/ phase' = "done" /\ fate' = "bypassed"
  /\ UNCHANGED <<jsonMode, attempt, score, spent, billed, logged>>

FailOpen == Decide(TRUE)
\* moderate()'s catch: fail secure, and tell nothing of what was spent.
FailSecure == Decide(FALSE)

\* A refused format and a malformed reply are each tried again, to two calls in all.
Again_Always == TRUE
Again == attempt < Calls

\* providerRaw answers, is refused for the response format, or fails.
providerRaw ==
  /\ phase = "call"
  /\ \/ /\ phase' = "parse" /\ spent' = spent + 1 /\ UNCHANGED <<jsonMode, attempt, fate>>
     \/ /\ jsonMode /\ Again
        /\ jsonMode' = FALSE /\ attempt' = attempt + 1 /\ UNCHANGED <<phase, spent, fate>>
     \/ FailSecure /\ UNCHANGED <<jsonMode, attempt, spent>>
  /\ UNCHANGED <<score, billed, logged>>

\* extractJson: a malformed reply is asked for once more; an object passes, whatever its level.
extractJson ==
  /\ phase = "parse"
  /\ \/ /\ phase' = "log" /\ score' \in Levels /\ UNCHANGED <<attempt, fate>>
     \/ /\ Again
        /\ phase' = "call" /\ attempt' = attempt + 1 /\ UNCHANGED <<score, fate>>
     \/ /\ ~Again /\ FailSecure /\ UNCHANGED <<score, attempt>>
  /\ UNCHANGED <<jsonMode, spent, billed, logged>>

\* assessment.riskLevel <= 6
AtMostSix == score.is # "nothing" /\ score.as <= 6

\* logModerationEvent, then the decision and what it cost.
logModerationEvent ==
  /\ phase = "log"
  /\ \/ /\ logged' = TRUE /\ billed' = spent
        /\ Decide(AtMostSix)
     \/ /\ FailSecure /\ UNCHANGED <<billed, logged>>
  /\ UNCHANGED <<jsonMode, attempt, score, spent>>

Next == moderate \/ providerRaw \/ extractJson \/ logModerationEvent

Spec == Init /\ [][Next]_vars

---------------------------------------------------------------------------
\* A message of a sender who is moderated runs only when a level that compares at most six
\* was read and that decision is on record: a refused, failed or unlogged check, a reply
\* without an object and one without a level block it.
RunsOnlyIfCleared == fate \in {"runs", "stopped"} => AtMostSix /\ logged

\* "Fail-secure": it runs only when the classifier gave it a level of the scale.
FailsSecure == fate \in {"runs", "stopped"} => score.is = "number" /\ score.as \in 0..6

\* Every call that cost something is accounted for when the check is over.
EveryCallCounted == phase = "done" => billed = spent
=============================================================================

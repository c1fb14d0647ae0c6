----------------------------- MODULE TurnQueue -----------------------------
(***************************************************************************)
(* What asmltr-core promises about turns, without the mechanisms: each       *)
(* conversation is a queue, only the turn at its head is served, and no more *)
(* than MaxConcurrent messages are served at once.  A turn may also leave    *)
(* the head of its queue unserved (it was stopped, or nobody should answer). *)
(* Turns.tla implements this specification.                                  *)
(***************************************************************************)
EXTENDS Integers, Sequences, FiniteSets

CONSTANTS Keys, Messages, Injects, MaxConcurrent

VARIABLES
  queue,    \* per conversation, the accepted turns that are not over
  serving   \* the turns being moderated, run or delivered

qvars == <<queue, serving>>

AtHead(t, k) == queue[k] # <<>> /\ Head(queue[k]) = t

Init ==
  /\ queue = [k \in Keys |-> <<>>]
  /\ serving = {}

Accept(t, k) ==
  /\ queue' = [queue EXCEPT ![k] = Append(@, t)]
  /\ UNCHANGED serving

Serve(t, k) ==
  /\ AtHead(t, k)
  /\ t \notin serving
  /\ t \in Messages => Cardinality(serving \cap Messages) < MaxConcurrent
  /\ serving' = serving \cup {t}
  /\ UNCHANGED queue

Finish(t, k) ==
  /\ AtHead(t, k)
  /\ queue' = [queue EXCEPT ![k] = Tail(@)]
  /\ serving' = serving \ {t}

Next == \E t \in Messages \cup Injects, k \in Keys :
          Accept(t, k) \/ Serve(t, k) \/ Finish(t, k)

Spec == Init /\ [][Next]_qvars
=============================================================================

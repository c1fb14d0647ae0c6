------------------------------- MODULE Turns -------------------------------
(***************************************************************************)
(* How asmltr-core runs turns (core/src/server.js): the per-conversation    *)
(* lock, the global concurrency slots, the registry a stop signals, the     *)
(* guards of handle() in their order, the session row a turn resumes and    *)
(* writes, and the operations that act on a conversation from outside:      *)
(* stop, steer (inject), forget, claim and release.                         *)
(*                                                                         *)
(* node.js runs one callback at a time, so an action is the code between    *)
(* two awaits.  Engine sessions are named after the turn whose fresh run    *)
(* created them, which makes the ids unique without a counter.              *)
(***************************************************************************)
EXTENDS Integers, Sequences, FiniteSets

CONSTANTS
  Keys,           \* conversation keys
  Messages,       \* inbound envelopes, run through dispatch()
  Injects,        \* operator or mesh steers, POST /v2/inject
  Jobs,           \* scheduled prompts, which call handle() directly
  ScheduledKeys,  \* conversations a prompt job may name as its session
  Cli,            \* turns that run on a CLI engine (codex, gemini)
  MaxConcurrent,  \* MAX_CONCURRENT
  None            \* no engine session, no conversation yet

Turns == Messages \cup Injects \cup Jobs

ASSUME TurnKinds ==
  /\ Messages \cap Injects = {}
  /\ Messages \cap Jobs = {}
  /\ Injects \cap Jobs = {}
  /\ None \notin Turns \cup Keys

ASSUME Bounds ==
  /\ IsFiniteSet(Messages)
  /\ MaxConcurrent \in Nat \ {0}
  /\ ScheduledKeys \subseteq Keys
  /\ Cli \subseteq Turns

VARIABLES
  pc,         \* where each turn is
  key,        \* the conversation of each accepted turn
  chain,      \* keyChains: per conversation, the lock's holder, then its queue
  active,     \* the slots taken
  waiters,    \* turns waiting for a slot, first come first served
  inFlight,   \* per conversation, the turns a stop would signal
  aborted,    \* the turns whose AbortController has fired
  row,        \* the sessions table
  resume,     \* the engine session each engine run was asked to resume
  posted,     \* turns whose reply text was handed back for delivery
  late,       \* history: messages that reached the engine under the present claim
  forgotten   \* history: engine sessions that a forget discarded

vars == <<pc, key, chain, active, waiters, inFlight, aborted, row, resume,
          posted, late, forgotten>>

Phases == {"idle", "queued", "slot", "admitted", "moderating", "running",
           "delivering", "done"}

Row == [here : BOOLEAN, engine : Turns \cup {None}, claimed : BOOLEAN]
NoRow == [here |-> FALSE, engine |-> None, claimed |-> FALSE]

TypeOK ==
  /\ pc \in [Turns -> Phases]
  /\ key \in [Turns -> Keys \cup {None}]
  /\ chain \in [Keys -> Seq(Messages \cup Injects)]
  /\ active \in Nat
  /\ waiters \in Seq(Messages)
  /\ inFlight \in [Keys -> SUBSET Turns]
  /\ aborted \in SUBSET Turns
  /\ row \in [Keys -> Row]
  /\ resume \in [Turns -> Turns \cup {None}]
  /\ posted \in SUBSET Turns
  /\ late \in [Keys -> SUBSET Messages]
  /\ forgotten \in [Keys -> SUBSET Turns]

Init ==
  /\ pc = [t \in Turns |-> "idle"]
  /\ key = [t \in Turns |-> None]
  /\ chain = [k \in Keys |-> <<>>]
  /\ active = 0
  /\ waiters = <<>>
  /\ inFlight = [k \in Keys |-> {}]
  /\ aborted = {}
  /\ row = [k \in Keys |-> NoRow]
  /\ resume = [t \in Turns |-> None]
  /\ posted = {}
  /\ late = [k \in Keys |-> {}]
  /\ forgotten = [k \in Keys |-> {}]

---------------------------------------------------------------------------
(* Helpers: the lock, the slots, the registry, the session row.  A definition *)
(* whose name carries a suffix after _ is the code with one mistake in it.    *)

HoldsLock_Ignored(t) == TRUE
HoldsLock(t) == chain[key[t]] # <<>> /\ Head(chain[key[t]]) = t

SlotFree_OffByOne == active <= MaxConcurrent
SlotFree == active < MaxConcurrent

\* The looks at the abort signal: before handle(), after moderation, before a rerun.
StillWanted_Unchecked(t) == TRUE
StillWanted(t) == t \notin aborted

ClaimGuard_Missing(k) == TRUE
ClaimGuard(k) == ~row[k].claimed

\* The engine session a turn's run reads and extends: the one it resumes, or its own.
EngineOf(t) == IF resume[t] # None THEN resume[t] ELSE t

Track_Single(t, k) == inFlight' = [inFlight EXCEPT ![k] = {t}]
Track(t, k) == inFlight' = [inFlight EXCEPT ![k] = @ \cup {t}]
Untrack_Forgotten(t) == UNCHANGED inFlight
Untrack(t) == inFlight' = [inFlight EXCEPT ![key[t]] = @ \ {t}]
AbortKey(k) == aborted' = aborted \cup inFlight[k]

Unlock(t) == chain' = [chain EXCEPT ![key[t]] = Tail(@)]

\* sessions.resolveForTurn: make the row if there is none, resume its engine session.
Resolve(t, k) ==
  /\ row' = [row EXCEPT ![k].here = TRUE]
  /\ resume' = [resume EXCEPT ![t] = row[k].engine]

EndTurn_NoHandOver(m) ==
  /\ active' = active - 1
  /\ waiters' = waiters
  /\ pc' = [pc EXCEPT ![m] = "done"]

EndTurn_NoIncrement(m) ==
  /\ active' = active - 1
  /\ IF waiters = <<>>
     THEN waiters' = waiters /\ pc' = [pc EXCEPT ![m] = "done"]
     ELSE /\ waiters' = Tail(waiters)
          /\ pc' = [pc EXCEPT ![m] = "done", ![Head(waiters)] = "admitted"]

\* releaseSlot(): the first waiter takes the slot over, or the slot becomes free.
EndTurn(m) ==
  IF waiters = <<>>
  THEN /\ active' = active - 1
       /\ waiters' = waiters
       /\ pc' = [pc EXCEPT ![m] = "done"]
  ELSE /\ active' = active
       /\ waiters' = Tail(waiters)
       /\ pc' = [pc EXCEPT ![m] = "done", ![Head(waiters)] = "admitted"]

\* What ends with turn t: its controller and the locals of its calls.
Drop(t) ==
  /\ key' = [key EXCEPT ![t] = None]
  /\ resume' = [resume EXCEPT ![t] = None]
  /\ aborted' = aborted \ {t}

\* The finally blocks of dispatch(): slot, then registry, then the lock's next holder.
Leave(m) == EndTurn(m) /\ Untrack(m) /\ Unlock(m) /\ Drop(m)

---------------------------------------------------------------------------
(* A message: dispatch(), then handle().                                    *)

\* Registered before the lock and the slot, so that a stop always finds it.
Accept(m, k) ==
  /\ pc[m] = "idle"
  /\ pc' = [pc EXCEPT ![m] = "queued"]
  /\ key' = [key EXCEPT ![m] = k]
  /\ chain' = [chain EXCEPT ![k] = Append(@, m)]
  /\ Track(m, k)
  /\ UNCHANGED <<active, waiters, aborted, row, resume, posted, late, forgotten>>

AcquireSlot(m) ==
  /\ pc[m] = "queued"
  /\ HoldsLock(m)
  /\ \/ /\ SlotFree
        /\ active' = active + 1
        /\ pc' = [pc EXCEPT ![m] = "admitted"]
        /\ UNCHANGED waiters
     \/ /\ ~SlotFree
        /\ waiters' = Append(waiters, m)
        /\ pc' = [pc EXCEPT ![m] = "slot"]
        /\ UNCHANGED active
  /\ UNCHANGED <<key, chain, inFlight, aborted, row, resume, posted, late, forgotten>>

\* Stopped while it was queued: never started.
DropStopped(m) ==
  /\ pc[m] = "admitted"
  /\ m \in aborted
  /\ Leave(m)
  /\ UNCHANGED <<row, posted, late, forgotten>>

\* Observe-only, claimed by a terminal, revoked, or an ignore/observe engagement:
\* handle() returns before it reaches moderation.
Decline(m) ==
  /\ pc[m] = "admitted"
  /\ StillWanted(m)
  /\ Leave(m)
  /\ UNCHANGED <<row, posted, late, forgotten>>

StartModeration(m) ==
  /\ pc[m] = "admitted"
  /\ StillWanted(m)
  /\ ClaimGuard(key[m])
  /\ pc' = [pc EXCEPT ![m] = "moderating"]
  /\ UNCHANGED <<key, chain, active, waiters, inFlight, aborted, row, resume,
                 posted, late, forgotten>>

\* Moderation blocks the message, or the turn was stopped in the meantime.
EndInModeration(m) ==
  /\ pc[m] = "moderating"
  /\ Leave(m)
  /\ UNCHANGED <<row, posted, late, forgotten>>

StartEngine(m) ==
  /\ pc[m] = "moderating"
  /\ StillWanted(m)
  /\ Resolve(m, key[m])
  /\ pc' = [pc EXCEPT ![m] = "running"]
  /\ late' = [late EXCEPT ![key[m]] = IF row[key[m]].claimed THEN @ \cup {m} ELSE @]
  /\ UNCHANGED <<key, chain, active, waiters, inFlight, aborted, posted, forgotten>>

---------------------------------------------------------------------------
(* The engine run, whoever asked for it.                                    *)

\* What the run reports as its session: the resumed one, a new one, or nothing
\* when it ended before the engine named it.
Reported(t) == IF resume[t] # None THEN {resume[t]} ELSE {t, None}

RecordEngine_Upsert(t, id) ==
  row' = [row EXCEPT ![key[t]].engine = IF id # None THEN id ELSE @, ![key[t]].here = TRUE]

\* sessions.recordEngineId: an UPDATE, so a forgotten row stays forgotten.
RecordEngine(t, id) ==
  row' = [row EXCEPT ![key[t]].engine = IF id # None /\ row[key[t]].here THEN id ELSE @]

\* The turn is over: what its caller gives back.
Exit(t) ==
  \/ t \in Messages /\ Leave(t)
  \/ /\ t \in Injects
     /\ pc' = [pc EXCEPT ![t] = "done"]
     /\ Untrack(t)
     /\ Unlock(t)
     /\ Drop(t)
     /\ UNCHANGED <<active, waiters>>
  \/ /\ t \in Jobs
     /\ pc' = [pc EXCEPT ![t] = "done"]
     /\ Untrack(t)
     /\ Drop(t)
     /\ UNCHANGED <<chain, active, waiters>>

\* runTurn() returned.  No look at the abort signal follows: a stopped run that
\* returns (every CLI run, and the SDK loop's break) is recorded and posted too.
\* The text may also be empty, [[NO_REPLY]], or held as a draft.
EngineReturns(t) ==
  /\ pc[t] = "running"
  /\ \E id \in Reported(t) : RecordEngine(t, id)
  /\ posted' \in {posted, posted \cup ({t} \ Injects)}
  /\ Exit(t)
  /\ UNCHANGED <<late, forgotten>>

EngineThrows(t) ==
  /\ pc[t] = "running"
  /\ Exit(t)
  /\ UNCHANGED <<row, posted, late, forgotten>>

\* The resumed session no longer exists: drop its id and run again from scratch.
\* Only the SDK engine reports this by throwing.
RetryFresh(t) ==
  /\ pc[t] = "running"
  /\ t \notin Cli
  /\ resume[t] # None
  /\ StillWanted(t)
  /\ row' = [row EXCEPT ![key[t]].engine = None]
  /\ resume' = [resume EXCEPT ![t] = None]
  /\ UNCHANGED <<pc, key, chain, active, waiters, inFlight, aborted, posted, late, forgotten>>

---------------------------------------------------------------------------
(* An inject takes the lock but no slot, and is tracked only once it runs.  *)

Inject(i, k, interrupt) ==
  /\ pc[i] = "idle"
  /\ row[k].here
  /\ pc' = [pc EXCEPT ![i] = "queued"]
  /\ key' = [key EXCEPT ![i] = k]
  /\ chain' = [chain EXCEPT ![k] = Append(@, i)]
  /\ IF interrupt THEN AbortKey(k) ELSE UNCHANGED aborted
  /\ UNCHANGED <<active, waiters, inFlight, row, resume, posted, late, forgotten>>

RunInject(i) ==
  /\ pc[i] = "queued"
  /\ i \in Injects
  /\ HoldsLock(i)
  /\ Resolve(i, key[i])
  /\ Track(i, key[i])
  /\ pc' = [pc EXCEPT ![i] = "running"]
  /\ UNCHANGED <<key, chain, active, waiters, aborted, posted, late, forgotten>>

\* The run produced a reply and the row had a route: deliver it, the lock still held.
StartDelivery(i) ==
  /\ pc[i] = "running"
  /\ i \in Injects
  /\ \E id \in Reported(i) : RecordEngine(i, id)
  /\ Untrack(i)
  /\ pc' = [pc EXCEPT ![i] = "delivering"]
  /\ UNCHANGED <<key, chain, active, waiters, aborted, resume, posted, late, forgotten>>

EndDelivery(i) ==
  /\ pc[i] = "delivering"
  /\ pc' = [pc EXCEPT ![i] = "done"]
  /\ Unlock(i)
  /\ Drop(i)
  /\ posted' \in {posted, posted \cup {i}}
  /\ UNCHANGED <<active, waiters, inFlight, row, late, forgotten>>

---------------------------------------------------------------------------
(* A scheduled prompt that names a conversation: handle() with neither the   *)
(* lock nor a slot.  Its sender bypasses moderation, so nothing is awaited   *)
(* before the engine run.  A claimed conversation ends it before the try     *)
(* block whose finally would untrack it.                                     *)

FireJob(j, k) ==
  /\ pc[j] = "idle"
  /\ k \in ScheduledKeys
  /\ Track(j, k)
  /\ \/ /\ ~ClaimGuard(k)
        /\ pc' = [pc EXCEPT ![j] = "done"]
        /\ UNCHANGED <<key, row, resume>>
     \/ /\ ClaimGuard(k)
        /\ pc' = [pc EXCEPT ![j] = "running"]
        /\ key' = [key EXCEPT ![j] = k]
        /\ Resolve(j, k)
  /\ UNCHANGED <<chain, active, waiters, aborted, posted, late, forgotten>>

---------------------------------------------------------------------------
(* Operations on a conversation from outside.                               *)

Stop(k) ==
  /\ inFlight[k] # {}
  /\ AbortKey(k)
  /\ UNCHANGED <<pc, key, chain, active, waiters, inFlight, row, resume, posted,
                 late, forgotten>>

\* POST /v2/session/forget.  The histories it discards are the stored one and
\* those of the runs it aborts.
Forget(k) ==
  /\ AbortKey(k)
  /\ row' = [row EXCEPT ![k] = NoRow]
  /\ late' = [late EXCEPT ![k] = {}]
  /\ forgotten' = [forgotten EXCEPT ![k] = @
        \cup ({row[k].engine} \ {None})
        \cup {EngineOf(t) : t \in {u \in Turns : pc[u] = "running" /\ key[u] = k}}]
  /\ UNCHANGED <<pc, key, chain, active, waiters, inFlight, resume, posted>>

Claim(k) ==
  /\ row[k].here
  /\ row[k].engine # None
  /\ ~row[k].claimed
  /\ row' = [row EXCEPT ![k].claimed = TRUE]
  /\ late' = [late EXCEPT ![k] = {}]
  /\ UNCHANGED <<pc, key, chain, active, waiters, inFlight, aborted, resume,
                 posted, forgotten>>

Release(k) ==
  /\ row[k].claimed
  /\ row' = [row EXCEPT ![k].claimed = FALSE]
  /\ UNCHANGED <<pc, key, chain, active, waiters, inFlight, aborted, resume,
                 posted, late, forgotten>>

---------------------------------------------------------------------------
\* What turn t does by itself once it is accepted.
Step(t) ==
  \/ t \in Messages /\ (AcquireSlot(t) \/ DropStopped(t) \/ Decline(t)
                         \/ StartModeration(t) \/ EndInModeration(t) \/ StartEngine(t))
  \/ t \in Injects /\ (RunInject(t) \/ StartDelivery(t) \/ EndDelivery(t))
  \/ EngineReturns(t) \/ EngineThrows(t) \/ RetryFresh(t)

Request(k) ==
  \/ \E m \in Messages : Accept(m, k)
  \/ \E i \in Injects, b \in BOOLEAN : Inject(i, k, b)
  \/ \E j \in Jobs : FireJob(j, k)
  \/ Stop(k) \/ Forget(k) \/ Claim(k) \/ Release(k)

Next == (\E t \in Turns : Step(t)) \/ (\E k \in Keys : Request(k))

Spec == Init /\ [][Next]_vars

\* Moderation calls, engine runs and deliveries answer in the end; the event loop
\* runs every callback that is ready.
FairSpec == Spec /\ \A t \in Turns : WF_vars(Step(t))

---------------------------------------------------------------------------
(* What the pipeline promises its callers: one turn at a time per            *)
(* conversation, in the order of acceptance, under one cap.                  *)

Serving == {t \in Messages \cup Injects : pc[t] \in {"moderating", "running", "delivering"}}

Abs == INSTANCE TurnQueue WITH queue <- chain, serving <- Serving

\* Every step of the pipeline is a step of the abstract queue, or leaves it as it is:
\* the lock, the slots and the aborted turns never let a turn overtake another of
\* its conversation, nor more messages be served than the cap.
ServesInOrder == Abs!Spec

---------------------------------------------------------------------------
(* Properties.                                                              *)

SlotHolders == {m \in Messages : pc[m] \in {"admitted", "moderating", "running"}}

\* acquireSlot/releaseSlot: the counter is exactly the number of messages that hold
\* a slot, it never passes the cap, and no slot is free while a message waits.
SlotAccounting ==
  /\ active = Cardinality(SlotHolders)
  /\ active <= MaxConcurrent
  /\ waiters # <<>> => active = MaxConcurrent

PastLock == {t \in Messages \cup Injects :
               pc[t] \in {"slot", "admitted", "moderating", "running", "delivering"}}

\* withKeyLock: two messages or injects of one conversation are never past the lock
\* together, so never both in moderation, in an engine run or in a delivery.
LockedApart == \A t, u \in PastLock : key[t] = key[u] => t = u

\* "Serialize turns sharing a conversation_key" for whoever starts the turn.
RunsApart ==
  \A t, u \in Turns : pc[t] = "running" /\ pc[u] = "running" /\ key[t] = key[u] => t = u

\* A stop finds every message from the moment it is accepted until it is over, and
\* every engine run of an inject or a job.
Stoppable ==
  /\ \A m \in Messages : pc[m] \notin {"idle", "done"} => m \in inFlight[key[m]]
  /\ \A t \in Turns : pc[t] = "running" => t \in inFlight[key[t]]

\* untrackTurn: the registry does not outlive the turns, so a stop that reports success
\* stopped something.  A prompt job ended by a claim stays tracked for ever (FireJob),
\* which is why the conversations jobs may name are left out.
NothingLeftTrackedUnscheduled ==
  \A k \in Keys \ ScheduledKeys : \A t \in inFlight[k] : key[t] = k /\ pc[t] \notin {"idle", "done"}

\* A stopped turn never starts an engine run, nor starts one again: a stop that
\* lands in the queue, in the wait for a slot or in moderation is not dropped.
StoppedNeverStarts ==
  [][\A t \in aborted :
       pc'[t] = "running" => (pc[t] = "running" /\ resume'[t] = resume[t])]_vars

\* A forgotten history never comes back to the conversation, although the run it
\* aborts may still report it (conversations no prompt job names).
ForgetIsFinal ==
  \A k \in Keys \ ScheduledKeys : row[k].engine \notin forgotten[k]

\* A claim lets at most one message through to the engine: the one already in
\* moderation when the claim was made.
AtMostOneLate == \A k \in Keys : \A t, u \in late[k] : t = u

\* An operator's stop keeps the turn silent: nothing of it is posted.
StoppedPostsNothing == [][\A m \in Messages : (m \in posted' /\ m \notin posted) => m \notin aborted]_vars

\* Every accepted turn comes to its end, whatever the queues before it.
EveryTurnEnds == \A t \in Turns : pc[t] # "idle" ~> pc[t] = "done"
=============================================================================

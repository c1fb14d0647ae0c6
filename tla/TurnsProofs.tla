---------------------------- MODULE TurnsProofs ----------------------------
(* Proofs about Turns, for every set of conversations, turns and any cap:    *)
(* types, slots and locks; what a stop, a forget and a claim find and leave;  *)
(* and that the pipeline implements TurnQueue.                                *)
EXTENDS Turns, TLAPS, FiniteSetTheorems

---------------------------------------------------------------------------
(* The inductive invariant.                                                 *)

\* The phases each kind of turn goes through, and which turns have a conversation.
PhaseInv ==
  /\ \A m \in Messages : pc[m] # "delivering"
  /\ \A i \in Injects : pc[i] \in {"idle", "queued", "running", "delivering", "done"}
  /\ \A j \in Jobs : pc[j] \in {"idle", "running", "done"}
  /\ \A t \in Turns : pc[t] \notin {"idle", "done"} => key[t] \in Keys

\* Who is past the lock is at the head of its conversation's chain.
LockInv == \A t \in PastLock : HoldsLock(t)

\* waiters are distinct messages, all of them in the slot phase.
WaitInv ==
  /\ \A n \in 1..Len(waiters) : pc[waiters[n]] = "slot"
  /\ \A n, o \in 1..Len(waiters) : waiters[n] = waiters[o] => n = o

IInv == TypeOK /\ PhaseInv /\ LockInv /\ WaitInv /\ SlotAccounting

---------------------------------------------------------------------------
(* The actions, seen from the lock and the slots, are of seven classes.     *)

Control == <<pc, key, chain, active, waiters>>

Enqueues(t, k) ==
  /\ t \in Messages \cup Injects
  /\ pc[t] = "idle"
  /\ pc' = [pc EXCEPT ![t] = "queued"]
  /\ key' = [key EXCEPT ![t] = k]
  /\ chain' = [chain EXCEPT ![k] = Append(@, t)]
  /\ UNCHANGED <<active, waiters>>

Leaves(m) == pc[m] \in {"admitted", "moderating", "running"} /\ Leave(m)

InjectEnds(i) ==
  /\ pc[i] \in {"running", "delivering"}
  /\ pc' = [pc EXCEPT ![i] = "done"]
  /\ key' = [key EXCEPT ![i] = None]
  /\ Unlock(i)
  /\ UNCHANGED <<active, waiters>>

JobMoves(j) ==
  /\ \/ /\ pc' = [pc EXCEPT ![j] = "running"]
        /\ \E k \in Keys : key' = [key EXCEPT ![j] = k]
     \/ /\ pc' = [pc EXCEPT ![j] = "done"]
        /\ key' = key \/ key' = [key EXCEPT ![j] = None]
  /\ UNCHANGED <<chain, active, waiters>>

Advances(t, p) ==
  /\ \/ t \in Messages /\ pc[t] = "admitted" /\ p = "moderating"
     \/ t \in Messages /\ pc[t] = "moderating" /\ p = "running"
     \/ t \in Injects /\ pc[t] = "queued" /\ HoldsLock(t) /\ p = "running"
     \/ t \in Injects /\ pc[t] = "running" /\ p = "delivering"
  /\ pc' = [pc EXCEPT ![t] = p]
  /\ UNCHANGED <<key, chain, active, waiters>>

Moves ==
  \/ \E t \in Turns, k \in Keys : Enqueues(t, k)
  \/ \E m \in Messages : AcquireSlot(m)
  \/ \E m \in Messages : Leaves(m)
  \/ \E i \in Injects : InjectEnds(i)
  \/ \E j \in Jobs : JobMoves(j)
  \/ \E t \in Turns, p \in Phases : Advances(t, p)
  \/ UNCHANGED Control

\* What a turn does by itself is one of the classes of moves over the lock, the slots and
\* the phases.
LEMMA StepMoves ==
  ASSUME NEW t \in Turns, Step(t)
  PROVE  Moves
  <1> USE DEF Turns, Control
  <1>1. ASSUME t \in Messages, AcquireSlot(t) PROVE Moves
    BY <1>1 DEF Moves
  <1>2. ASSUME t \in Messages, DropStopped(t) \/ Decline(t) \/ EndInModeration(t) PROVE Moves
    <2>1. Leaves(t)
      BY <1>2 DEF Leaves, DropStopped, Decline, EndInModeration
    <2>. QED BY <1>2, <2>1 DEF Moves
  <1>3. ASSUME t \in Messages, StartModeration(t) \/ StartEngine(t) PROVE Moves
    <2>1. Advances(t, "moderating") \/ Advances(t, "running")
      BY <1>3 DEF Advances, StartModeration, StartEngine
    <2>. QED BY <2>1 DEF Moves, Phases
  <1>4. ASSUME t \in Injects, RunInject(t) \/ StartDelivery(t) PROVE Moves
    <2>1. Advances(t, "running") \/ Advances(t, "delivering")
      BY <1>4 DEF Advances, RunInject, StartDelivery
    <2>. QED BY <2>1 DEF Moves, Phases
  <1>5. ASSUME t \in Injects, EndDelivery(t) PROVE Moves
    <2>1. InjectEnds(t)
      BY <1>5 DEF InjectEnds, EndDelivery, Drop
    <2>. QED BY <1>5, <2>1 DEF Moves
  <1>6. ASSUME EngineReturns(t) \/ EngineThrows(t) PROVE Moves
    <2>1. pc[t] = "running" /\ Exit(t)
      BY <1>6 DEF EngineReturns, EngineThrows
    <2>2. CASE t \in Messages /\ Leave(t)
      BY <2>1, <2>2 DEF Moves, Leaves
    <2>3. CASE t \in Injects /\ pc' = [pc EXCEPT ![t] = "done"] /\ Unlock(t) /\ Drop(t)
               /\ UNCHANGED <<active, waiters>>
      <3>1. InjectEnds(t)
        BY <2>1, <2>3 DEF InjectEnds, Drop
      <3>. QED BY <2>3, <3>1 DEF Moves
    <2>4. CASE t \in Jobs /\ pc' = [pc EXCEPT ![t] = "done"] /\ Drop(t)
               /\ UNCHANGED <<chain, active, waiters>>
      <3>1. JobMoves(t)
        BY <2>4 DEF JobMoves, Drop
      <3>. QED BY <2>4, <3>1 DEF Moves
    <2>. QED BY <2>1, <2>2, <2>3, <2>4 DEF Exit
  <1>7. ASSUME RetryFresh(t) PROVE Moves
    BY <1>7 DEF Moves, RetryFresh
  <1>. QED BY <1>1, <1>2, <1>3, <1>4, <1>5, <1>6, <1>7 DEF Step

\* What a request does is one of those classes too.
LEMMA RequestMoves ==
  ASSUME NEW k \in Keys, Request(k)
  PROVE  Moves
  <1> USE DEF Turns, Control
  <1>1. ASSUME NEW m \in Messages, Accept(m, k) PROVE Moves
    <2>1. Enqueues(m, k)
      BY <1>1 DEF Enqueues, Accept
    <2>. QED BY <2>1 DEF Moves
  <1>2. ASSUME NEW i \in Injects, NEW b \in BOOLEAN, Inject(i, k, b) PROVE Moves
    <2>1. Enqueues(i, k)
      BY <1>2 DEF Enqueues, Inject
    <2>. QED BY <2>1 DEF Moves
  <1>3. ASSUME NEW j \in Jobs, FireJob(j, k) PROVE Moves
    <2>1. JobMoves(j)
      BY <1>3 DEF JobMoves, FireJob
    <2>. QED BY <2>1 DEF Moves
  <1>4. ASSUME Stop(k) \/ Forget(k) \/ Claim(k) \/ Release(k) PROVE Moves
    BY <1>4 DEF Moves, Stop, Forget, Claim, Release
  <1>. QED BY <1>1, <1>2, <1>3, <1>4 DEF Request

\* So the arguments about the lock and the slots need the classes only.
LEMMA NextMoves == [Next]_vars => Moves
  <1>1. UNCHANGED vars => Moves
    BY DEF vars, Moves, Control
  <1>. QED BY <1>1, StepMoves, RequestMoves DEF Next

---------------------------------------------------------------------------
\* A transfer of slot and lock leaves every other turn where it was, except the
\* first waiter, which is admitted.
LEMMA LeavePc ==
  ASSUME IInv, NEW m \in Messages, Leaves(m)
  PROVE  /\ pc' \in [Turns -> Phases]
         /\ pc'[m] = "done"
         /\ \A t \in Turns \ {m} :
              \/ pc'[t] = pc[t] /\ (waiters # <<>> => t # Head(waiters))
              \/ waiters # <<>> /\ t = Head(waiters) /\ pc[t] = "slot" /\ pc'[t] = "admitted"
  <1> USE DEF Turns
  <1>1. CASE waiters = <<>>
    BY <1>1 DEF IInv, TypeOK, Leaves, Leave, EndTurn, Phases
  <1>2. CASE waiters # <<>>
    <2>1. Head(waiters) \in Messages /\ pc[Head(waiters)] = "slot"
      BY <1>2 DEF IInv, TypeOK, WaitInv
    <2>. QED BY <1>2, <2>1 DEF IInv, TypeOK, Leaves, Leave, EndTurn, Phases
  <1>. QED BY <1>1, <1>2

---------------------------------------------------------------------------
(* Each part of the invariant under each class of steps.                    *)

\* A turn is only ever in a phase its kind has, whichever class of moves is taken.
LEMMA PhasesPreserved == IInv /\ Moves => PhaseInv' /\ pc' \in [Turns -> Phases]
  <1> SUFFICES ASSUME IInv, Moves PROVE PhaseInv' /\ pc' \in [Turns -> Phases]
    OBVIOUS
  <1> USE TurnKinds DEF Turns, IInv, TypeOK, PhaseInv
  <1>1. ASSUME NEW t \in Turns, NEW k \in Keys, Enqueues(t, k) PROVE PhaseInv' /\ pc' \in [Turns -> Phases]
    BY <1>1 DEF Enqueues, Phases
  <1>2. ASSUME NEW m \in Messages, AcquireSlot(m) PROVE PhaseInv' /\ pc' \in [Turns -> Phases]
    <2>1. /\ pc[m] = "queued" /\ key' = key
          /\ pc' = [pc EXCEPT ![m] = "admitted"] \/ pc' = [pc EXCEPT ![m] = "slot"]
      BY <1>2 DEF AcquireSlot
    <2>2. CASE pc' = [pc EXCEPT ![m] = "admitted"]
      BY <2>1, <2>2 DEF Phases
    <2>3. CASE pc' = [pc EXCEPT ![m] = "slot"]
      BY <2>1, <2>3 DEF Phases
    <2>. QED BY <2>1, <2>2, <2>3
  <1>3. ASSUME NEW m \in Messages, Leaves(m) PROVE PhaseInv' /\ pc' \in [Turns -> Phases]
    <2>1. \A t \in Turns \ {m} : key'[t] = key[t]
      BY <1>3 DEF Leaves, Leave, Drop
    <2>. QED BY <1>3, <2>1, LeavePc
  <1>4. ASSUME NEW i \in Injects, InjectEnds(i) PROVE PhaseInv' /\ pc' \in [Turns -> Phases]
    BY <1>4 DEF InjectEnds, Phases
  <1>5. ASSUME NEW j \in Jobs, JobMoves(j) PROVE PhaseInv' /\ pc' \in [Turns -> Phases]
    BY <1>5 DEF JobMoves, Phases
  <1>6. ASSUME NEW t \in Turns, NEW p \in Phases, Advances(t, p) PROVE PhaseInv' /\ pc' \in [Turns -> Phases]
    BY <1>6 DEF Advances, Phases
  <1>7. ASSUME UNCHANGED Control PROVE PhaseInv' /\ pc' \in [Turns -> Phases]
    BY <1>7 DEF Control
  <1>. QED BY <1>1, <1>2, <1>3, <1>4, <1>5, <1>6, <1>7 DEF Moves

\* withKeyLock: whoever is past the lock is the head of its conversation's chain, kept by
\* every class of moves.
LEMMA LockPreserved == IInv /\ Moves => LockInv'
  <1> SUFFICES ASSUME IInv, Moves, NEW u \in PastLock' PROVE HoldsLock(u)'
    BY DEF LockInv
  <1> USE TurnKinds DEF Turns, IInv, TypeOK, PhaseInv, LockInv, PastLock, HoldsLock
  <1>1. ASSUME NEW t \in Turns, NEW k \in Keys, Enqueues(t, k) PROVE HoldsLock(u)'
    <2>1. u # t /\ u \in PastLock
      BY <1>1 DEF Enqueues
    <2>2. key'[u] = key[u] /\ key[u] \in Keys /\ chain[key[u]] # <<>> /\ Head(chain[key[u]]) = u
      BY <1>1, <2>1 DEF Enqueues
    <2>3. chain'[key[u]] = chain[key[u]] \/ chain'[key[u]] = Append(chain[key[u]], t)
      BY <1>1, <2>2 DEF Enqueues
    <2>4. Append(chain[key[u]], t) # <<>> /\ Head(Append(chain[key[u]], t)) = u
      <3>1. t \in Messages \cup Injects /\ chain[key[u]] \in Seq(Messages \cup Injects)
        BY <1>1, <2>2 DEF Enqueues
      <3>. HIDE DEF TypeOK, PhaseInv, LockInv, PastLock, IInv
      <3>. QED BY <2>2, <3>1
    <2>. QED BY <2>2, <2>3, <2>4
  <1>2. ASSUME NEW m \in Messages, AcquireSlot(m) PROVE HoldsLock(u)'
    BY <1>2 DEF AcquireSlot
  <1>3. ASSUME NEW m \in Messages, Leaves(m) PROVE HoldsLock(u)'
    <2>1. u # m /\ u \in PastLock /\ m \in PastLock
      BY <1>3, LeavePc DEF Leaves
    <2>2. key[u] # key[m]
      BY <2>1
    <2>. QED BY <1>3, <2>1, <2>2 DEF Leaves, Leave, Unlock, Drop
  <1>4. ASSUME NEW i \in Injects, InjectEnds(i) PROVE HoldsLock(u)'
    <2>1. u # i /\ u \in PastLock /\ i \in PastLock
      BY <1>4 DEF InjectEnds
    <2>2. key[u] # key[i]
      BY <2>1
    <2>. QED BY <1>4, <2>1, <2>2 DEF InjectEnds, Unlock
  <1>5. ASSUME NEW j \in Jobs, JobMoves(j) PROVE HoldsLock(u)'
    <2>1. u # j
      OBVIOUS
    <2>2. u \in PastLock /\ key'[u] = key[u] /\ chain' = chain
      BY <1>5, <2>1 DEF JobMoves
    <2>. QED BY <2>2
  <1>6. ASSUME NEW t \in Turns, NEW p \in Phases, Advances(t, p) PROVE HoldsLock(u)'
    BY <1>6 DEF Advances
  <1>7. ASSUME UNCHANGED Control PROVE HoldsLock(u)'
    BY <1>7 DEF Control
  <1>. QED BY <1>1, <1>2, <1>3, <1>4, <1>5, <1>6, <1>7 DEF Moves

\* The slot queue holds exactly the turns that wait for a slot, each once.
LEMMA WaitPreserved == IInv /\ Moves => WaitInv' /\ waiters' \in Seq(Messages)
  <1> SUFFICES ASSUME IInv, Moves PROVE WaitInv' /\ waiters' \in Seq(Messages)
    OBVIOUS
  <1> USE TurnKinds DEF Turns, IInv, TypeOK, PhaseInv, WaitInv
  <1>1. ASSUME NEW t \in Turns, NEW k \in Keys, Enqueues(t, k) PROVE WaitInv' /\ waiters' \in Seq(Messages)
    BY <1>1 DEF Enqueues
  <1>2. ASSUME NEW m \in Messages, AcquireSlot(m) PROVE WaitInv' /\ waiters' \in Seq(Messages)
    <2>1. CASE SlotFree
      BY <1>2, <2>1 DEF AcquireSlot
    <2>2. CASE ~SlotFree
      <3>1. waiters' = Append(waiters, m) /\ pc[m] = "queued" /\ pc' = [pc EXCEPT ![m] = "slot"]
        BY <1>2, <2>2 DEF AcquireSlot
      <3>2. /\ waiters' \in Seq(Messages)
            /\ Len(waiters') = Len(waiters) + 1
            /\ waiters'[Len(waiters) + 1] = m
            /\ \A n \in 1..Len(waiters) : waiters'[n] = waiters[n] /\ waiters[n] # m
        BY <3>1
      <3>3. \A n \in 1..Len(waiters') : n \in 1..Len(waiters) \/ n = Len(waiters) + 1
        BY <3>2
      <3>. QED BY <3>1, <3>2, <3>3
    <2>. QED BY <2>1, <2>2
  <1>3. ASSUME NEW m \in Messages, Leaves(m) PROVE WaitInv' /\ waiters' \in Seq(Messages)
    <2>1. CASE waiters = <<>>
      BY <1>3, <2>1 DEF Leaves, Leave, EndTurn
    <2>2. CASE waiters # <<>>
      <3>1. waiters' = Tail(waiters)
        BY <1>3, <2>2 DEF Leaves, Leave, EndTurn
      <3>2. /\ waiters' \in Seq(Messages)
            /\ Len(waiters') = Len(waiters) - 1
            /\ \A n \in 1..Len(waiters') : n + 1 \in 1..Len(waiters) /\ waiters'[n] = waiters[n + 1]
        BY <2>2, <3>1
      <3>a. 1 \in 1..Len(waiters) /\ Head(waiters) = waiters[1]
        BY <2>2
      <3>3. ASSUME NEW n \in 1..Len(waiters')
            PROVE  waiters'[n] # Head(waiters) /\ pc[waiters'[n]] = "slot"
        <4>1. n + 1 \in 1..Len(waiters) /\ waiters'[n] = waiters[n + 1] /\ n + 1 # 1
          BY <3>2
        <4>. QED BY <3>a, <4>1
      <3>4. \A n \in 1..Len(waiters') : pc'[waiters'[n]] = "slot"
        BY <1>3, <3>2, <3>3, LeavePc DEF Leaves
      <3>. QED BY <3>2, <3>4
    <2>. QED BY <2>1, <2>2
  <1>4. ASSUME NEW i \in Injects, InjectEnds(i) PROVE WaitInv' /\ waiters' \in Seq(Messages)
    BY <1>4 DEF InjectEnds
  <1>5. ASSUME NEW j \in Jobs, JobMoves(j) PROVE WaitInv' /\ waiters' \in Seq(Messages)
    BY <1>5 DEF JobMoves
  <1>6. ASSUME NEW t \in Turns, NEW p \in Phases, Advances(t, p) PROVE WaitInv' /\ waiters' \in Seq(Messages)
    BY <1>6 DEF Advances
  <1>7. ASSUME UNCHANGED Control PROVE WaitInv' /\ waiters' \in Seq(Messages)
    BY <1>7 DEF Control
  <1>. QED BY <1>1, <1>2, <1>3, <1>4, <1>5, <1>6, <1>7 DEF Moves

\* acquireSlot/releaseSlot keep the counter equal to the number of holders.
LEMMA SlotsPreserved == IInv /\ Moves => SlotAccounting' /\ active' \in Nat
  <1> SUFFICES ASSUME IInv, Moves PROVE SlotAccounting' /\ active' \in Nat
    OBVIOUS
  <1> USE DEF Turns
  <1>a. /\ IsFiniteSet(SlotHolders) /\ Cardinality(SlotHolders) \in Nat
        /\ active = Cardinality(SlotHolders) /\ active <= MaxConcurrent
        /\ waiters # <<>> => active = MaxConcurrent
        /\ MaxConcurrent \in Nat
    BY Bounds, FS_Subset, FS_CardinalityType DEF IInv, SlotAccounting, SlotHolders
  <1>b. ASSUME SlotHolders' = SlotHolders, active' = active, waiters' = waiters
        PROVE  SlotAccounting' /\ active' \in Nat
    BY <1>a, <1>b DEF SlotAccounting
  <1>1. ASSUME NEW t \in Turns, NEW k \in Keys, Enqueues(t, k) PROVE SlotAccounting' /\ active' \in Nat
    <2>1. SlotHolders' = SlotHolders
      BY <1>1 DEF Enqueues, SlotHolders, IInv, TypeOK
    <2>. QED BY <1>1, <1>b, <2>1 DEF Enqueues
  <1>2. ASSUME NEW m \in Messages, AcquireSlot(m) PROVE SlotAccounting' /\ active' \in Nat
    <2>1. CASE SlotFree
      <3>1. active' = active + 1 /\ waiters' = waiters /\ pc' = [pc EXCEPT ![m] = "admitted"]
        BY <1>2, <2>1 DEF AcquireSlot
      <3>2. m \notin SlotHolders /\ SlotHolders' = SlotHolders \cup {m}
        BY <1>2, <3>1 DEF AcquireSlot, SlotHolders, IInv, TypeOK
      <3>3. Cardinality(SlotHolders') = active + 1
        BY <1>a, <3>2, FS_AddElement
      <3>. QED BY <1>a, <2>1, <3>1, <3>3 DEF SlotFree, SlotAccounting
    <2>2. CASE ~SlotFree
      <3>1. active' = active /\ pc' = [pc EXCEPT ![m] = "slot"]
        BY <1>2, <2>2 DEF AcquireSlot
      <3>2. SlotHolders' = SlotHolders
        BY <1>2, <3>1 DEF AcquireSlot, SlotHolders, IInv, TypeOK
      <3>. QED BY <1>a, <2>2, <3>1, <3>2 DEF SlotFree, SlotAccounting
    <2>. QED BY <2>1, <2>2
  <1>3. ASSUME NEW m \in Messages, Leaves(m) PROVE SlotAccounting' /\ active' \in Nat
    <2>1. m \in SlotHolders
      BY <1>3 DEF Leaves, SlotHolders
    <2>2. /\ IsFiniteSet(SlotHolders \ {m})
          /\ Cardinality(SlotHolders \ {m}) = active - 1 /\ active # 0
      BY <1>a, <2>1, FS_RemoveElement, FS_EmptySet
    <2>3. CASE waiters = <<>>
      <3>1. active' = active - 1 /\ waiters' = waiters
        BY <1>3, <2>3 DEF Leaves, Leave, EndTurn
      <3>2. SlotHolders' = SlotHolders \ {m}
        BY <1>3, <2>3, LeavePc DEF SlotHolders
      <3>. QED BY <1>a, <2>2, <2>3, <3>1, <3>2 DEF SlotAccounting
    <2>4. CASE waiters # <<>>
      <3>1. active' = active
        BY <1>3, <2>4 DEF Leaves, Leave, EndTurn
      <3>2. Head(waiters) \in Messages /\ pc[Head(waiters)] = "slot"
        BY <2>4 DEF IInv, TypeOK, WaitInv
      <3>3. Head(waiters) \notin SlotHolders \ {m}
        BY <3>2 DEF SlotHolders
      <3>4. SlotHolders' = (SlotHolders \ {m}) \cup {Head(waiters)}
        BY <1>3, <2>4, <3>2, LeavePc DEF SlotHolders, Leaves
      <3>5. Cardinality(SlotHolders') = (active - 1) + 1
        BY <2>2, <3>3, <3>4, FS_AddElement
      <3>. QED BY <1>a, <2>4, <3>1, <3>5 DEF SlotAccounting
    <2>. QED BY <2>3, <2>4
  <1>4. ASSUME NEW i \in Injects, InjectEnds(i) PROVE SlotAccounting' /\ active' \in Nat
    <2>1. SlotHolders' = SlotHolders
      BY <1>4, TurnKinds DEF InjectEnds, SlotHolders, IInv, TypeOK
    <2>. QED BY <1>4, <1>b, <2>1 DEF InjectEnds
  <1>5. ASSUME NEW j \in Jobs, JobMoves(j) PROVE SlotAccounting' /\ active' \in Nat
    <2>1. SlotHolders' = SlotHolders
      BY <1>5, TurnKinds DEF JobMoves, SlotHolders, IInv, TypeOK
    <2>. QED BY <1>5, <1>b, <2>1 DEF JobMoves
  <1>6. ASSUME NEW t \in Turns, NEW p \in Phases, Advances(t, p) PROVE SlotAccounting' /\ active' \in Nat
    <2>1. SlotHolders' = SlotHolders
      BY <1>6, TurnKinds DEF Advances, SlotHolders, IInv, TypeOK
    <2>. QED BY <1>6, <1>b, <2>1 DEF Advances
  <1>7. ASSUME UNCHANGED Control PROVE SlotAccounting' /\ active' \in Nat
    BY <1>7, <1>b DEF Control, SlotHolders
  <1>. QED BY <1>1, <1>2, <1>3, <1>4, <1>5, <1>6, <1>7 DEF Moves

\* The chains stay sequences of messages and injects.
LEMMA ChainTyped ==
  IInv /\ Moves => /\ key' \in [Turns -> Keys \cup {None}]
                   /\ chain' \in [Keys -> Seq(Messages \cup Injects)]
  <1> SUFFICES ASSUME IInv, Moves
               PROVE  /\ key' \in [Turns -> Keys \cup {None}]
                      /\ chain' \in [Keys -> Seq(Messages \cup Injects)]
    OBVIOUS
  <1> DEFINE Typed == /\ key' \in [Turns -> Keys \cup {None}]
                      /\ chain' \in [Keys -> Seq(Messages \cup Injects)]
  <1> USE DEF Turns, IInv, TypeOK
  <1>a. ASSUME NEW t \in Messages \cup Injects, t \in PastLock, Unlock(t)
        PROVE  chain' \in [Keys -> Seq(Messages \cup Injects)]
    <2>1. key[t] \in Keys /\ chain[key[t]] # <<>>
      BY <1>a DEF LockInv, HoldsLock, PhaseInv, PastLock
    <2>2. Tail(chain[key[t]]) \in Seq(Messages \cup Injects)
      BY <2>1
    <2>. QED BY <1>a, <2>1, <2>2 DEF Unlock
  <1>1. ASSUME NEW t \in Turns, NEW k \in Keys, Enqueues(t, k) PROVE Typed
    <2>1. Append(chain[k], t) \in Seq(Messages \cup Injects)
      BY <1>1 DEF Enqueues
    <2>. QED BY <1>1, <2>1 DEF Enqueues
  <1>2. ASSUME NEW m \in Messages, AcquireSlot(m) PROVE Typed
    BY <1>2 DEF AcquireSlot
  <1>3. ASSUME NEW m \in Messages, Leaves(m) PROVE Typed
    <2>1. m \in PastLock
      BY <1>3 DEF Leaves, PastLock
    <2>. QED BY <1>3, <2>1, <1>a DEF Leaves, Leave, Drop
  <1>4. ASSUME NEW i \in Injects, InjectEnds(i) PROVE Typed
    <2>1. i \in PastLock
      BY <1>4 DEF InjectEnds, PastLock
    <2>. QED BY <1>4, <2>1, <1>a DEF InjectEnds
  <1>5. ASSUME NEW j \in Jobs, JobMoves(j) PROVE Typed
    BY <1>5 DEF JobMoves
  <1>6. ASSUME NEW t \in Turns, NEW p \in Phases, Advances(t, p) PROVE Typed
    BY <1>6 DEF Advances
  <1>7. ASSUME UNCHANGED Control PROVE Typed
    BY <1>7 DEF Control
  <1>. QED BY <1>1, <1>2, <1>3, <1>4, <1>5, <1>6, <1>7 DEF Moves

---------------------------------------------------------------------------
(* The registry, the session rows and the histories, action by action.      *)

Rest == /\ inFlight \in [Keys -> SUBSET Turns]
        /\ aborted \in SUBSET Turns
        /\ row \in [Keys -> Row]
        /\ resume \in [Turns -> Turns \cup {None}]
        /\ posted \in SUBSET Turns
        /\ late \in [Keys -> SUBSET Messages]
        /\ forgotten \in [Keys -> SUBSET Turns]

\* Changing one conversation's row keeps the sessions table typed.
LEMMA RowUpdate ==
  ASSUME NEW R \in [Keys -> Row], NEW k \in Keys
  PROVE  /\ [R EXCEPT ![k].here = TRUE] \in [Keys -> Row]
         /\ \A e \in Turns \cup {None} : [R EXCEPT ![k].engine = e] \in [Keys -> Row]
         /\ \A b \in BOOLEAN : [R EXCEPT ![k].claimed = b] \in [Keys -> Row]
  BY DEF Row

\* sessions.resolveForTurn keeps the table and the resumed session typed.
LEMMA ResolveTyped ==
  ASSUME IInv, NEW t \in Turns, NEW k \in Keys, Resolve(t, k)
  PROVE  row' \in [Keys -> Row] /\ resume' \in [Turns -> Turns \cup {None}]
  <1>1. row \in [Keys -> Row] /\ resume \in [Turns -> Turns \cup {None}]
    BY DEF IInv, TypeOK
  <1>2. row[k].engine \in Turns \cup {None}
    BY <1>1 DEF Row
  <1>. QED BY <1>1, <1>2, RowUpdate DEF Resolve

\* sessions.recordEngineId keeps the table typed.
LEMMA RecordTyped ==
  ASSUME IInv, NEW t \in Turns, key[t] \in Keys, NEW id \in Reported(t), RecordEngine(t, id)
  PROVE  row' \in [Keys -> Row]
  <1>1. row \in [Keys -> Row] /\ resume \in [Turns -> Turns \cup {None}]
    BY DEF IInv, TypeOK
  <1>2. id \in Turns \cup {None} /\ row[key[t]].engine \in Turns \cup {None}
    BY <1>1 DEF Row, Reported
  <1>3. PICK e \in Turns \cup {None} : row' = [row EXCEPT ![key[t]].engine = e]
    BY <1>2 DEF RecordEngine
  <1>. QED BY <1>1, <1>3, RowUpdate

\* The variables the lock and the slots do not depend on keep their types in a turn's step.
LEMMA StepRest ==
  ASSUME IInv, NEW t \in Turns, Step(t)
  PROVE  Rest'
  <1> USE DEF Turns, Rest
  <1>0. Rest /\ (pc[t] \notin {"idle", "done"} => key[t] \in Keys)
    BY DEF IInv, TypeOK, PhaseInv
  <1>1. ASSUME t \in Messages, AcquireSlot(t) PROVE Rest'
    BY <1>0, <1>1 DEF AcquireSlot
  <1>2. ASSUME t \in Messages, DropStopped(t) \/ Decline(t) \/ EndInModeration(t) PROVE Rest'
    BY <1>0, <1>2 DEF DropStopped, Decline, EndInModeration, Leave, Untrack, Drop
  <1>3. ASSUME t \in Messages, StartModeration(t) PROVE Rest'
    BY <1>0, <1>3 DEF StartModeration
  <1>4. ASSUME t \in Messages, StartEngine(t) PROVE Rest'
    <2>1. late' \in [Keys -> SUBSET Messages]
      BY <1>0, <1>4 DEF StartEngine
    <2>. QED BY <1>0, <1>4, <2>1, ResolveTyped DEF StartEngine
  <1>5. ASSUME t \in Injects, RunInject(t) PROVE Rest'
    BY <1>0, <1>5, ResolveTyped DEF RunInject, Track
  <1>6. ASSUME t \in Injects, StartDelivery(t) PROVE Rest'
    BY <1>0, <1>6, RecordTyped DEF StartDelivery, Untrack
  <1>7. ASSUME t \in Injects, EndDelivery(t) PROVE Rest'
    BY <1>0, <1>7 DEF EndDelivery, Drop
  <1>8. ASSUME EngineReturns(t) \/ EngineThrows(t) PROVE Rest'
    <2>1. pc[t] = "running" /\ key[t] \in Keys
      BY <1>0, <1>8 DEF EngineReturns, EngineThrows
    <2>2. row' \in [Keys -> Row] /\ posted' \in SUBSET Turns
      BY <1>0, <1>8, <2>1, RecordTyped DEF EngineReturns, EngineThrows
    <2>3. Drop(t) /\ Untrack(t)
      BY <1>8 DEF EngineReturns, EngineThrows, Exit, Leave
    <2>4. late' = late /\ forgotten' = forgotten
      BY <1>8 DEF EngineReturns, EngineThrows
    <2>. QED BY <1>0, <2>1, <2>2, <2>3, <2>4 DEF Drop, Untrack
  <1>9. ASSUME RetryFresh(t) PROVE Rest'
    <2>1. row' \in [Keys -> Row]
      BY <1>0, <1>9, RowUpdate DEF RetryFresh
    <2>. QED BY <1>0, <1>9, <2>1 DEF RetryFresh
  <1>. QED BY <1>1, <1>2, <1>3, <1>4, <1>5, <1>6, <1>7, <1>8, <1>9 DEF Step

\* They keep their types in a request.
LEMMA RequestRest ==
  ASSUME IInv, NEW k \in Keys, Request(k)
  PROVE  Rest'
  <1> USE DEF Turns, Rest
  <1>0. Rest
    BY DEF IInv, TypeOK
  <1>1. ASSUME NEW m \in Messages, Accept(m, k) PROVE Rest'
    BY <1>0, <1>1 DEF Accept, Track
  <1>2. ASSUME NEW i \in Injects, NEW b \in BOOLEAN, Inject(i, k, b) PROVE Rest'
    BY <1>0, <1>2 DEF Inject, AbortKey
  <1>3. ASSUME NEW j \in Jobs, FireJob(j, k) PROVE Rest'
    <2>1. row' \in [Keys -> Row] /\ resume' \in [Turns -> Turns \cup {None}]
      BY <1>0, <1>3, ResolveTyped DEF FireJob
    <2>. QED BY <1>0, <1>3, <2>1 DEF FireJob, Track
  <1>4. ASSUME Stop(k) PROVE Rest'
    BY <1>0, <1>4 DEF Stop, AbortKey
  <1>5. ASSUME Forget(k) PROVE Rest'
    <2>1. row' \in [Keys -> Row]
      BY <1>0, <1>5 DEF Forget, Row, NoRow
    <2>2. row[k].engine \in Turns \cup {None} /\ \A t \in Turns : EngineOf(t) \in Turns
      BY <1>0 DEF Row, EngineOf
    <2>3. forgotten' \in [Keys -> SUBSET Turns]
      BY <1>0, <1>5, <2>2 DEF Forget
    <2>. QED BY <1>0, <1>5, <2>1, <2>3 DEF Forget, AbortKey
  <1>6. ASSUME Claim(k) PROVE Rest'
    BY <1>0, <1>6, RowUpdate DEF Claim
  <1>7. ASSUME Release(k) PROVE Rest'
    BY <1>0, <1>7, RowUpdate DEF Release
  <1>. QED BY <1>1, <1>2, <1>3, <1>4, <1>5, <1>6, <1>7 DEF Request

\* The inductive invariant holds when the core starts.
LEMMA Initially == Init => IInv
  <1> SUFFICES ASSUME Init PROVE IInv
    OBVIOUS
  <1> USE DEF Init, Turns
  <1>1. TypeOK
    BY DEF TypeOK, Phases, Row, NoRow
  <1>2. SlotHolders = {}
    BY DEF SlotHolders
  <1>3. SlotAccounting
    BY <1>2, FS_EmptySet, Bounds DEF SlotAccounting
  <1>. QED BY <1>1, <1>3 DEF IInv, PhaseInv, LockInv, PastLock, WaitInv

\* Every step of the core preserves the inductive invariant.
LEMMA Inductive == IInv /\ [Next]_vars => IInv'
  <1> SUFFICES ASSUME IInv, [Next]_vars PROVE IInv'
    OBVIOUS
  <1>1. Moves
    BY NextMoves
  <1>2. Rest'
    <2>1. UNCHANGED vars => Rest'
      BY DEF IInv, TypeOK, Rest, vars
    <2>. QED BY <2>1, StepRest, RequestRest DEF Next
  <1>3. TypeOK'
    BY <1>1, <1>2, PhasesPreserved, ChainTyped, WaitPreserved, SlotsPreserved DEF TypeOK, Rest
  <1>. QED BY <1>1, <1>3, PhasesPreserved, LockPreserved, WaitPreserved, SlotsPreserved DEF IInv

\* The inductive invariant holds throughout.
LEMMA Invariance == Spec => []IInv
  BY Initially, Inductive, PTL DEF Spec

\* Every variable keeps its type: in particular the slot counter stays a natural
\* number, and no release ever pops an empty chain.
THEOREM TypeCorrect == Spec => []TypeOK
  <1>1. IInv => TypeOK
    BY DEF IInv
  <1>. QED BY <1>1, Invariance, PTL

\* acquireSlot/releaseSlot for any cap: the counter counts exactly the holders, and
\* no slot is free while a message waits for one.
THEOREM SlotsAccounted == Spec => []SlotAccounting
  <1>1. IInv => SlotAccounting
    BY DEF IInv
  <1>. QED BY <1>1, Invariance, PTL

\* withKeyLock: two messages or injects of a conversation are never past its lock together.
THEOREM TurnsLockedApart == Spec => []LockedApart
  <1>1. IInv => LockedApart
    BY DEF IInv, LockInv, LockedApart, HoldsLock
  <1>. QED BY <1>1, Invariance, PTL

---------------------------------------------------------------------------
(* What a stop, a forget and a claim find and leave.                        *)

(* The inductive invariant, beside IInv.                                    *)

Tracked == {"queued", "slot", "admitted", "moderating", "running"}

\* The registry: a tracked turn is one of its conversation that goes on (an inject is
\* tracked only while it runs), or a prompt job that a claim ended.
RegistryInv ==
  \A k \in Keys : \A t \in inFlight[k] :
    \/ t \in Jobs /\ k \in ScheduledKeys /\ pc[t] = "done"
    \/ key[t] = k /\ pc[t] \in Tracked /\ (t \in Injects => pc[t] = "running")

\* Only turns that have started are stopped, an inject only once it runs.
AbortedInv ==
  \A t \in aborted : pc[t] # "idle" /\ (t \in Injects => pc[t] \in {"running", "delivering"})

\* Under a claim, no message is in moderation once one has got through.
LateInv ==
  \A k \in Keys : row[k].claimed /\ late[k] # {} =>
    \A m \in Messages : ~(pc[m] = "moderating" /\ key[m] = k)

\* Engine sessions are named after turns that have run.
Ran == {t \in Turns : pc[t] \in {"running", "delivering", "done"}}

RanInv ==
  /\ \A k \in Keys : row[k].engine \in Ran \cup {None} /\ forgotten[k] \subseteq Ran
  /\ \A t \in Turns : resume[t] \in Ran \cup {None}
  /\ \A j \in Jobs : pc[j] = "running" => key[j] \in ScheduledKeys

\* A row that is gone names no engine session; while a row is there, the run of its
\* conversation reports none of the forgotten ones.
ForgottenInv ==
  \A k \in Keys \ ScheduledKeys :
    /\ ~row[k].here => row[k].engine = None
    /\ row[k].here => \A t \in Turns : pc[t] = "running" /\ key[t] = k =>
         t \notin forgotten[k] /\ resume[t] \notin forgotten[k]

SInv == /\ Stoppable /\ RegistryInv /\ AbortedInv
        /\ AtMostOneLate /\ LateInv
        /\ RanInv /\ ForgottenInv /\ ForgetIsFinal

---------------------------------------------------------------------------
(* The actions, seen from the registry and the session row: the ways a turn  *)
(* ends are one class, the others are the actions themselves.               *)

Over(t) ==
  /\ pc[t] \in {"admitted", "moderating", "running"}
  /\ pc'[t] = "done"
  /\ \A u \in Turns \ {t} : pc'[u] = pc[u] \/ (pc[u] = "slot" /\ pc'[u] = "admitted")
  /\ Untrack(t)
  /\ Drop(t)
  /\ \/ row' = row
     \/ pc[t] = "running" /\ \E id \in Reported(t) : RecordEngine(t, id)
  /\ UNCHANGED <<late, forgotten>>

Moving(t) ==
  \/ Over(t)
  \/ t \in Messages /\ (AcquireSlot(t) \/ StartModeration(t) \/ StartEngine(t))
  \/ t \in Injects /\ (RunInject(t) \/ StartDelivery(t) \/ EndDelivery(t))
  \/ RetryFresh(t)

\* Whatever ends a turn does to the registry and the row what Over says.
LEMMA StepMoving ==
  ASSUME IInv, NEW t \in Turns, Step(t)
  PROVE  Moving(t)
  <1> USE TurnKinds DEF Turns
  <1>0. pc \in [Turns -> Phases]
    BY DEF IInv, TypeOK
  <1>1. ASSUME t \in Messages, Leaves(t), row' = row \/ (pc[t] = "running" /\ \E id \in Reported(t) : RecordEngine(t, id)),
               UNCHANGED <<late, forgotten>>
        PROVE  Over(t)
    <2>1. \A u \in Turns \ {t} : pc'[u] = pc[u] \/ (pc[u] = "slot" /\ pc'[u] = "admitted")
      BY <1>1, LeavePc
    <2>2. pc'[t] = "done"
      BY <1>1, LeavePc
    <2>. QED BY <1>1, <2>1, <2>2 DEF Over, Leaves, Leave
  <1>2. ASSUME t \in Messages, DropStopped(t) \/ Decline(t) \/ EndInModeration(t) PROVE Over(t)
    <2>1. Leaves(t) /\ row' = row /\ UNCHANGED <<late, forgotten>>
      BY <1>2 DEF Leaves, DropStopped, Decline, EndInModeration
    <2>. QED BY <1>1, <1>2, <2>1
  <1>3. ASSUME EngineReturns(t) \/ EngineThrows(t) PROVE Over(t)
    <2>1. /\ pc[t] = "running" /\ Exit(t)
          /\ row' = row \/ \E id \in Reported(t) : RecordEngine(t, id)
          /\ UNCHANGED <<late, forgotten>>
      BY <1>3 DEF EngineReturns, EngineThrows
    <2>2. CASE t \in Messages
      <3>1. Leaves(t)
        BY <2>1, <2>2 DEF Exit, Leaves
      <3>. QED BY <1>1, <2>1, <2>2, <3>1
    <2>3. CASE t \in Injects \cup Jobs
      <3>1. pc' = [pc EXCEPT ![t] = "done"] /\ Untrack(t) /\ Drop(t)
        BY <2>1, <2>3 DEF Exit
      <3>. QED BY <1>0, <2>1, <3>1 DEF Over
    <2>. QED BY <2>2, <2>3
  <1>. QED BY <1>2, <1>3 DEF Step, Moving

---------------------------------------------------------------------------
(* Each part of the invariant under each action.                            *)

\* trackTurn/untrackTurn, whatever turn moves: the registry names the turns that go on, and
\* nothing else but the prompt jobs a claim ended.
LEMMA RegistryStep ==
  ASSUME IInv, SInv, NEW t \in Turns, Moving(t)
  PROVE  Stoppable' /\ RegistryInv' /\ AbortedInv'
  <1> DEFINE Goal == Stoppable' /\ RegistryInv' /\ AbortedInv'
  <1> USE TurnKinds DEF Turns, Stoppable, RegistryInv, AbortedInv, Tracked
  <1>0. /\ Stoppable /\ RegistryInv /\ AbortedInv
        /\ pc \in [Turns -> Phases] /\ key \in [Turns -> Keys \cup {None}]
        /\ inFlight \in [Keys -> SUBSET Turns] /\ aborted \in SUBSET Turns
        /\ \A u \in Turns : pc[u] \notin {"idle", "done"} => key[u] \in Keys
        /\ \A m \in Messages : pc[m] # "delivering"
        /\ \A i \in Injects : pc[i] \in {"idle", "queued", "running", "delivering", "done"}
        /\ \A j \in Jobs : pc[j] \in {"idle", "running", "done"}
        /\ None \notin Keys
    BY DEF IInv, SInv, TypeOK, PhaseInv
  <1>1. CASE Over(t)
    BY <1>0, <1>1 DEF Over, Untrack, Drop
  <1>2. CASE t \in Messages /\ (AcquireSlot(t) \/ StartModeration(t) \/ StartEngine(t))
    <2>1. /\ \E p \in Tracked : pc' = [pc EXCEPT ![t] = p]
          /\ pc[t] \in Tracked
          /\ UNCHANGED <<key, inFlight, aborted>>
      BY <1>2 DEF AcquireSlot, StartModeration, StartEngine
    <2>. QED BY <1>0, <1>2, <2>1
  <1>3. CASE t \in Injects /\ RunInject(t)
    BY <1>0, <1>3 DEF RunInject, Track
  <1>4. CASE t \in Injects /\ StartDelivery(t)
    BY <1>0, <1>4 DEF StartDelivery, Untrack
  <1>5. CASE t \in Injects /\ EndDelivery(t)
    BY <1>0, <1>5 DEF EndDelivery, Drop
  <1>6. CASE RetryFresh(t)
    BY <1>0, <1>6 DEF RetryFresh
  <1>. QED BY <1>1, <1>2, <1>3, <1>4, <1>5, <1>6 DEF Moving

\* The same for a request: what it accepts it tracks, an inject excepted.
LEMMA RegistryRequest ==
  ASSUME IInv, SInv, NEW k \in Keys, Request(k)
  PROVE  Stoppable' /\ RegistryInv' /\ AbortedInv'
  <1> DEFINE Goal == Stoppable' /\ RegistryInv' /\ AbortedInv'
  <1> USE TurnKinds DEF Turns, Stoppable, RegistryInv, AbortedInv, Tracked
  <1>0. /\ Stoppable /\ RegistryInv /\ AbortedInv
        /\ pc \in [Turns -> Phases] /\ key \in [Turns -> Keys \cup {None}]
        /\ inFlight \in [Keys -> SUBSET Turns] /\ aborted \in SUBSET Turns
        /\ ScheduledKeys \subseteq Keys
    BY Bounds DEF IInv, SInv, TypeOK
  <1>1. ASSUME NEW m \in Messages, Accept(m, k) PROVE Goal
    BY <1>0, <1>1 DEF Accept, Track
  <1>2. ASSUME NEW i \in Injects, NEW b \in BOOLEAN, Inject(i, k, b) PROVE Goal
    BY <1>0, <1>2 DEF Inject, AbortKey
  <1>3. ASSUME NEW j \in Jobs, FireJob(j, k) PROVE Goal
    BY <1>0, <1>3 DEF FireJob, Track
  <1>4. CASE Stop(k) \/ Forget(k)
    BY <1>0, <1>4 DEF Stop, Forget, AbortKey
  <1>5. CASE Claim(k) \/ Release(k)
    BY <1>0, <1>5 DEF Claim, Release
  <1>. QED BY <1>1, <1>2, <1>3, <1>4, <1>5 DEF Request

\* Claims and the guard of handle(), whatever turn moves: the one message that was in
\* moderation when the claim was made is the only one to get through.
LEMMA LateStep ==
  ASSUME IInv, SInv, NEW t \in Turns, Moving(t)
  PROVE  AtMostOneLate' /\ LateInv'
  <1> DEFINE Goal == AtMostOneLate' /\ LateInv'
  <1> USE TurnKinds DEF Turns, AtMostOneLate, LateInv
  <1>0. /\ AtMostOneLate /\ LateInv
        /\ pc \in [Turns -> Phases] /\ key \in [Turns -> Keys \cup {None}]
        /\ row \in [Keys -> Row] /\ late \in [Keys -> SUBSET Messages]
        /\ \A u \in Turns : pc[u] \notin {"idle", "done"} => key[u] \in Keys
        /\ None \notin Keys
        /\ resume \in [Turns -> Turns \cup {None}]
    BY DEF IInv, SInv, TypeOK, PhaseInv
  <1>a. ASSUME late' = late, \A k \in Keys : row'[k].claimed => row[k].claimed,
               \A m \in Messages : pc'[m] = "moderating" => pc[m] = "moderating" /\ key'[m] = key[m]
        PROVE  Goal
    BY <1>0, <1>a
  <1>b. ASSUME NEW k \in Keys, NEW e, row' = [row EXCEPT ![k].engine = e]
        PROVE  \A l \in Keys : row'[l].claimed = row[l].claimed
    BY <1>0, <1>b DEF Row
  <1>c. ASSUME NEW k \in Keys, Resolve(t, k)
        PROVE  \A l \in Keys : row'[l].claimed = row[l].claimed
    BY <1>0, <1>c DEF Row, Resolve
  <1>1. CASE Over(t)
    <2>1. \A k \in Keys : row'[k].claimed = row[k].claimed
      <3>1. CASE row' = row
        BY <3>1
      <3>2. CASE pc[t] = "running" /\ \E id \in Reported(t) : RecordEngine(t, id)
        <4>1. \E e : row' = [row EXCEPT ![key[t]].engine = e]
          BY <3>2 DEF RecordEngine
        <4>. QED BY <1>0, <1>b, <3>2, <4>1
      <3>. QED BY <1>1, <3>1, <3>2 DEF Over
    <2>. QED BY <1>0, <1>1, <1>a, <2>1 DEF Over, Drop
  <1>2. CASE t \in Messages /\ AcquireSlot(t)
    BY <1>0, <1>2, <1>a DEF AcquireSlot
  <1>3. CASE t \in Messages /\ StartModeration(t)
    BY <1>0, <1>3 DEF StartModeration, ClaimGuard
  <1>4. CASE t \in Messages /\ StartEngine(t)
    <2>1. /\ pc[t] = "moderating" /\ key[t] \in Keys /\ pc' = [pc EXCEPT ![t] = "running"]
          /\ key' = key /\ Resolve(t, key[t])
          /\ late' = [late EXCEPT ![key[t]] = IF row[key[t]].claimed THEN @ \cup {t} ELSE @]
      BY <1>0, <1>4 DEF StartEngine
    <2>2. \A k \in Keys : row'[k].claimed = row[k].claimed
      BY <1>c, <2>1
    <2>3. \A m \in Messages \ {t} : ~(pc[m] = "moderating" /\ key[m] = key[t])
      BY <1>4, <2>1 DEF IInv, LockInv, PastLock, HoldsLock
    <2>4. late[key[t]] = {} \/ ~row[key[t]].claimed
      BY <1>0, <1>4, <2>1
    <2>5. AtMostOneLate'
      BY <1>0, <2>1, <2>4
    <2>6. LateInv'
      BY <1>0, <1>4, <2>1, <2>2, <2>3
    <2>. QED BY <2>5, <2>6
  <1>5. CASE t \in Injects /\ RunInject(t)
    BY <1>0, <1>5, <1>a, <1>c DEF RunInject
  <1>6. CASE t \in Injects /\ StartDelivery(t)
    <2>1. pc[t] = "running" /\ \E e : row' = [row EXCEPT ![key[t]].engine = e]
      BY <1>6 DEF StartDelivery, RecordEngine
    <2>. QED BY <1>0, <1>6, <1>a, <1>b, <2>1 DEF StartDelivery
  <1>7. CASE t \in Injects /\ EndDelivery(t)
    BY <1>0, <1>7, <1>a DEF EndDelivery, Drop
  <1>8. CASE RetryFresh(t)
    BY <1>0, <1>8, <1>a, <1>b DEF RetryFresh
  <1>. QED BY <1>1, <1>2, <1>3, <1>4, <1>5, <1>6, <1>7, <1>8 DEF Moving

\* The same for a request: a new claim starts the count again.
LEMMA LateRequest ==
  ASSUME IInv, SInv, NEW k \in Keys, Request(k)
  PROVE  AtMostOneLate' /\ LateInv'
  <1> DEFINE Goal == AtMostOneLate' /\ LateInv'
  <1> USE TurnKinds DEF Turns, AtMostOneLate, LateInv
  <1>0. /\ AtMostOneLate /\ LateInv
        /\ pc \in [Turns -> Phases] /\ key \in [Turns -> Keys \cup {None}]
        /\ row \in [Keys -> Row] /\ late \in [Keys -> SUBSET Messages]
    BY DEF IInv, SInv, TypeOK
  <1>1. ASSUME NEW m \in Messages, Accept(m, k) PROVE Goal
    BY <1>0, <1>1 DEF Accept
  <1>2. ASSUME NEW i \in Injects, NEW b \in BOOLEAN, Inject(i, k, b) PROVE Goal
    BY <1>0, <1>2 DEF Inject
  <1>3. ASSUME NEW j \in Jobs, FireJob(j, k) PROVE Goal
    <2>1. \A l \in Keys : row'[l].claimed = row[l].claimed
      BY <1>0, <1>3 DEF FireJob, Resolve, Row
    <2>. QED BY <1>0, <1>3, <2>1 DEF FireJob
  <1>4. CASE Stop(k)
    BY <1>0, <1>4 DEF Stop
  <1>5. CASE Forget(k)
    <2>1. /\ ~row'[k].claimed /\ late'[k] = {}
          /\ \A l \in Keys \ {k} : row'[l] = row[l] /\ late'[l] = late[l]
          /\ pc' = pc /\ key' = key
      BY <1>0, <1>5 DEF Forget, NoRow
    <2>. QED BY <1>0, <2>1
  <1>6. CASE Claim(k)
    <2>1. /\ late'[k] = {} /\ pc' = pc /\ key' = key
          /\ \A l \in Keys \ {k} : row'[l] = row[l] /\ late'[l] = late[l]
      BY <1>0, <1>6 DEF Claim
    <2>. QED BY <1>0, <2>1
  <1>7. CASE Release(k)
    <2>1. /\ ~row'[k].claimed /\ late' = late /\ pc' = pc /\ key' = key
          /\ \A l \in Keys \ {k} : row'[l] = row[l]
      BY <1>0, <1>7 DEF Release, Row
    <2>. QED BY <1>0, <2>1
  <1>. QED BY <1>1, <1>2, <1>3, <1>4, <1>5, <1>6, <1>7 DEF Request

---------------------------------------------------------------------------
\* What a turn's own steps do to the row of its conversation: nothing, make it with the
\* session it resumes, or name an engine session the run reports.
LEMMA ForgottenStep ==
  ASSUME IInv, SInv, NEW t \in Turns, Moving(t)
  PROVE  RanInv' /\ ForgottenInv' /\ ForgetIsFinal'
  <1> DEFINE Goal == RanInv' /\ ForgottenInv' /\ ForgetIsFinal'
  <1> USE TurnKinds DEF Turns, RanInv, ForgottenInv, ForgetIsFinal, Ran
  <1>0. /\ RanInv /\ ForgottenInv /\ ForgetIsFinal
        /\ pc \in [Turns -> Phases] /\ key \in [Turns -> Keys \cup {None}]
        /\ row \in [Keys -> Row] /\ forgotten \in [Keys -> SUBSET Turns]
        /\ resume \in [Turns -> Turns \cup {None}]
        /\ \A u \in Turns : pc[u] \notin {"idle", "done"} => key[u] \in Keys
        /\ \A j \in Jobs : pc[j] \in {"idle", "running", "done"}
        /\ None \notin Keys /\ None \notin Turns
    BY DEF IInv, SInv, TypeOK, PhaseInv
  <1>a. ASSUME NEW u \in Turns, NEW v \in Turns, u # v, key[u] = key[v], key[u] \notin ScheduledKeys,
               pc[u] \in {"moderating", "running"} \/ (u \in Injects /\ HoldsLock(u)), pc[v] = "running"
        PROVE  FALSE
    <2>1. u \notin Jobs /\ v \notin Jobs
      BY <1>0, <1>a
    <2>2. HoldsLock(u) /\ HoldsLock(v)
      BY <1>a, <2>1 DEF IInv, LockInv, PastLock
    <2>. QED BY <1>a, <2>2 DEF HoldsLock
  \* A run starts: its row is there, with the session it resumes.
  <1>b. ASSUME pc[t] = "moderating" \/ (t \in Injects /\ HoldsLock(t) /\ pc[t] = "queued"),
               pc' = [pc EXCEPT ![t] = "running"], Resolve(t, key[t]), UNCHANGED <<key, forgotten>>
        PROVE  Goal
    <2>1. key[t] \in Keys /\ t \notin Jobs /\ t \notin Ran
      BY <1>0, <1>b
    <2>2. /\ \A k \in Keys : row'[k].engine = row[k].engine
          /\ \A k \in Keys \ {key[t]} : row'[k] = row[k]
          /\ row'[key[t]].here
          /\ resume' = [resume EXCEPT ![t] = row[key[t]].engine]
      BY <1>0, <1>b, <2>1 DEF Resolve, Row
    <2>3. Ran \subseteq Ran' /\ t \in Ran'
      BY <1>0, <1>b
    <2>4. RanInv'
      BY <1>0, <1>b, <2>1, <2>2, <2>3
    <2>5. \A k \in Keys \ ScheduledKeys : k = key[t] =>
            \A u \in Turns \ {t} : ~(pc[u] = "running" /\ key[u] = k)
      BY <1>a, <1>b
    <2>6. ForgottenInv'
      BY <1>0, <1>b, <2>1, <2>2, <2>5
    <2>7. ForgetIsFinal'
      BY <1>0, <1>b, <2>2
    <2>. QED BY <2>4, <2>6, <2>7
  \* A run reports its session.
  <1>c. ASSUME pc[t] = "running", NEW id \in Reported(t), RecordEngine(t, id)
        PROVE  /\ \A k \in Keys : row'[k].here = row[k].here
               /\ \A k \in Keys \ {key[t]} : row'[k] = row[k]
               /\ \/ row'[key[t]].engine = row[key[t]].engine
                  \/ row[key[t]].here /\ row'[key[t]].engine \in {t, resume[t]} \ {None}
    <2>1. key[t] \in Keys /\ id \in {t, resume[t], None}
      BY <1>0, <1>c DEF Reported
    <2>. QED BY <1>0, <1>c, <2>1 DEF RecordEngine, Row
  \* A turn that moves on without the row.
  <1>d. ASSUME /\ row' = row \/ (pc[t] = "running" /\ \E id \in Reported(t) : RecordEngine(t, id)),
               UNCHANGED forgotten,
               \A u \in Turns : /\ resume'[u] \in {resume[u], None}
                                /\ pc[u] \in {"running", "delivering", "done"} => pc'[u] \in {"running", "delivering", "done"}
                                /\ pc'[u] = "running" => pc[u] = "running" /\ key'[u] = key[u] /\ resume'[u] = resume[u]
        PROVE  Goal
    <2>1. Ran \subseteq Ran'
      BY <1>d
    <2>2. /\ \A k \in Keys : row'[k].here = row[k].here
          /\ \A k \in Keys : \/ row'[k].engine = row[k].engine
                             \/ /\ pc[t] = "running" /\ key[t] = k /\ row[k].here
                                /\ row'[k].engine \in {t, resume[t]} \ {None}
      BY <1>0, <1>c, <1>d
    <2>3. RanInv'
      <3>1. pc[t] = "running" => t \in Ran'
        BY <2>1
      <3>. QED BY <1>0, <1>d, <2>1, <2>2, <3>1
    <2>4. ForgottenInv'
      BY <1>0, <1>d, <2>2
    <2>5. ForgetIsFinal'
      BY <1>0, <1>d, <2>2
    <2>. QED BY <2>3, <2>4, <2>5
  <1>1. CASE Over(t)
    BY <1>0, <1>1, <1>d DEF Over, Drop
  <1>2. CASE t \in Messages /\ (AcquireSlot(t) \/ StartModeration(t))
    BY <1>0, <1>2, <1>d DEF AcquireSlot, StartModeration
  <1>3. CASE t \in Messages /\ StartEngine(t)
    BY <1>3, <1>b DEF StartEngine
  <1>4. CASE t \in Injects /\ RunInject(t)
    BY <1>4, <1>b DEF RunInject
  <1>5. CASE t \in Injects /\ StartDelivery(t)
    BY <1>0, <1>5, <1>d DEF StartDelivery
  <1>6. CASE t \in Injects /\ EndDelivery(t)
    BY <1>0, <1>6, <1>d DEF EndDelivery, Drop
  <1>7. CASE RetryFresh(t)
    <2>1. /\ pc[t] = "running" /\ key[t] \in Keys /\ UNCHANGED <<pc, key, forgotten>>
          /\ row' = [row EXCEPT ![key[t]].engine = None] /\ resume' = [resume EXCEPT ![t] = None]
      BY <1>0, <1>7 DEF RetryFresh
    <2>2. /\ \A k \in Keys : row'[k].here = row[k].here
          /\ \A k \in Keys : row'[k].engine \in {row[k].engine, None}
      BY <1>0, <2>1 DEF Row
    <2>3. RanInv'
      BY <1>0, <2>1, <2>2
    <2>4. ForgottenInv'
      BY <1>0, <2>1, <2>2
    <2>5. ForgetIsFinal'
      BY <1>0, <2>1, <2>2
    <2>. QED BY <2>3, <2>4, <2>5
  <1>. QED BY <1>1, <1>2, <1>3, <1>4, <1>5, <1>6, <1>7 DEF Moving

\* The same for a request: a forget takes the row away before any session it discards could
\* be written into it again.
LEMMA ForgottenRequest ==
  ASSUME IInv, SInv, NEW k \in Keys, Request(k)
  PROVE  RanInv' /\ ForgottenInv' /\ ForgetIsFinal'
  <1> DEFINE Goal == RanInv' /\ ForgottenInv' /\ ForgetIsFinal'
  <1> USE TurnKinds DEF Turns, RanInv, ForgottenInv, ForgetIsFinal, Ran
  <1>0. /\ RanInv /\ ForgottenInv /\ ForgetIsFinal
        /\ pc \in [Turns -> Phases] /\ key \in [Turns -> Keys \cup {None}]
        /\ row \in [Keys -> Row] /\ forgotten \in [Keys -> SUBSET Turns]
        /\ resume \in [Turns -> Turns \cup {None}]
        /\ None \notin Keys /\ None \notin Turns
    BY DEF IInv, SInv, TypeOK
  <1>1. ASSUME NEW m \in Messages, Accept(m, k) PROVE Goal
    BY <1>0, <1>1 DEF Accept
  <1>2. ASSUME NEW i \in Injects, NEW b \in BOOLEAN, Inject(i, k, b) PROVE Goal
    BY <1>0, <1>2 DEF Inject
  <1>3. ASSUME NEW j \in Jobs, FireJob(j, k) PROVE Goal
    <2>1. /\ k \in ScheduledKeys /\ pc[j] = "idle" /\ forgotten' = forgotten
          /\ pc' = [pc EXCEPT ![j] = "done"] \/ pc' = [pc EXCEPT ![j] = "running"]
          /\ \A u \in Turns \ {j} : key'[u] = key[u] /\ resume'[u] = resume[u]
          /\ pc'[j] = "running" => key'[j] = k
          /\ resume'[j] \in {resume[j], row[k].engine}
      BY <1>0, <1>3 DEF FireJob, Resolve
    <2>2. \A l \in Keys : /\ row'[l].engine = row[l].engine
                          /\ l # k => row'[l].here = row[l].here
      BY <1>0, <1>3 DEF FireJob, Resolve, Row
    <2>3. RanInv'
      BY <1>0, <2>1, <2>2
    <2>4. ForgottenInv' /\ ForgetIsFinal'
      BY <1>0, <2>1, <2>2
    <2>. QED BY <2>3, <2>4
  <1>4. CASE Stop(k)
    BY <1>0, <1>4 DEF Stop
  <1>5. CASE Forget(k)
    <2>1. /\ row'[k].here = FALSE /\ row'[k].engine = None
          /\ \A l \in Keys \ {k} : row'[l] = row[l] /\ forgotten'[l] = forgotten[l]
          /\ UNCHANGED <<pc, key, resume>>
      BY <1>0, <1>5 DEF Forget, NoRow
    <2>2. forgotten'[k] = forgotten[k] \cup ({row[k].engine} \ {None})
            \cup {EngineOf(t) : t \in {u \in Turns : pc[u] = "running" /\ key[u] = k}}
      BY <1>0, <1>5 DEF Forget
    <2>3. \A t \in Turns : pc[t] = "running" => EngineOf(t) \in Ran
      BY <1>0 DEF EngineOf
    <2>4. forgotten'[k] \subseteq Ran
      BY <1>0, <2>2, <2>3
    <2>5. RanInv'
      BY <1>0, <2>1, <2>4
    <2>6. ForgottenInv' /\ ForgetIsFinal'
      BY <1>0, <2>1, <2>4
    <2>. QED BY <2>5, <2>6
  <1>6. CASE Claim(k) \/ Release(k)
    <2>1. /\ \A l \in Keys : row'[l].here = row[l].here /\ row'[l].engine = row[l].engine
          /\ UNCHANGED <<pc, key, resume, forgotten>>
      BY <1>0, <1>6 DEF Claim, Release, Row
    <2>. QED BY <1>0, <2>1
  <1>. QED BY <1>1, <1>2, <1>3, <1>4, <1>5, <1>6 DEF Request

---------------------------------------------------------------------------
\* The second inductive invariant holds when the core starts.
LEMMA StopsInitially == Init => SInv
  BY DEF Init, NoRow, SInv, Stoppable, RegistryInv, AbortedInv, AtMostOneLate, LateInv, RanInv, Ran,
         ForgottenInv, ForgetIsFinal, Turns

\* Every step of the core preserves it, given the first.
LEMMA StopsInductive == IInv /\ SInv /\ [Next]_vars => SInv'
  <1> SUFFICES ASSUME IInv, SInv, [Next]_vars PROVE SInv'
    OBVIOUS
  <1>1. CASE UNCHANGED vars
    BY <1>1 DEF vars, SInv, Stoppable, RegistryInv, AbortedInv, AtMostOneLate, LateInv, RanInv, Ran,
                ForgottenInv, ForgetIsFinal
  <1>2. ASSUME NEW t \in Turns, Step(t) PROVE SInv'
    BY <1>2, StepMoving, RegistryStep, LateStep, ForgottenStep DEF SInv
  <1>3. ASSUME NEW k \in Keys, Request(k) PROVE SInv'
    BY <1>3, RegistryRequest, LateRequest, ForgottenRequest DEF SInv
  <1>. QED BY <1>1, <1>2, <1>3 DEF Next

\* It holds throughout.
LEMMA StopsInvariance == Spec => []SInv
  <1>1. Spec => [](IInv /\ SInv)
    BY Initially, Inductive, StopsInitially, StopsInductive, PTL DEF Spec
  <1>. QED BY <1>1, PTL

---------------------------------------------------------------------------
\* trackTurn comes before the lock and the slot: a stop finds every message from the moment
\* it is accepted until it is over, and every engine run of an inject or a job.
THEOREM StopsFind == Spec => []Stoppable
  <1>1. SInv => Stoppable
    BY DEF SInv
  <1>. QED BY <1>1, StopsInvariance, PTL

\* untrackTurn: where no prompt job is scheduled, the registry names turns that go on and
\* nothing else, so a stop that reports success stopped something.
THEOREM RegistryExact == Spec => []NothingLeftTrackedUnscheduled
  <1>1. IInv /\ SInv => NothingLeftTrackedUnscheduled
    BY DEF SInv, RegistryInv, Tracked, NothingLeftTrackedUnscheduled
  <1>. QED BY <1>1, Invariance, StopsInvariance, PTL

\* A claim lets at most one message through to the engine, however many wait for the lock
\* or for a slot.
THEOREM ClaimHolds == Spec => []AtMostOneLate
  <1>1. SInv => AtMostOneLate
    BY DEF SInv
  <1>. QED BY <1>1, StopsInvariance, PTL

\* POST /v2/session/forget: a discarded engine session never comes back to its
\* conversation, whatever the runs it aborted report afterwards.
THEOREM ForgottenForGood == Spec => []ForgetIsFinal
  <1>1. SInv => ForgetIsFinal
    BY DEF SInv
  <1>. QED BY <1>1, StopsInvariance, PTL

\* A stop that lands in the queue, in the wait for a slot or in moderation is not dropped:
\* no step starts or restarts an engine run of a stopped turn.
LEMMA StoppedStays ==
  ASSUME IInv, SInv, [Next]_vars, NEW t \in aborted, pc'[t] = "running"
  PROVE  pc[t] = "running" /\ resume'[t] = resume[t]
  <1> USE TurnKinds DEF Turns
  <1>0. /\ AbortedInv /\ pc \in [Turns -> Phases] /\ resume \in [Turns -> Turns \cup {None}]
        /\ t \in Turns
    BY DEF IInv, SInv, TypeOK
  <1>1. CASE UNCHANGED vars
    BY <1>1 DEF vars
  <1>2. ASSUME NEW u \in Turns, Step(u) PROVE pc[t] = "running" /\ resume'[t] = resume[t]
    <2>1. CASE Over(u)
      BY <1>0, <2>1 DEF Over, Drop
    <2>2. CASE u \in Messages /\ (AcquireSlot(u) \/ StartModeration(u))
      BY <1>0, <2>2 DEF AcquireSlot, StartModeration
    <2>3. CASE u \in Messages /\ StartEngine(u)
      BY <1>0, <2>3 DEF StartEngine, StillWanted, Resolve
    <2>4. CASE u \in Injects /\ RunInject(u)
      BY <1>0, <2>4 DEF RunInject, Resolve, AbortedInv
    <2>5. CASE u \in Injects /\ (StartDelivery(u) \/ EndDelivery(u))
      BY <1>0, <2>5 DEF StartDelivery, EndDelivery, Drop
    <2>6. CASE RetryFresh(u)
      BY <1>0, <2>6 DEF RetryFresh, StillWanted
    <2>. QED BY <1>2, <2>1, <2>2, <2>3, <2>4, <2>5, <2>6, StepMoving DEF Moving
  <1>3. ASSUME NEW k \in Keys, Request(k) PROVE pc[t] = "running" /\ resume'[t] = resume[t]
    <2>1. ASSUME NEW j \in Jobs, FireJob(j, k) PROVE pc[t] = "running" /\ resume'[t] = resume[t]
      BY <1>0, <2>1 DEF FireJob, Resolve, AbortedInv
    <2>2. ASSUME ~(\E j \in Jobs : FireJob(j, k))
          PROVE  pc[t] = "running" /\ resume'[t] = resume[t]
      BY <1>0, <1>3, <2>2 DEF Request, Accept, Inject, Stop, Forget, Claim, Release
    <2>. QED BY <2>1, <2>2
  <1>. QED BY <1>1, <1>2, <1>3 DEF Next

\* The promise of a stop as an action property of every behaviour.
THEOREM StopsHold == Spec => StoppedNeverStarts
  <1>1. IInv /\ SInv /\ [Next]_vars =>
          [\A t \in aborted :
             pc'[t] = "running" => (pc[t] = "running" /\ resume'[t] = resume[t])]_vars
    BY StoppedStays
  <1>. QED BY <1>1, Invariance, StopsInvariance, PTL DEF Spec, StoppedNeverStarts

---------------------------------------------------------------------------
(* Turns implements TurnQueue: one turn at a time per conversation, in the   *)
(* order of acceptance, under one cap.                                       *)

\* The core starts with empty queues and nothing served.
LEMMA QueueInit == Init => Abs!Init
  BY DEF Init, Abs!Init, Serving, Turns

\* A turn that was not served and is moderated or run now was at the head of its queue; a
\* message holds a slot by then, so the cap is not reached.
LEMMA Serves ==
  ASSUME IInv, NEW t \in Messages \cup Injects, key[t] \in Keys,
         pc[t] \in {"admitted", "queued"}, t \in Messages => pc[t] = "admitted",
         HoldsLock(t), chain' = chain, Serving' = Serving \cup {t}
  PROVE  Abs!Next
  <1> USE TurnKinds DEF Turns
  <1>1. t \notin Serving
    BY DEF Serving
  <1>2. ASSUME t \in Messages PROVE Cardinality(Serving \cap Messages) < MaxConcurrent
    <2>1. /\ IsFiniteSet(SlotHolders) /\ t \in SlotHolders
          /\ Cardinality(SlotHolders) <= MaxConcurrent
      BY <1>2, Bounds, FS_Subset DEF IInv, SlotAccounting, SlotHolders
    <2>2. Serving \cap Messages \subseteq SlotHolders \ {t}
      BY <1>1, Bounds DEF Serving, SlotHolders, IInv, PhaseInv
    <2>3. /\ IsFiniteSet(SlotHolders \ {t})
          /\ Cardinality(SlotHolders \ {t}) = Cardinality(SlotHolders) - 1
      BY <2>1, FS_RemoveElement
    <2>4. Cardinality(Serving \cap Messages) <= Cardinality(SlotHolders \ {t})
      BY <2>2, <2>3, FS_Subset
    <2>. QED BY <2>1, <2>2, <2>3, <2>4, Bounds, FS_Subset, FS_CardinalityType
  <1>3. Abs!Cardinality(Serving \cap Messages) = Cardinality(Serving \cap Messages)
    BY DEF Abs!Cardinality, Cardinality, Abs!IsFiniteSet, IsFiniteSet
  <1>4. Abs!Serve(t, key[t])
    BY <1>1, <1>2, <1>3 DEF Abs!Serve, Abs!AtHead, HoldsLock
  <1>. QED BY <1>4 DEF Abs!Next

\* A turn past the lock that ends leaves the head of its queue.
LEMMA Finishes ==
  ASSUME IInv, NEW t \in Messages \cup Injects, t \in PastLock, Unlock(t), Serving' = Serving \ {t}
  PROVE  Abs!Next
  <1>1. key[t] \in Keys /\ HoldsLock(t)
    BY DEF IInv, LockInv, PhaseInv, PastLock, Turns
  <1>2. Abs!Finish(t, key[t])
    BY <1>1 DEF Abs!Finish, Abs!AtHead, HoldsLock, Unlock
  <1>. QED BY <1>1, <1>2 DEF Abs!Next

\* Every class of moves is a step of the abstract queue or leaves it as it is.
LEMMA QueueStep == IInv /\ [Next]_vars => [Abs!Next]_Abs!qvars
  <1> SUFFICES ASSUME IInv, [Next]_vars PROVE Abs!Next \/ UNCHANGED <<chain, Serving>>
    BY DEF Abs!qvars
  <1> USE TurnKinds DEF Turns
  <1>0. /\ Moves /\ pc \in [Turns -> Phases] /\ PhaseInv /\ LockInv
    BY NextMoves DEF IInv, TypeOK
  <1>1. ASSUME NEW t \in Turns, NEW k \in Keys, Enqueues(t, k) PROVE Abs!Next
    <2>1. Serving' = Serving
      BY <1>0, <1>1 DEF Enqueues, Serving
    <2>2. Abs!Accept(t, k)
      BY <1>1, <2>1 DEF Enqueues, Abs!Accept
    <2>. QED BY <1>1, <2>2 DEF Enqueues, Abs!Next
  <1>2. ASSUME NEW m \in Messages, AcquireSlot(m) PROVE UNCHANGED <<chain, Serving>>
    BY <1>0, <1>2 DEF AcquireSlot, Serving
  <1>3. ASSUME NEW m \in Messages, Leaves(m) PROVE Abs!Next
    <2>1. Serving' = Serving \ {m}
      BY <1>3, LeavePc DEF Serving
    <2>. QED BY <1>3, <2>1, Finishes DEF Leaves, Leave, PastLock
  <1>4. ASSUME NEW i \in Injects, InjectEnds(i) PROVE Abs!Next
    <2>1. Serving' = Serving \ {i}
      BY <1>0, <1>4 DEF InjectEnds, Serving
    <2>. QED BY <1>4, <2>1, Finishes DEF InjectEnds, PastLock
  <1>5. ASSUME NEW j \in Jobs, JobMoves(j) PROVE UNCHANGED <<chain, Serving>>
    BY <1>0, <1>5 DEF JobMoves, Serving
  <1>6. ASSUME NEW t \in Turns, NEW p \in Phases, Advances(t, p)
        PROVE  Abs!Next \/ UNCHANGED <<chain, Serving>>
    <2>1. CASE /\ t \in Messages /\ pc[t] = "admitted" /\ p = "moderating"
      <3>1. HoldsLock(t) /\ key[t] \in Keys /\ Serving' = Serving \cup {t} /\ chain' = chain
        BY <1>0, <1>6, <2>1 DEF Advances, Serving, LockInv, PastLock, PhaseInv
      <3>. QED BY <2>1, <3>1, Serves
    <2>2. CASE t \in Injects /\ pc[t] = "queued" /\ HoldsLock(t) /\ p = "running"
      <3>1. key[t] \in Keys /\ Serving' = Serving \cup {t} /\ chain' = chain
        BY <1>0, <1>6, <2>2 DEF Advances, Serving, PhaseInv
      <3>. QED BY <2>2, <3>1, Serves
    <2>3. CASE \/ t \in Messages /\ pc[t] = "moderating" /\ p = "running"
               \/ t \in Injects /\ pc[t] = "running" /\ p = "delivering"
      BY <1>0, <1>6, <2>3 DEF Advances, Serving
    <2>. QED BY <1>6, <2>1, <2>2, <2>3 DEF Advances
  <1>7. ASSUME UNCHANGED Control PROVE UNCHANGED <<chain, Serving>>
    BY <1>7 DEF Control, Serving
  <1>. QED BY <1>0, <1>1, <1>2, <1>3, <1>4, <1>5, <1>6, <1>7 DEF Moves

\* The lock, the slots and the aborted turns never let a turn overtake another of its
\* conversation, nor more messages be served than the cap.
THEOREM Implements == Spec => ServesInOrder
  BY QueueInit, QueueStep, Invariance, PTL DEF Spec, ServesInOrder, Abs!Spec
=============================================================================

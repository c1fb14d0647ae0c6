----------------------------- MODULE Scheduler -----------------------------
(***************************************************************************)
(* Scheduled jobs: the store of shared/schedules.js (a file, so it survives *)
(* the core), the tick of core/src/scheduler.js that fires what is due, the *)
(* run-now endpoint of core/src/server.js, and the edits that may arrive    *)
(* while a run is going on.                                                *)
(*                                                                         *)
(* Time is counted in minutes: a cron matches whole minutes, and nextRun    *)
(* looks strictly after the minute it is given.  A run is an engine turn or *)
(* a shell command; only its start and its end matter here.                 *)
(***************************************************************************)
EXTENDS Integers, Sequences, SequencesExt, FiniteSetsExt,
        TLAPS, NaturalsInduction, SequenceTheorems, FiniteSetTheorems

CONSTANTS
  Jobs,        \* job ids, each created once
  Crons,       \* schedules: the minutes each one matches
  Horizon,     \* bound: the last minute
  MaxHands,    \* bound: run-now requests of one job open at once
  MaxRestarts, \* bound: restarts of the core
  None         \* no next run

Minutes == 0..Horizon

ASSUME Bounds ==
  /\ Horizon \in Nat
  /\ MaxHands \in Nat
  /\ MaxRestarts \in Nat
  /\ Crons \subseteq SUBSET Minutes
  /\ None \notin Minutes

VARIABLES
  now,       \* the clock
  job,       \* schedules.json: each job's status, cron and next_run
  inflight,  \* the tick's per-job concurrency guard
  ticks,     \* the runs the tick started and that go on, by their start
  hands,     \* the runs started by hand that go on, by their start
  restarts,  \* how often the core restarted
  byHand,    \* history: the jobs ever run by hand
  fired,     \* history: slots the tick fired, but for runs a restart cut short
  since      \* history: the last start by the tick, or edit, of each job

vars == <<now, job, inflight, ticks, hands, restarts, byHand, fired, since>>

\* Only an enabled job has a next run (a removed one keeps its last).
Job == {r \in [status : {"absent", "enabled", "disabled", "removed"},
               cron : Crons \cup {{}}, next : Minutes \cup {None}] :
          r.status \in {"absent", "disabled"} => r.next = None}

TypeOK ==
  /\ now \in Minutes
  /\ job \in [Jobs -> Job]
  /\ inflight \in SUBSET Jobs
  /\ ticks \in [Jobs -> Seq(Minutes)]
  /\ hands \in [Jobs -> Seq(Minutes)]
  /\ restarts \in 0..MaxRestarts
  /\ byHand \in SUBSET Jobs
  /\ fired \in [Jobs -> SUBSET Minutes]
  /\ since \in [Jobs -> Minutes]

Init ==
  /\ now = 0
  /\ job = [j \in Jobs |-> [status |-> "absent", cron |-> {}, next |-> None]]
  /\ inflight = {}
  /\ ticks = [j \in Jobs |-> <<>>]
  /\ hands = [j \in Jobs |-> <<>>]
  /\ restarts = 0
  /\ byHand = {}
  /\ fired = [j \in Jobs |-> {}]
  /\ since = [j \in Jobs |-> 0]

---------------------------------------------------------------------------
(* Helpers.  A definition with a suffix after _ is the code with one mistake. *)

NextRun_NotStrict(cron, at) ==
  LET later == {m \in cron : m >= at} IN IF later = {} THEN None ELSE Min(later)

\* nextRun: the first match strictly after the given minute.
NextRun(cron, at) ==
  LET later == {m \in cron : m > at} IN IF later = {} THEN None ELSE Min(later)

There(j) == job[j].status \in {"enabled", "disabled"}

\* dueJobs
Due(j) == job[j].status = "enabled" /\ job[j].next # None /\ job[j].next <= now

Guarded_Never(j) == FALSE
Guarded(j) == j \in inflight

MarkRan_FromTheEnd(j, at) ==
  job' = [job EXCEPT ![j].next =
            IF ~There(j) THEN @
            ELSE IF job[j].status = "enabled" THEN NextRun(job[j].cron, now)
            ELSE None]

MarkRan_EvenDisabled(j, at) ==
  job' = [job EXCEPT ![j].next = IF ~There(j) THEN @ ELSE NextRun(job[j].cron, at)]

\* markRan: nothing for a removed job; next_run advances from the given start.
MarkRan(j, at) ==
  job' = [job EXCEPT ![j].next =
            IF ~There(j) THEN @
            ELSE IF job[j].status = "enabled" THEN NextRun(job[j].cron, at)
            ELSE None]

\* The delete is not in a finally: an error skips it.
Unguard_NotOnError(j) == inflight' \in {inflight, inflight \ {j}}
Unguard(j) == inflight' = inflight \ {j}

---------------------------------------------------------------------------
(* The tick.                                                                *)

\* Every due job that is not already running starts.
Tick ==
  LET starting == {j \in Jobs : Due(j) /\ ~Guarded(j)} IN
  /\ starting # {}
  /\ inflight' = inflight \cup starting
  /\ ticks' = [j \in Jobs |-> IF j \in starting THEN Append(ticks[j], now) ELSE ticks[j]]
  /\ fired' = [j \in Jobs |-> IF j \in starting THEN fired[j] \cup {job[j].next} ELSE fired[j]]
  /\ since' = [j \in Jobs |-> IF j \in starting THEN now ELSE since[j]]
  /\ UNCHANGED <<now, job, hands, restarts, byHand>>

\* The run ended, well or not.
TickRunEnds(j) ==
  /\ ticks[j] # <<>>
  /\ \E n \in DOMAIN ticks[j] :
       /\ MarkRan(j, ticks[j][n])
       /\ ticks' = [ticks EXCEPT ![j] = RemoveAt(@, n)]
  /\ Unguard(j)
  /\ UNCHANGED <<now, hands, restarts, byHand, fired, since>>

---------------------------------------------------------------------------
(* Run-now: no look at inflight.  A failed run is marked at its end.         *)

RunNow(j) ==
  /\ There(j)
  /\ Len(hands[j]) < MaxHands
  /\ hands' = [hands EXCEPT ![j] = Append(@, now)]
  /\ byHand' = byHand \cup {j}
  /\ UNCHANGED <<now, job, inflight, ticks, restarts, fired, since>>

RunNowEnds(j) ==
  /\ \E n \in DOMAIN hands[j] :
       /\ MarkRan(j, hands[j][n]) \/ MarkRan(j, now)
       /\ hands' = [hands EXCEPT ![j] = RemoveAt(@, n)]
  /\ UNCHANGED <<now, inflight, ticks, restarts, byHand, fired, since>>

---------------------------------------------------------------------------
(* Edits, the clock, the core.                                              *)

\* create, and update whatever the patch says: next_run is computed from now.
Save(j, status, cron) ==
  /\ job' = [job EXCEPT ![j] =
       [status |-> status, cron |-> cron,
        next |-> IF status = "enabled" THEN NextRun(cron, now) ELSE None]]
  /\ since' = [since EXCEPT ![j] = now]
  /\ UNCHANGED <<now, inflight, ticks, hands, restarts, byHand, fired>>

Create(j, status, cron) == job[j].status = "absent" /\ Save(j, status, cron)
Update(j, status, cron) == There(j) /\ Save(j, status, cron)

Delete(j) ==
  /\ There(j)
  /\ job' = [job EXCEPT ![j].status = "removed"]
  /\ UNCHANGED <<now, inflight, ticks, hands, restarts, byHand, fired, since>>

Clock ==
  /\ now < Horizon
  /\ now' = now + 1
  /\ UNCHANGED <<job, inflight, ticks, hands, restarts, byHand, fired, since>>

\* The core restarts, with time away from it (Clock): the file stays, the runs do not,
\* and what they were fired for counts as not fired.
CoreRestart ==
  /\ restarts < MaxRestarts
  /\ restarts' = restarts + 1
  /\ inflight' = {}
  /\ ticks' = [j \in Jobs |-> <<>>]
  /\ hands' = [j \in Jobs |-> <<>>]
  /\ fired' = [j \in Jobs |-> IF ticks[j] = <<>> THEN fired[j] ELSE fired[j] \ {job[j].next}]
  /\ UNCHANGED <<now, job, byHand, since>>

Next ==
  \/ Tick
  \/ Clock
  \/ CoreRestart
  \/ \E j \in Jobs :
       \/ TickRunEnds(j)
       \/ RunNow(j)
       \/ RunNowEnds(j)
       \/ Delete(j)
       \/ \E s \in {"enabled", "disabled"}, c \in Crons : Create(j, s, c) \/ Update(j, s, c)

Spec == Init /\ [][Next]_vars

\* The interval timer keeps ticking, and runs end: a shell command is killed at its
\* timeout, an engine run answers.
FairSpec == Spec /\ WF_vars(Tick) /\ \A j \in Jobs : WF_vars(TickRunEnds(j))

---------------------------------------------------------------------------
(* Properties.  A job that was never run by hand keeps its promises.         *)

Unattended == Jobs \ byHand

\* "a slow job never overlaps itself"
NeverOverlapsItself == \A j \in Unattended : Len(ticks[j]) + Len(hands[j]) <= 1

FiresAgain(j) == Len(ticks'[j]) > Len(ticks[j]) /\ job[j].next \in fired[j]

\* A slot is fired once, whatever edits arrive during its run; only a run that a restart
\* cut short is fired again.
SlotFiredOnce == [][\A j \in Unattended : ~FiresAgain(j)]_vars

\* "a slow run can't re-fire the same minute", whoever else runs the job.
NeverRefires == [][\A j \in Jobs : ~FiresAgain(j)]_vars

\* No slot is passed over: what an enabled job waits for is no later than the first slot
\* after its last start or edit, however long that run took.
NoSlotPassedOver ==
  \A j \in Unattended : job[j].status = "enabled" =>
    \A m \in job[j].cron : m > since[j] => job[j].next # None /\ job[j].next <= m

\* "overdue jobs fire once on the next tick after downtime": a job does not stay due.
OverdueFires ==
  \A j \in Jobs, m \in Minutes :
    (Due(j) /\ job[j].next = m) ~> ~(Due(j) /\ job[j].next = m)

---------------------------------------------------------------------------
(* Proofs, for every set of jobs and schedules and however long the clock    *)
(* runs.  First the inductive invariant.                                    *)

\* The guard is up exactly while the tick's one run of the job goes on.
GuardInv == \A j \in Jobs : Len(ticks[j]) <= 1 /\ (j \in inflight <=> ticks[j] # <<>>)

\* Run-now leaves a trace.
HandInv == \A j \in Unattended : hands[j] = <<>>

\* Nothing was fired after the start of the run it was fired for, nor in the future.
PastInv ==
  \A j \in Jobs :
    /\ since[j] <= now
    /\ \A m \in fired[j] : m <= now
    /\ ticks[j] # <<>> => ticks[j][1] <= since[j] /\ \A m \in fired[j] : m <= ticks[j][1]

\* What a job waits for lies behind everything fired, but for the slot its run was fired for.
AheadInv ==
  \A j \in Unattended : job[j].status = "enabled" /\ job[j].next # None =>
    \A m \in fired[j] : m <= job[j].next /\ (ticks[j] = <<>> => m # job[j].next)

IInv == TypeOK /\ GuardInv /\ HandInv /\ PastInv /\ AheadInv /\ NoSlotPassedOver

---------------------------------------------------------------------------
(* The minutes and the run lists.                                           *)

\* Every set of naturals that has a member has a least one.
LEMMA Least ==
  ASSUME NEW S \in SUBSET Nat, S # {}
  PROVE  \E x \in S : \A y \in S : x <= y
  <1> DEFINE T == {0..x : x \in S}
  <1>1. \A x \in Nat : 0..x \in FiniteSubsetsOf(Nat)
    <2> TAKE x \in Nat
    <2>1. IsFiniteSet(0..x)
      BY FS_Interval
    <2>. QED BY <2>1 DEF FiniteSubsetsOf
  <1>2. T \subseteq FiniteSubsetsOf(Nat) /\ T # {}
    BY <1>1
  <1>3. IsWellFoundedOn(StrictSubsetOrdering(Nat), FiniteSubsetsOf(Nat))
    BY FS_StrictSubsetOrderingWellFounded
  <1>4. \E t \in T : \A u \in T : ~(<<u, t>> \in StrictSubsetOrdering(Nat))
    <2> HIDE DEF T
    <2>. QED BY <1>2, <1>3, WFMin
  <1>5. PICK x \in S : \A y \in S : ~(<<0..y, 0..x>> \in StrictSubsetOrdering(Nat))
    BY <1>4
  <1>6. ASSUME NEW y \in S, y < x PROVE FALSE
    <2> DEFINE p == <<0..y, 0..x>>
    <2>1. x \in 0..x /\ x \notin 0..y /\ 0..y \subseteq 0..x
      BY <1>6
    <2>2. p \in (SUBSET Nat) \X (SUBSET Nat) /\ p[1] = 0..y /\ p[2] = 0..x
      OBVIOUS
    <2>3. p \in StrictSubsetOrdering(Nat)
      <3> HIDE DEF p
      <3>. QED BY <2>1, <2>2 DEF StrictSubsetOrdering
    <2>. QED BY <1>5, <2>3
  <1>. QED BY <1>6

\* nextRun: none when no match is left, else the first one strictly after the given minute.
LEMMA NextRunIs ==
  ASSUME NEW cron \in SUBSET Minutes, NEW at \in Minutes
  PROVE  \/ NextRun(cron, at) = None /\ \A m \in cron : m <= at
         \/ /\ NextRun(cron, at) \in cron
            /\ NextRun(cron, at) > at
            /\ \A m \in cron : m > at => NextRun(cron, at) <= m
  <1> DEFINE later == {m \in cron : m > at}
  <1>0. at \in Nat /\ (\A m \in cron : m \in Nat) /\ later \in SUBSET Nat
    <2>1. \A m \in Minutes : m \in Nat
      BY Bounds DEF Minutes
    <2>. QED BY <2>1
  <1>1. CASE later = {}
    <2>1. NextRun(cron, at) = None
      BY <1>1 DEF NextRun
    <2>. QED BY <1>0, <1>1, <2>1
  <1>2. CASE later # {}
    <2>1. NextRun(cron, at) = Min(later)
      BY <1>2 DEF NextRun
    <2>2. \E x \in later : \A y \in later : x <= y
      BY <1>0, <1>2, Least
    <2>3. Min(later) \in later /\ \A y \in later : Min(later) <= y
      <3> HIDE DEF later
      <3>. QED BY <2>2 DEF Min
    <2>. QED BY <2>1, <2>3
  <1>. QED BY <1>1, <1>2

\* A run that ends is taken off its list.
LEMMA Removed ==
  ASSUME NEW T, NEW s \in Seq(T), NEW n \in 1..Len(s)
  PROVE  RemoveAt(s, n) \in Seq(T) /\ Len(RemoveAt(s, n)) = Len(s) - 1
  <1>1. Len(s) \in Nat /\ \A i \in 1..Len(s) : s[i] \in T
    OBVIOUS
  <1>2. SubSeq(s, 1, n-1) \in Seq(T) /\ Len(SubSeq(s, 1, n-1)) = n-1
    BY <1>1, SubSeqProperties
  <1>3. SubSeq(s, n+1, Len(s)) \in Seq(T) /\ Len(SubSeq(s, n+1, Len(s))) = Len(s) - n
    BY <1>1, SubSeqProperties
  <1>. QED BY <1>1, <1>2, <1>3, ConcatProperties DEF RemoveAt

\* What the types of the state say of its minutes.
LEMMA Typed ==
  ASSUME TypeOK
  PROVE  /\ now \in Nat /\ inflight \subseteq Jobs /\ byHand \subseteq Jobs
         /\ \A m \in Minutes : m \in Nat
         /\ \A j \in Jobs :
              /\ since[j] \in Nat
              /\ \A m \in fired[j] : m \in Nat
              /\ \A m \in job[j].cron : m \in Nat
              /\ job[j].cron \in SUBSET Minutes
              /\ job[j].next = None \/ job[j].next \in Nat
              /\ ticks[j] \in Seq(Minutes) /\ hands[j] \in Seq(Minutes)
              /\ ticks[j] # <<>> => ticks[j][1] \in Minutes
  <1>1. \A m \in Minutes : m \in Nat
    BY Bounds DEF Minutes
  <1>2. ASSUME NEW j \in Jobs
        PROVE  /\ job[j].cron \in SUBSET Minutes /\ job[j].next \in Minutes \cup {None}
               /\ ticks[j] \in Seq(Minutes) /\ hands[j] \in Seq(Minutes)
               /\ since[j] \in Minutes /\ fired[j] \in SUBSET Minutes
    BY Bounds DEF TypeOK, Job
  <1>3. ASSUME NEW j \in Jobs, ticks[j] # <<>> PROVE ticks[j][1] \in Minutes
    BY <1>2, <1>3
  <1>. QED BY <1>1, <1>2, <1>3 DEF TypeOK

\* What markRan makes of the job it is given, and that it leaves the others alone.
LEMMA Marked ==
  ASSUME TypeOK, NEW j \in Jobs, NEW at \in Minutes, MarkRan(j, at)
  PROVE  /\ job' \in [Jobs -> Job]
         /\ \A i \in Jobs : /\ job'[i].status = job[i].status
                            /\ job'[i].cron = job[i].cron
                            /\ i # j => job'[i].next = job[i].next
         /\ job[j].status = "enabled" => job'[j].next = NextRun(job[j].cron, at)
  <1>1. job \in [Jobs -> Job] /\ job[j].cron \in SUBSET Minutes
    BY Bounds DEF TypeOK, Job
  <1>2. NextRun(job[j].cron, at) \in Minutes \cup {None}
    BY <1>1, NextRunIs
  <1>3. PICK e \in Minutes \cup {None} :
          /\ job' = [job EXCEPT ![j].next = e]
          /\ job[j].status = "enabled" => e = NextRun(job[j].cron, at)
          /\ job[j].status = "disabled" => e = None
          /\ job[j].status = "absent" => e = None
    <2>1. CASE ~There(j)
      BY <1>1, <2>1 DEF MarkRan, There, Job
    <2>2. CASE There(j) /\ job[j].status = "enabled"
      BY <1>2, <2>2 DEF MarkRan
    <2>3. CASE There(j) /\ job[j].status # "enabled"
      BY <2>3 DEF MarkRan, There
    <2>. QED BY <2>1, <2>2, <2>3
  <1>. QED BY <1>1, <1>3 DEF Job

---------------------------------------------------------------------------
(* The invariant under each action.                                         *)

\* The invariant holds when the store is empty.
LEMMA Initially == Init => IInv
  <1> SUFFICES ASSUME Init PROVE IInv
    OBVIOUS
  <1> USE DEF Init
  <1>1. TypeOK
    BY Bounds DEF TypeOK, Job, Minutes
  <1>2. GuardInv /\ HandInv /\ PastInv
    BY DEF GuardInv, HandInv, PastInv, Unattended
  <1>3. AheadInv /\ NoSlotPassedOver
    BY DEF AheadInv, NoSlotPassedOver, Unattended
  <1>. QED BY <1>1, <1>2, <1>3 DEF IInv

\* The tick starts only jobs whose guard is down, for the slot they wait for.
LEMMA TickKeeps == IInv /\ Tick => IInv'
  <1> SUFFICES ASSUME IInv, Tick PROVE IInv'
    OBVIOUS
  <1> DEFINE starting == {j \in Jobs : Due(j) /\ ~Guarded(j)}
  <1>0. /\ inflight' = inflight \cup starting
        /\ ticks' = [j \in Jobs |-> IF j \in starting THEN Append(ticks[j], now) ELSE ticks[j]]
        /\ fired' = [j \in Jobs |-> IF j \in starting THEN fired[j] \cup {job[j].next} ELSE fired[j]]
        /\ since' = [j \in Jobs |-> IF j \in starting THEN now ELSE since[j]]
        /\ UNCHANGED <<now, job, hands, restarts, byHand>>
    BY DEF Tick
  <1>1. \A j \in starting : /\ j \in Jobs /\ j \notin inflight
                            /\ job[j].status = "enabled" /\ job[j].next # None /\ job[j].next <= now
    BY DEF Due, Guarded
  <1> HIDE DEF starting
  <1>2. /\ TypeOK /\ GuardInv /\ HandInv /\ PastInv /\ AheadInv /\ NoSlotPassedOver
        /\ now \in Minutes /\ Minutes \subseteq Nat /\ None \notin Minutes
        /\ ticks \in [Jobs -> Seq(Minutes)] /\ fired \in [Jobs -> SUBSET Minutes]
        /\ since \in [Jobs -> Minutes] /\ job \in [Jobs -> Job] /\ inflight \subseteq Jobs
    BY Bounds DEF IInv, TypeOK, Minutes
  <1>3. \A j \in starting : job[j].next \in Minutes /\ ticks[j] = <<>>
    BY <1>1, <1>2 DEF GuardInv, Job
  <1>4. ASSUME NEW j \in starting PROVE ticks'[j] = <<now>>
    <2>1. Append(<<>>, now) = <<now>>
      OBVIOUS
    <2>. QED BY <1>0, <1>1, <1>3, <2>1
  <1>5. TypeOK'
    BY <1>0, <1>1, <1>2, <1>3 DEF TypeOK
  <1>6. GuardInv'
    BY <1>0, <1>1, <1>2, <1>4 DEF GuardInv
  <1>7. HandInv'
    BY <1>0, <1>2 DEF HandInv, Unattended
  <1>8. PastInv'
    <2> SUFFICES ASSUME NEW j \in Jobs
                 PROVE  /\ since'[j] <= now'
                        /\ \A m \in fired'[j] : m <= now'
                        /\ ticks'[j] # <<>> =>
                             ticks'[j][1] <= since'[j] /\ \A m \in fired'[j] : m <= ticks'[j][1]
      BY DEF PastInv
    <2>1. CASE j \in starting
      BY <1>0, <1>1, <1>2, <1>3, <1>4, <2>1 DEF PastInv
    <2>2. CASE j \notin starting
      BY <1>0, <1>2, <2>2 DEF PastInv
    <2>. QED BY <2>1, <2>2
  <1>9. AheadInv'
    <2> SUFFICES ASSUME NEW j \in Unattended', job'[j].status = "enabled", job'[j].next # None,
                        NEW m \in fired'[j]
                 PROVE  m <= job'[j].next /\ (ticks'[j] = <<>> => m # job'[j].next)
      BY DEF AheadInv
    <2>0. j \in Unattended /\ j \in Jobs
      BY <1>0 DEF Unattended
    <2>1. CASE j \in starting
      <3>1. m \in fired[j] \/ m = job[j].next
        BY <1>0, <2>0, <2>1
      <3>2. job[j].next \in Nat /\ m <= job[j].next
        BY <1>0, <1>1, <1>3, <2>0, <2>1, <3>1, Typed, <1>2 DEF AheadInv
      <3>3. ticks'[j] # <<>>
        BY <1>4, <2>1
      <3>. QED BY <1>0, <3>2, <3>3
    <2>2. CASE j \notin starting
      BY <1>0, <1>2, <2>0, <2>2 DEF AheadInv
    <2>. QED BY <2>1, <2>2
  <1>10. NoSlotPassedOver'
    <2> SUFFICES ASSUME NEW j \in Unattended', job'[j].status = "enabled", NEW m \in job'[j].cron, m > since'[j]
                 PROVE  job'[j].next # None /\ job'[j].next <= m
      BY DEF NoSlotPassedOver
    <2>0. j \in Unattended /\ j \in Jobs /\ m \in Minutes
      BY <1>0, <1>2, Bounds DEF Unattended, Job
    <2>1. CASE j \in starting
      <3>1. job'[j].next = job[j].next /\ m > now
        BY <1>0, <2>0, <2>1
      <3>2. now \in Nat /\ m \in Nat /\ job[j].next \in Nat
        BY <1>2, <1>3, <2>0, <2>1
      <3>. QED BY <1>1, <2>1, <3>1, <3>2
    <2>2. CASE j \notin starting
      BY <1>0, <1>2, <2>0, <2>2 DEF NoSlotPassedOver
    <2>. QED BY <2>1, <2>2
  <1>. QED BY <1>5, <1>6, <1>7, <1>8, <1>9, <1>10 DEF IInv

\* A run that ends advances its job from the run's start, so past every fired slot.
LEMMA TickRunEndsKeeps == ASSUME IInv, NEW j \in Jobs, TickRunEnds(j) PROVE IInv'
  <1>0. /\ TypeOK /\ GuardInv /\ HandInv /\ PastInv /\ AheadInv /\ NoSlotPassedOver
        /\ now \in Minutes /\ Minutes \subseteq Nat /\ None \notin Minutes
        /\ ticks \in [Jobs -> Seq(Minutes)] /\ fired \in [Jobs -> SUBSET Minutes]
        /\ since \in [Jobs -> Minutes] /\ job \in [Jobs -> Job] /\ inflight \subseteq Jobs
    BY Bounds DEF IInv, TypeOK, Minutes
  <1>1. PICK n \in DOMAIN ticks[j] : MarkRan(j, ticks[j][n]) /\ ticks' = [ticks EXCEPT ![j] = RemoveAt(@, n)]
    BY DEF TickRunEnds
  <1>2. /\ ticks[j] # <<>> /\ inflight' = inflight \ {j}
        /\ UNCHANGED <<now, hands, restarts, byHand, fired, since>>
    BY DEF TickRunEnds, Unguard
  <1>3. n = 1 /\ n \in 1..Len(ticks[j]) /\ Len(ticks[j]) = 1 /\ ticks[j][1] \in Minutes
    <2>1. ticks[j] \in Seq(Minutes) /\ Len(ticks[j]) <= 1 /\ ticks[j][1] \in Minutes
      BY <1>0, <1>2, Typed DEF GuardInv
    <2>2. Len(ticks[j]) = 1
      <3>1. Len(ticks[j]) \in Nat /\ Len(ticks[j]) # 0
        BY <1>2, <2>1, EmptySeq
      <3>2. \A k \in Nat : k # 0 /\ k <= 1 => k = 1
        OBVIOUS
      <3>. QED BY <2>1, <3>1, <3>2
    <2>. QED BY <1>1, <2>1, <2>2
  <1>4. RemoveAt(ticks[j], n) \in Seq(Minutes) /\ Len(RemoveAt(ticks[j], n)) = 0
    <2>1. ticks[j] \in Seq(Minutes)
      BY <1>0
    <2>. QED BY <1>3, <2>1, Removed
  <1>5. ticks' = [ticks EXCEPT ![j] = <<>>]
    BY <1>0, <1>1, <1>4
  <1>6. /\ job' \in [Jobs -> Job]
        /\ \A i \in Jobs : /\ job'[i].status = job[i].status /\ job'[i].cron = job[i].cron
                           /\ i # j => job'[i].next = job[i].next
        /\ job[j].status = "enabled" => job'[j].next = NextRun(job[j].cron, ticks[j][1])
    BY <1>0, <1>1, <1>3, Marked
  <1>7. job[j].cron \in SUBSET Minutes
    BY <1>0, Bounds DEF Job
  <1>8. TypeOK'
    <2>1. ticks' \in [Jobs -> Seq(Minutes)]
      BY <1>0, <1>5
    <2>2. inflight' \in SUBSET Jobs
      BY <1>0, <1>2
    <2>. QED BY <1>0, <1>2, <1>6, <2>1, <2>2 DEF TypeOK
  <1>9. GuardInv' /\ HandInv' /\ PastInv'
    BY <1>0, <1>2, <1>5 DEF GuardInv, HandInv, PastInv, Unattended
  <1>10. AheadInv'
    <2> SUFFICES ASSUME NEW i \in Unattended', job'[i].status = "enabled", job'[i].next # None,
                        NEW m \in fired'[i]
                 PROVE  m <= job'[i].next /\ (ticks'[i] = <<>> => m # job'[i].next)
      BY DEF AheadInv
    <2>0. i \in Unattended /\ i \in Jobs
      BY <1>2 DEF Unattended
    <2>1. CASE i # j
      <3>1. job'[i].status = job[i].status /\ job'[i].next = job[i].next
            /\ fired'[i] = fired[i] /\ ticks'[i] = ticks[i]
        BY <1>0, <1>2, <1>5, <1>6, <2>0, <2>1
      <3>. QED BY <1>0, <2>0, <3>1 DEF AheadInv
    <2>2. CASE i = j
      <3>1. job'[j].next = NextRun(job[j].cron, ticks[j][1]) /\ job'[j].next # None
        BY <1>6, <2>2
      <3>2. job'[j].next \in job[j].cron /\ job'[j].next > ticks[j][1]
        BY <1>3, <1>7, <3>1, NextRunIs
      <3>3. m <= ticks[j][1]
        BY <1>0, <1>2, <2>2 DEF PastInv
      <3>4. m \in Nat /\ ticks[j][1] \in Nat /\ job'[j].next \in Nat
        BY <1>0, <1>2, <1>3, <2>2, <3>2, Typed
      <3>. QED BY <2>2, <3>2, <3>3, <3>4
    <2>. QED BY <2>1, <2>2
  <1>11. NoSlotPassedOver'
    <2> SUFFICES ASSUME NEW i \in Unattended', job'[i].status = "enabled", NEW m \in job'[i].cron, m > since'[i]
                 PROVE  job'[i].next # None /\ job'[i].next <= m
      BY DEF NoSlotPassedOver
    <2>0. i \in Unattended /\ i \in Jobs
      BY <1>2 DEF Unattended
    <2>1. CASE i # j
      <3>1. job'[i].status = job[i].status /\ job'[i].next = job[i].next
            /\ job'[i].cron = job[i].cron /\ since'[i] = since[i]
        BY <1>2, <1>6, <2>0, <2>1
      <3>. QED BY <1>0, <2>0, <3>1 DEF NoSlotPassedOver
    <2>2. CASE i = j
      <3>1. job[j].status = "enabled" /\ m \in job[j].cron /\ m > since[j]
        BY <1>2, <1>6, <2>2
      <3>2. ticks[j][1] <= since[j]
        BY <1>0, <1>2 DEF PastInv
      <3>3. m \in Nat /\ ticks[j][1] \in Nat /\ since[j] \in Nat
        BY <1>0, <1>3, <3>1, Typed
      <3>4. m > ticks[j][1]
        BY <3>1, <3>2, <3>3
      <3>5. job'[j].next = NextRun(job[j].cron, ticks[j][1])
        BY <1>6, <3>1
      <3>6. \/ \A k \in job[j].cron : k <= ticks[j][1]
            \/ job'[j].next \in job[j].cron /\ \A k \in job[j].cron : k > ticks[j][1] => job'[j].next <= k
        BY <1>3, <1>7, <3>5, NextRunIs
      <3>7. job'[j].next \in job[j].cron /\ job'[j].next <= m
        BY <3>1, <3>3, <3>4, <3>6
      <3>. QED BY <1>0, <1>7, <2>2, <3>7
    <2>. QED BY <2>1, <2>2
  <1>. QED BY <1>8, <1>9, <1>10, <1>11 DEF IInv

\* Run-now makes the job an attended one: only types and the guard are left to keep.
LEMMA HandsKeep == ASSUME IInv, NEW j \in Jobs, RunNow(j) \/ RunNowEnds(j) PROVE IInv'
  <1>0. /\ TypeOK /\ GuardInv /\ HandInv /\ PastInv /\ AheadInv /\ NoSlotPassedOver
        /\ now \in Minutes /\ Minutes \subseteq Nat
        /\ hands \in [Jobs -> Seq(Minutes)] /\ byHand \subseteq Jobs /\ job \in [Jobs -> Job]
    BY Bounds DEF IInv, TypeOK, Minutes
  <1>1. CASE RunNow(j)
    <2>1. /\ hands' = [hands EXCEPT ![j] = Append(@, now)] /\ byHand' = byHand \cup {j}
          /\ UNCHANGED <<now, job, inflight, ticks, restarts, fired, since>>
      BY <1>1 DEF RunNow
    <2>2. Append(hands[j], now) \in Seq(Minutes)
      BY <1>0
    <2>3. Unattended' \subseteq Unattended /\ j \notin Unattended'
      BY <2>1 DEF Unattended
    <2>4. TypeOK'
      BY <1>0, <2>1, <2>2 DEF TypeOK
    <2>5. HandInv'
      BY <1>0, <2>1, <2>3 DEF HandInv, Unattended
    <2>6. GuardInv' /\ PastInv' /\ AheadInv' /\ NoSlotPassedOver'
      BY <1>0, <2>1, <2>3 DEF GuardInv, PastInv, AheadInv, NoSlotPassedOver
    <2>. QED BY <2>4, <2>5, <2>6 DEF IInv
  <1>2. CASE RunNowEnds(j)
    <2>1. PICK n \in DOMAIN hands[j] : /\ MarkRan(j, hands[j][n]) \/ MarkRan(j, now)
                                       /\ hands' = [hands EXCEPT ![j] = RemoveAt(@, n)]
      BY <1>2 DEF RunNowEnds
    <2>2. UNCHANGED <<now, inflight, ticks, restarts, byHand, fired, since>>
      BY <1>2 DEF RunNowEnds
    <2>3. n \in 1..Len(hands[j]) /\ hands[j][n] \in Minutes /\ j \notin Unattended
      BY <1>0, <2>1 DEF HandInv
    <2>4. RemoveAt(hands[j], n) \in Seq(Minutes)
      BY <1>0, <2>3, Removed
    <2>5. /\ job' \in [Jobs -> Job]
          /\ \A i \in Jobs \ {j} : /\ job'[i].status = job[i].status /\ job'[i].cron = job[i].cron
                                   /\ job'[i].next = job[i].next
      <3>1. CASE MarkRan(j, now)
        BY <1>0, <3>1, Marked
      <3>2. CASE MarkRan(j, hands[j][n])
        BY <1>0, <2>3, <3>2, Marked
      <3>. QED BY <2>1, <3>1, <3>2
    <2>6. TypeOK'
      BY <1>0, <2>1, <2>2, <2>4, <2>5 DEF TypeOK
    <2>7. Unattended' = Unattended /\ Unattended \subseteq Jobs \ {j}
      BY <2>2, <2>3 DEF Unattended
    <2>8. HandInv' /\ GuardInv' /\ PastInv'
      BY <1>0, <2>1, <2>2, <2>7 DEF HandInv, GuardInv, PastInv
    <2>9. AheadInv' /\ NoSlotPassedOver'
      BY <1>0, <2>2, <2>5, <2>7 DEF AheadInv, NoSlotPassedOver
    <2>. QED BY <2>6, <2>8, <2>9 DEF IInv
  <1>. QED BY <1>1, <1>2

\* An edit computes the next run from now, so past every fired slot.
LEMMA SaveKeeps ==
  ASSUME IInv, NEW j \in Jobs, NEW s \in {"enabled", "disabled"}, NEW c \in Crons, Save(j, s, c)
  PROVE  IInv'
  <1>0. /\ TypeOK /\ GuardInv /\ HandInv /\ PastInv /\ AheadInv /\ NoSlotPassedOver
        /\ now \in Minutes /\ Minutes \subseteq Nat /\ None \notin Minutes
        /\ fired \in [Jobs -> SUBSET Minutes] /\ since \in [Jobs -> Minutes] /\ job \in [Jobs -> Job]
        /\ ticks \in [Jobs -> Seq(Minutes)] /\ c \in SUBSET Minutes
    BY Bounds DEF IInv, TypeOK, Minutes
  <1> DEFINE e == IF s = "enabled" THEN NextRun(c, now) ELSE None
  <1>1. /\ job' = [job EXCEPT ![j] = [status |-> s, cron |-> c, next |-> e]]
        /\ since' = [since EXCEPT ![j] = now]
        /\ UNCHANGED <<now, inflight, ticks, hands, restarts, byHand, fired>>
    BY DEF Save
  <1>2. /\ e \in Minutes \cup {None}
        /\ s = "disabled" => e = None
        /\ s = "enabled" /\ e # None => e > now
        /\ s = "enabled" => \A m \in c : m > now => e # None /\ e <= m
    <2>1. CASE s = "enabled"
      <3>1. e = NextRun(c, now)
        BY <2>1
      <3>2. \/ e = None /\ \A m \in c : m <= now
            \/ e \in c /\ e > now /\ \A m \in c : m > now => e <= m
        <4> HIDE DEF e
        <4>. QED BY <1>0, <3>1, NextRunIs
      <3>3. \A m \in c : m \in Nat
        BY <1>0, Typed
      <3> HIDE DEF e
      <3>4. now \in Nat
        BY <1>0, Typed
      <3>5. CASE e = None
        <4>1. \A m \in c : ~(m > now)
          <5>1. e \notin c
            BY <1>0, <3>5
          <5>. QED BY <3>2, <3>3, <3>4, <5>1
        <4>. QED BY <2>1, <3>5, <4>1
      <3>6. CASE e # None
        BY <1>0, <2>1, <3>2, <3>6
      <3>. QED BY <3>5, <3>6
    <2>2. CASE s = "disabled"
      BY <2>2
    <2>. QED BY <2>1, <2>2
  <1> HIDE DEF e
  <1>3. /\ job'[j].status = s /\ job'[j].cron = c /\ job'[j].next = e
        /\ \A i \in Jobs \ {j} : job'[i] = job[i] /\ since'[i] = since[i]
        /\ since'[j] = now
    BY <1>0, <1>1
  <1>4. TypeOK'
    <2>1. [status |-> s, cron |-> c, next |-> e] \in Job
      BY <1>2 DEF Job
    <2>. QED BY <1>0, <1>1, <2>1 DEF TypeOK
  <1>5. GuardInv' /\ HandInv'
    BY <1>0, <1>1 DEF GuardInv, HandInv, Unattended
  <1>6. PastInv'
    <2> SUFFICES ASSUME NEW i \in Jobs
                 PROVE  /\ since'[i] <= now'
                        /\ \A m \in fired'[i] : m <= now'
                        /\ ticks'[i] # <<>> =>
                             ticks'[i][1] <= since'[i] /\ \A m \in fired'[i] : m <= ticks'[i][1]
      BY DEF PastInv
    <2>1. since[i] <= now /\ since[i] \in Nat /\ now \in Nat
      BY <1>0, Typed DEF PastInv
    <2>2. since'[i] = since[i] \/ since'[i] = now
      BY <1>3
    <2>3. since[i] <= since'[i] /\ since'[i] <= now
      BY <2>1, <2>2
    <2>4. ticks[i] # <<>> => ticks[i][1] <= since[i] /\ ticks[i][1] \in Nat
      BY <1>0, Typed DEF PastInv
    <2>5. ticks[i] # <<>> => ticks[i][1] <= since'[i]
      BY <2>1, <2>2, <2>3, <2>4
    <2>. QED BY <1>0, <1>1, <2>3, <2>5 DEF PastInv
  <1>7. AheadInv'
    BY <1>0, <1>1, <1>2, <1>3 DEF AheadInv, PastInv, Unattended
  <1>8. NoSlotPassedOver'
    BY <1>0, <1>1, <1>2, <1>3 DEF NoSlotPassedOver, Unattended
  <1>. QED BY <1>4, <1>5, <1>6, <1>7, <1>8 DEF IInv

\* Removal, the clock and a restart of the core.
LEMMA OthersKeep == ASSUME IInv, (\E j \in Jobs : Delete(j)) \/ Clock \/ CoreRestart PROVE IInv'
  <1>0. /\ TypeOK /\ GuardInv /\ HandInv /\ PastInv /\ AheadInv /\ NoSlotPassedOver
        /\ now \in Minutes /\ Minutes \subseteq Nat /\ None \notin Minutes /\ Horizon \in Nat
        /\ fired \in [Jobs -> SUBSET Minutes] /\ since \in [Jobs -> Minutes] /\ job \in [Jobs -> Job]
        /\ ticks \in [Jobs -> Seq(Minutes)] /\ MaxRestarts \in Nat
    BY Bounds DEF IInv, TypeOK, Minutes
  <1>1. ASSUME NEW j \in Jobs, Delete(j) PROVE IInv'
    <2>1. /\ job' = [job EXCEPT ![j].status = "removed"]
          /\ UNCHANGED <<now, inflight, ticks, hands, restarts, byHand, fired, since>>
      BY <1>1 DEF Delete
    <2>2. /\ job' \in [Jobs -> Job] /\ job'[j].status = "removed"
          /\ \A i \in Jobs \ {j} : job'[i] = job[i]
      BY <1>0, <2>1 DEF Job
    <2>. QED BY <1>0, <2>1, <2>2 DEF IInv, TypeOK, GuardInv, HandInv, PastInv, AheadInv, NoSlotPassedOver, Unattended
  <1>2. CASE Clock
    <2>1. now < Horizon /\ now' = now + 1 /\ UNCHANGED <<job, inflight, ticks, hands, restarts, byHand, fired, since>>
      BY <1>2 DEF Clock
    <2>2. now' \in Minutes
      BY <1>0, <2>1 DEF Minutes
    <2>3. PastInv'
      <3>1. \A j \in Jobs : since[j] \in Nat /\ \A m \in fired[j] : m \in Nat
        BY <1>0
      <3>. QED BY <1>0, <2>1, <3>1 DEF PastInv
    <2>. QED BY <1>0, <2>1, <2>2, <2>3 DEF IInv, TypeOK, GuardInv, HandInv, AheadInv, NoSlotPassedOver, Unattended
  <1>3. CASE CoreRestart
    <2>1. /\ restarts < MaxRestarts /\ restarts' = restarts + 1 /\ inflight' = {}
          /\ ticks' = [j \in Jobs |-> <<>>] /\ hands' = [j \in Jobs |-> <<>>]
          /\ fired' = [j \in Jobs |-> IF ticks[j] = <<>> THEN fired[j] ELSE fired[j] \ {job[j].next}]
          /\ UNCHANGED <<now, job, byHand, since>>
      BY <1>3 DEF CoreRestart
    <2>2. TypeOK'
      BY <1>0, <2>1 DEF IInv, TypeOK
    <2>3. GuardInv' /\ HandInv'
      BY <2>1 DEF GuardInv, HandInv, Unattended
    <2>4. PastInv' /\ NoSlotPassedOver'
      BY <1>0, <2>1 DEF PastInv, NoSlotPassedOver, Unattended
    <2>5. AheadInv'
      BY <1>0, <2>1 DEF AheadInv, Unattended
    <2>. QED BY <2>2, <2>3, <2>4, <2>5 DEF IInv
  <1>. QED BY <1>1, <1>2, <1>3

\* Every step of the scheduler and of its callers preserves the invariant.
LEMMA Inductive == IInv /\ [Next]_vars => IInv'
  <1> SUFFICES ASSUME IInv, [Next]_vars PROVE IInv'
    OBVIOUS
  <1>1. CASE UNCHANGED vars
    BY <1>1 DEF vars, IInv, TypeOK, GuardInv, HandInv, PastInv, AheadInv, NoSlotPassedOver, Unattended
  <1>2. ASSUME NEW j \in Jobs, NEW s \in {"enabled", "disabled"}, NEW c \in Crons,
               Create(j, s, c) \/ Update(j, s, c)
        PROVE  IInv'
    BY <1>2, SaveKeeps DEF Create, Update
  <1>. QED BY <1>1, <1>2, TickKeeps, TickRunEndsKeeps, HandsKeep, OthersKeep DEF Next

\* It holds throughout.
LEMMA Invariance == Spec => []IInv
  BY Initially, Inductive, PTL DEF Spec

---------------------------------------------------------------------------
\* Every variable keeps its type; only an enabled job waits for a minute.
THEOREM TypeCorrect == Spec => []TypeOK
  <1>1. IInv => TypeOK
    BY DEF IInv
  <1>. QED BY <1>1, Invariance, PTL

\* "a slow job never overlaps itself", for any number of jobs and however long they run.
THEOREM NoOverlap == Spec => []NeverOverlapsItself
  <1>1. IInv => NeverOverlapsItself
    <2> SUFFICES ASSUME IInv, NEW j \in Unattended PROVE Len(ticks[j]) + Len(hands[j]) <= 1
      BY DEF NeverOverlapsItself
    <2>1. Len(ticks[j]) <= 1 /\ Len(ticks[j]) \in Nat /\ hands[j] = <<>>
      BY DEF IInv, TypeOK, GuardInv, HandInv, Unattended
    <2>. QED BY <2>1
  <1>. QED BY <1>1, Invariance, PTL

\* No slot is passed over, however long the run before it took.
THEOREM NothingPassedOver == Spec => []NoSlotPassedOver
  <1>1. IInv => NoSlotPassedOver
    BY DEF IInv
  <1>. QED BY <1>1, Invariance, PTL

\* A slot is fired once, whatever edits arrive during its run.
THEOREM FiredOnce == Spec => SlotFiredOnce
  <1>1. IInv /\ [Next]_vars => [\A j \in Unattended : ~FiresAgain(j)]_vars
    <2> SUFFICES ASSUME IInv, [Next]_vars, NEW j \in Unattended,
                        Len(ticks'[j]) > Len(ticks[j]), job[j].next \in fired[j]
                 PROVE  FALSE
      BY DEF FiresAgain
    <2>0. /\ ticks \in [Jobs -> Seq(Minutes)] /\ j \in Jobs /\ Len(ticks[j]) \in Nat
          /\ GuardInv /\ AheadInv
      BY DEF IInv, TypeOK, Unattended
    <2>1. Tick
      <3>1. CASE UNCHANGED vars \/ Clock \/ \E i \in Jobs : RunNow(i) \/ RunNowEnds(i) \/ Delete(i)
                 \/ \E s \in {"enabled", "disabled"}, c \in Crons : Create(i, s, c) \/ Update(i, s, c)
        BY <2>0, <3>1 DEF vars, Clock, RunNow, RunNowEnds, Delete, Create, Update, Save
      <3>2. CASE CoreRestart
        BY <2>0, <3>2 DEF CoreRestart
      <3>3. ASSUME NEW i \in Jobs, TickRunEnds(i) PROVE FALSE
        <4>1. PICK n \in DOMAIN ticks[i] : ticks' = [ticks EXCEPT ![i] = RemoveAt(@, n)]
          BY <3>3 DEF TickRunEnds
        <4>2. n \in 1..Len(ticks[i])
          BY <2>0, <4>1
        <4>3. Len(RemoveAt(ticks[i], n)) = Len(ticks[i]) - 1
          BY <2>0, <4>2, Removed
        <4>. QED BY <2>0, <4>1, <4>3
      <3>. QED BY <3>1, <3>2, <3>3 DEF Next
    <2>2. Due(j) /\ ~Guarded(j)
      BY <2>0, <2>1 DEF Tick
    <2>3. ticks[j] = <<>>
      BY <2>0, <2>2 DEF GuardInv, Guarded
    <2>. QED BY <2>0, <2>2, <2>3 DEF AheadInv, Due
  <1>. QED BY <1>1, Invariance, PTL DEF Spec, SlotFiredOnce

=============================================================================

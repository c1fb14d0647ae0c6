----------------------------- MODULE Supervisor -----------------------------
(***************************************************************************)
(* The connector manager (connectors/manager): the instance registry, the   *)
(* requests of its API, and the supervisor that keeps one OS process per    *)
(* enabled instance, restarts it after a crash, and reaps every child       *)
(* before the manager exits.                                               *)
(*                                                                         *)
(* A child's exit is one event: the handler spawnInstance() installed runs  *)
(* first, then the listeners that stops and restarts added to it, in the    *)
(* order in which they were added.  They run one after another (Hears), and *)
(* nothing else of the manager runs before the last of them has.            *)
(***************************************************************************)
EXTENDS Integers, Sequences, FiniteSets
LOCAL INSTANCE TLC

CONSTANTS
  Instances,    \* ids of connector instances
  Configs,      \* configurations an instance may be given
  MaxRestarts,  \* MAX_RESTARTS
  MaxProcs,     \* bound: processes of one instance alive at once
  MaxTimers,    \* bound: backoff timers of one instance pending at once
  MaxListeners, \* bound: exit listeners one child has
  None          \* no such process

Slots == 1..MaxProcs

\* Exit listeners: a restart's is the configuration it spawns; a stop's and
\* stopAll's are these two.
Stopped == "stop"
StoppedAll == "stopAll"
Listeners == Configs \cup {Stopped, StoppedAll}

ASSUME Bounds ==
  /\ MaxRestarts \in Nat \ {0}
  /\ MaxTimers \in Nat \ {0}
  /\ MaxListeners \in Nat \ {0}
  /\ MaxProcs \in Nat \ {0}
  /\ IsFiniteSet(Instances)
  /\ Configs \cap {Stopped, StoppedAll} = {}

VARIABLES
  registry,   \* instances table: whether each instance is there and enabled
  config,     \* its configuration there
  rec,        \* procs: the supervisor's record of each instance
  proc,       \* the OS processes
  hearing,    \* the listeners of a child's exit still to be called
  timers,     \* backoff timers pending
  manager,    \* is the manager up, reaping its children, or down
  remaining,  \* stopAll: the stops it still waits for
  crossed     \* history: did a stop ever arrive while a restart of the instance waited?

vars == <<registry, config, rec, proc, hearing, timers, manager, remaining, crossed>>

\* restartTimes is counted: only how many lie in the window matters.
Record == [status : {"none", "running", "stopped", "restarting", "failed"},
           child : Slots \cup {None}, intentionalStop : BOOLEAN,
           instance : Configs \cup {None}, restartTimes : 0..MaxRestarts]

NoRecord == [status |-> "none", child |-> None, intentionalStop |-> FALSE,
             instance |-> None, restartTimes |-> 0]

\* ours: a child of the present manager process.
Process == [config : Configs, onExit : Seq(Listeners), ours : BOOLEAN]

ASSUME NoneIsNothing ==
  /\ None \notin Slots
  /\ None \notin Configs
  /\ None \notin Process

TypeOK ==
  /\ registry \in [Instances -> {"absent", "enabled", "disabled", "deleted"}]
  /\ config \in [Instances -> Configs \cup {None}]
  /\ rec \in [Instances -> Record]
  /\ proc \in [Instances -> [Slots -> Process \cup {None}]]
  /\ hearing \in [Instances -> Seq(Listeners)]
  /\ timers \in [Instances -> 0..MaxTimers]
  /\ manager \in {"up", "stopping", "down"}
  /\ remaining \in 0..Cardinality(Instances)
  /\ crossed \in [Instances -> BOOLEAN]

Init ==
  /\ registry = [i \in Instances |-> "absent"]
  /\ config = [i \in Instances |-> None]
  /\ rec = [i \in Instances |-> NoRecord]
  /\ proc = [i \in Instances |-> [p \in Slots |-> None]]
  /\ hearing = [i \in Instances |-> <<>>]
  /\ timers = [i \in Instances |-> 0]
  /\ manager = "up"
  /\ remaining = 0
  /\ crossed = [i \in Instances |-> FALSE]

Live(i) == {p \in Slots : proc[i][p] # None}

\* No exit is being announced: the manager is open for the next event.
Quiet == \A i \in Instances : hearing[i] = <<>>

\* Bounds: a request on an instance needs a free slot and room for a listener.
Room(i) ==
  /\ Live(i) # Slots
  /\ \A p \in Live(i) : Len(proc[i][p].onExit) < MaxListeners

\* Bound: a listener or a timer that spawns needs a free slot.
RoomToSpawn(i) == rec[i].status = "running" \/ Live(i) # Slots

---------------------------------------------------------------------------
(* The supervisor's operations on one instance, as functions of its record  *)
(* r and its processes ps.  Suffixed definitions carry one mistake.         *)

State(r, ps) == [rec |-> r, proc |-> ps]
FreeSlot(ps) == CHOOSE p \in DOMAIN ps : ps[p] = None

Spawned_Always(s, c) ==
  LET p == FreeSlot(s.proc) IN
  State([s.rec EXCEPT !.status = "running", !.child = p, !.instance = c],
        [s.proc EXCEPT ![p] = [config |-> c, onExit |-> <<>>, ours |-> TRUE]])

\* spawnInstance: nothing if the record says running.
Spawned(s, c) ==
  LET p == FreeSlot(s.proc) IN
  IF s.rec.status = "running" THEN s
  ELSE State([s.rec EXCEPT !.status = "running", !.child = p, !.instance = c],
             [s.proc EXCEPT ![p] = [config |-> c, onExit |-> <<>>, ours |-> TRUE]])

\* killChild: SIGTERM, SIGKILL after the grace, and a listener for the exit.
Killed(s, listener) ==
  State([s.rec EXCEPT !.intentionalStop = TRUE],
        [s.proc EXCEPT ![s.rec.child].onExit = Append(@, listener)])

\* restartInstance: respawn once the child is gone, at once if there is none.
Restarted(s, c) == IF s.rec.child # None THEN Killed(s, c) ELSE Spawned(s, c)

\* stopInstance: an instance without a child is only marked stopped; its record keeps
\* intentionalStop as it was, and its backoff timer.
StopNow(s, listener) ==
  IF s.rec.child # None THEN Killed(s, listener)
  ELSE IF s.rec.status = "none" THEN s
  ELSE State([s.rec EXCEPT !.status = "stopped"], s.proc)

\* One exit listener.
Heard(s, listener) ==
  IF listener \in Configs
  THEN Spawned(State([s.rec EXCEPT !.intentionalStop = FALSE, !.restartTimes = 0], s.proc), listener)
  ELSE State([s.rec EXCEPT !.status = "stopped"], s.proc)

\* The handler spawnInstance() installed; the child is already gone from ps.
Reaped_OffByOne(r) ==
  IF r.intentionalStop THEN [r EXCEPT !.child = None, !.status = "stopped"]
  ELSE IF r.restartTimes > MaxRestarts THEN [r EXCEPT !.child = None, !.status = "failed"]
  ELSE [r EXCEPT !.child = None, !.status = "restarting", !.restartTimes = @ + 1]

Reaped_KeepsStatus(r) ==
  IF r.intentionalStop THEN [r EXCEPT !.child = None]
  ELSE IF r.restartTimes >= MaxRestarts THEN [r EXCEPT !.child = None, !.status = "failed"]
  ELSE [r EXCEPT !.child = None, !.status = "restarting", !.restartTimes = @ + 1]

Reaped(r) ==
  IF r.intentionalStop THEN [r EXCEPT !.child = None, !.status = "stopped"]
  ELSE IF r.restartTimes >= MaxRestarts THEN [r EXCEPT !.child = None, !.status = "failed"]
  ELSE [r EXCEPT !.child = None, !.status = "restarting", !.restartTimes = @ + 1]

\* What instance i becomes.
Becomes(i, s) ==
  /\ rec' = [rec EXCEPT ![i] = s.rec]
  /\ proc' = [proc EXCEPT ![i] = s.proc]

Now(i) == State(rec[i], proc[i])

---------------------------------------------------------------------------
(* The API.                                                                 *)

Has(listeners, kind) == \E n \in DOMAIN listeners : listeners[n] \in kind

RestartPending(i) ==
  Has(hearing[i], Configs) \/ \E p \in Live(i) : Has(proc[i][p].onExit, Configs)

\* Bound: a stop needs room for a listener, and nothing else: the code does not ask
\* whether a restart waits.
Stoppable(i) == \A p \in Live(i) : Len(proc[i][p].onExit) < MaxListeners

\* A stop reaches the instances of S: history only.
StopReaches(S) ==
  crossed' = [i \in Instances |-> crossed[i] \/ (i \in S /\ RestartPending(i))]

Known(i) == registry[i] \in {"enabled", "disabled"}

Create(i, c, enabled) ==
  /\ registry[i] = "absent"
  /\ Room(i)
  /\ registry' = [registry EXCEPT ![i] = IF enabled THEN "enabled" ELSE "disabled"]
  /\ config' = [config EXCEPT ![i] = c]
  /\ Becomes(i, IF enabled THEN Spawned(Now(i), c) ELSE Now(i))
  /\ UNCHANGED <<hearing, timers, manager, remaining, crossed>>

PatchOn(i, c) ==
  /\ Known(i)
  /\ Room(i)
  /\ registry' = [registry EXCEPT ![i] = "enabled"]
  /\ config' = [config EXCEPT ![i] = c]
  /\ Becomes(i, Restarted(Now(i), c))
  /\ UNCHANGED <<hearing, timers, manager, remaining, crossed>>

PatchOff(i, c) ==
  /\ Known(i)
  /\ Stoppable(i)
  /\ registry' = [registry EXCEPT ![i] = "disabled"]
  /\ config' = [config EXCEPT ![i] = c]
  /\ Becomes(i, StopNow(Now(i), Stopped))
  /\ StopReaches({i})
  /\ UNCHANGED <<hearing, timers, manager, remaining>>

Start(i) ==
  /\ Known(i)
  /\ Room(i)
  /\ registry' = [registry EXCEPT ![i] = "enabled"]
  /\ Becomes(i, Spawned(Now(i), config[i]))
  /\ UNCHANGED <<config, hearing, timers, manager, remaining, crossed>>

Stop(i) ==
  /\ Known(i)
  /\ Stoppable(i)
  /\ registry' = [registry EXCEPT ![i] = "disabled"]
  /\ Becomes(i, StopNow(Now(i), Stopped))
  /\ StopReaches({i})
  /\ UNCHANGED <<config, hearing, timers, manager, remaining>>

\* Restart asks for no enabled instance and enables none.
Restart(i) ==
  /\ Known(i)
  /\ Room(i)
  /\ Becomes(i, Restarted(Now(i), config[i]))
  /\ UNCHANGED <<registry, config, hearing, timers, manager, remaining, crossed>>

\* Delete does not ask whether the instance is there; its record stays either way.
Delete(i) ==
  /\ registry[i] # "absent"
  /\ Stoppable(i)
  /\ registry' = [registry EXCEPT ![i] = "deleted"]
  /\ Becomes(i, StopNow(Now(i), Stopped))
  /\ StopReaches({i})
  /\ UNCHANGED <<config, hearing, timers, manager, remaining>>

---------------------------------------------------------------------------
(* What happens to the children, and the backoff.                           *)

Orphaned(ps) == [p \in Slots |-> IF ps[p] = None THEN None ELSE [ps[p] EXCEPT !.ours = FALSE, !.onExit = <<>>]]

\* process.exit: the records, the timers and the listeners are gone, the live children
\* are not.
ManagerExits ==
  /\ manager' = "down"
  /\ proc' = [i \in Instances |-> Orphaned(proc[i])]
  /\ hearing' = [i \in Instances |-> <<>>]
  /\ timers' = [i \in Instances |-> 0]
  /\ rec' = [i \in Instances |-> NoRecord]
  /\ remaining' = 0
  /\ crossed' = [i \in Instances |-> FALSE]

WillBackOff(i) == ~rec[i].intentionalStop /\ rec[i].restartTimes < MaxRestarts

\* A child exits, killed or on its own: the handler runs, the listeners are next.
ChildExits(i, p) ==
  /\ Quiet
  /\ p \in Live(i)
  /\ proc[i][p].ours
  /\ WillBackOff(i) => timers[i] < MaxTimers
  /\ Becomes(i, State(Reaped(rec[i]), [proc[i] EXCEPT ![p] = None]))
  /\ hearing' = [hearing EXCEPT ![i] = proc[i][p].onExit]
  /\ timers' = [timers EXCEPT ![i] = IF WillBackOff(i) THEN @ + 1 ELSE @]
  /\ UNCHANGED <<registry, config, manager, remaining, crossed>>

LastStop_First(listener) == listener = StoppedAll

\* one() of stopAll: the stop it was called for was the last it waited for.
LastStop(listener) == listener = StoppedAll /\ remaining = 1

\* The next listener is called; the last of stopAll's ends the manager on the spot.
Hears(i) ==
  LET listener == Head(hearing[i]) IN
  /\ hearing[i] # <<>>
  /\ IF LastStop(listener)
     THEN ManagerExits
     ELSE /\ listener \in Configs => RoomToSpawn(i)
          /\ Becomes(i, Heard(Now(i), listener))
          /\ hearing' = [hearing EXCEPT ![i] = Tail(@)]
          /\ remaining' = IF listener = StoppedAll THEN remaining - 1 ELSE remaining
          /\ UNCHANGED <<timers, manager, crossed>>
  /\ UNCHANGED <<registry, config>>

\* A child of an earlier manager exits: nobody listens.
OrphanExits(i, p) ==
  /\ p \in Live(i)
  /\ ~proc[i][p].ours
  /\ proc' = [proc EXCEPT ![i][p] = None]
  /\ UNCHANGED <<registry, config, rec, hearing, timers, manager, remaining, crossed>>

BackoffFires(i) == IF rec[i].intentionalStop THEN Now(i) ELSE Spawned(Now(i), rec[i].instance)

Backoff(i) ==
  /\ Quiet
  /\ timers[i] > 0
  /\ ~rec[i].intentionalStop => RoomToSpawn(i)
  /\ timers' = [timers EXCEPT ![i] = @ - 1]
  /\ Becomes(i, BackoffFires(i))
  /\ UNCHANGED <<registry, config, hearing, manager, remaining, crossed>>

\* A crash leaves RESTART_WINDOW_MS.
Forgive(i) ==
  /\ Quiet
  /\ rec[i].restartTimes > 0
  /\ rec' = [rec EXCEPT ![i].restartTimes = @ - 1]
  /\ UNCHANGED <<registry, config, proc, hearing, timers, manager, remaining, crossed>>

---------------------------------------------------------------------------
(* The manager's own life.                                                  *)

\* gracefulShutdown: stop every known instance, exit once all have answered.  The
\* SIGKILL of killChild (3 s) comes before the safety net (4.5 s), which is left out.
Shutdown ==
  LET known == {i \in Instances : rec[i].status # "none"}
      waited == {i \in known : rec[i].child # None}
      s == [i \in Instances |-> StopNow(Now(i), StoppedAll)]
  IN /\ manager = "up"
     /\ Quiet
     /\ \A i \in Instances : Stoppable(i)
     /\ IF waited = {}
        THEN ManagerExits
        ELSE /\ manager' = "stopping"
             /\ remaining' = Cardinality(waited)
             /\ rec' = [i \in Instances |-> s[i].rec]
             /\ proc' = [i \in Instances |-> s[i].proc]
             /\ StopReaches(Instances)
             /\ UNCHANGED <<hearing, timers>>
     /\ UNCHANGED <<registry, config>>

Boot ==
  LET s == [i \in Instances |->
              IF registry[i] = "enabled" THEN Spawned(Now(i), config[i]) ELSE Now(i)]
  IN /\ manager = "down"
     /\ \A i \in Instances : Live(i) # Slots
     /\ manager' = "up"
     /\ rec' = [i \in Instances |-> s[i].rec]
     /\ proc' = [i \in Instances |-> s[i].proc]
     /\ UNCHANGED <<registry, config, hearing, timers, remaining, crossed>>

Request(i) ==
  /\ manager = "up"
  /\ Quiet
  /\ \/ \E c \in Configs : \/ \E b \in BOOLEAN : Create(i, c, b)
                           \/ PatchOn(i, c)
                           \/ PatchOff(i, c)
     \/ Start(i) \/ Stop(i) \/ Restart(i) \/ Delete(i)

Next ==
  \/ Shutdown
  \/ Boot
  \/ \E i \in Instances :
       \/ Request(i)
       \/ \E p \in Slots : ChildExits(i, p) \/ OrphanExits(i, p)
       \/ Hears(i)
       \/ Backoff(i)
       \/ Forgive(i)

Spec == Init /\ [][Next]_vars

\* Instances differ in name only: for SYMMETRY in the configurations.
Renamings == Permutations(Instances)

---------------------------------------------------------------------------
(* Properties.                                                              *)

Children(i) == {p \in Live(i) : proc[i][p].ours}

\* What GET /instances reports is what the host runs: an instance marked running has
\* its child on record alive, whatever came; and unless a stop ever crossed a restart of
\* it, that child is its only one, and an instance not marked running has none.
RecordMatchesHost ==
  \A i \in Instances :
    /\ rec[i].status = "running" => rec[i].child \in Children(i)
    /\ ~crossed[i] => Children(i) = IF rec[i].status = "running" THEN {rec[i].child} ELSE {}

\* "One OS process per ENABLED instance": never two of them.
OneProcess == \A i \in Instances : Cardinality(Live(i)) <= 1

\* "Restarts on crash with backoff": an enabled instance whose child dies although
\* nobody asked for it is restarted, or given up after too many crashes.
CrashBacksOff ==
  [][\A i \in Instances :
       (/\ manager = "up" /\ manager' = "up"
        /\ registry[i] = "enabled"
        /\ rec[i].child # None
        /\ proc[i][rec[i].child].onExit = <<>>
        /\ proc'[i][rec[i].child] = None)
       => rec'[i].status \in {"restarting", "failed"}]_vars

\* A restart is never lost: what ends its wait for the old child is a new one, which
\* nobody has asked to stop.
RestartHandsOver ==
  [][\A i \in Instances : (RestartPending(i) /\ ~RestartPending(i)' /\ manager' # "down") =>
       (\E p \in Children(i) : proc[i][p].onExit = <<>>)']_vars

\* "invoke cb once they've ALL exited": a shutdown ends the manager only when every child
\* that stopAll told to stop is gone.
ReapsBeforeExit ==
  [][(manager = "stopping" /\ manager' = "down") =>
       \A i \in Instances : \A p \in Children(i) : ~Has(proc[i][p].onExit, {StoppedAll})]_vars
=============================================================================

-------------------------- MODULE SupervisorProofs --------------------------
(* Proofs about Supervisor, for every set of instances and configurations    *)
(* and every bound, and for every order in which requests, exits, timers and *)
(* shutdowns may come.                                                      *)
EXTENDS Supervisor, TLAPS, SequenceTheorems, FiniteSetTheorems

---------------------------------------------------------------------------
(* The inductive invariant.  s is an instance's record and processes, h the  *)
(* listeners of its exit still to be called.  Sound holds whatever comes;   *)
(* Straight holds of an instance no stop has crossed a restart of.          *)

\* stopAll's listener comes once.
Single(h) == \A m, n \in DOMAIN h : h[m] = StoppedAll /\ h[n] = StoppedAll => m = n

\* Stops come before restarts.
Ordered(h) == \A m, n \in DOMAIN h : m < n /\ h[m] \in Configs => h[n] \in Configs

Kids(s) == {p \in Slots : s.proc[p] # None /\ s.proc[p].ours}

\* The processes whose exit stopAll waits for.
Told(s) == {p \in Slots : s.proc[p] # None /\ Has(s.proc[p].onExit, {StoppedAll})}

\* The child on record is alive.
Held(s) ==
  /\ s.rec.child # None => s.rec.child \in Kids(s)
  /\ s.rec.status = "running" => s.rec.child # None
  /\ Kids(s) # {} => s.rec.status # "none"

\* Orphans have no listeners, and stopAll waits for one process of an instance at most.
Listened(s, h) ==
  /\ Single(h)
  /\ \A p \in Slots : s.proc[p] # None =>
       Single(s.proc[p].onExit) /\ (s.proc[p].ours \/ s.proc[p].onExit = <<>>)
  /\ \A p, q \in Told(s) : p = q
  /\ Has(h, {StoppedAll}) => Told(s) = {}

\* A record that says running while an exit is announced is that of a child just spawned.
Hearing(s, h) ==
  h # <<>> =>
    /\ s.rec.status # "none"
    /\ s.rec.status = "running" => s.proc[s.rec.child].onExit = <<>>

Sound(s, h) ==
  /\ s \in [rec : Record, proc : [Slots -> Process \cup {None}]]
  /\ h \in Seq(Listeners)
  /\ Held(s)
  /\ Listened(s, h)
  /\ Hearing(s, h)
  /\ s.rec.status # "none" => s.rec.instance \in Configs

\* The record is the host's: its child is the one child there is; and once a restart has
\* been heard only restarts are left.
Straight(s, h) ==
  /\ s.rec.child # None => s.rec.status = "running"
  /\ \A p \in Kids(s) : p = s.rec.child
  /\ \A p \in Slots : s.proc[p] # None => Ordered(s.proc[p].onExit)
  /\ Ordered(h)
  /\ h # <<>> /\ s.rec.status = "running" => \A n \in DOMAIN h : h[n] \in Configs

Pending(s, h) ==
  Has(h, Configs) \/ \E p \in Slots : s.proc[p] # None /\ Has(s.proc[p].onExit, Configs)

Awaits(s, h) == Has(h, {StoppedAll}) \/ Told(s) # {}

Awaited == {i \in Instances : Awaits(Now(i), hearing[i])}

\* Nothing is left of a manager that is down.
PhaseInv ==
  /\ manager = "stopping" <=> remaining > 0
  /\ manager = "down" => \A i \in Instances : rec[i] = NoRecord /\ timers[i] = 0 /\ hearing[i] = <<>>

\* stopAll's counter is the number of instances whose child it still waits for.
CountInv == remaining = Cardinality(Awaited)

\* What a timer or a request spawns has a configuration.
ConfigInv ==
  \A i \in Instances :
    /\ timers[i] > 0 => rec[i].status # "none"
    /\ registry[i] # "absent" => config[i] \in Configs

\* A restart that waits still waits after the step.
Carried == \A i \in Instances : RestartPending(i) => RestartPending(i)'

IInv ==
  /\ TypeOK
  /\ \A i \in Instances : Sound(Now(i), hearing[i])
  /\ \A i \in Instances : ~crossed[i] => Straight(Now(i), hearing[i])
  /\ PhaseInv
  /\ CountInv
  /\ ConfigInv

---------------------------------------------------------------------------
(* Lists of listeners.                                                      *)

\* The three kinds of listeners are apart.
LEMMA Kinds == Stopped \notin Configs /\ StoppedAll \notin Configs /\ Stopped # StoppedAll /\ None \notin Configs
  BY Bounds, NoneIsNothing DEF Stopped, StoppedAll

LEMMA Empty ==
  /\ <<>> \in Seq(Listeners) /\ Ordered(<<>>) /\ Single(<<>>)
  /\ ~Has(<<>>, Configs) /\ ~Has(<<>>, {StoppedAll})
  BY EmptySeq DEF Ordered, Single, Has

\* Appending a restart keeps the order, and so does a stop when no restart waits.
LEMMA Appended ==
  ASSUME NEW s \in Seq(Listeners), NEW l \in Listeners
  PROVE  /\ Append(s, l) \in Seq(Listeners) /\ Append(s, l) # <<>>
         /\ Has(Append(s, l), Configs) <=> Has(s, Configs) \/ l \in Configs
         /\ Has(Append(s, l), {StoppedAll}) <=> Has(s, {StoppedAll}) \/ l = StoppedAll
         /\ Ordered(s) /\ (l \in Configs \/ ~Has(s, Configs)) => Ordered(Append(s, l))
         /\ Single(s) /\ (l = StoppedAll => ~Has(s, {StoppedAll})) => Single(Append(s, l))
  <1> DEFINE t == Append(s, l)
  <1>1. /\ t \in Seq(Listeners) /\ Len(s) \in Nat /\ DOMAIN s = 1..Len(s) /\ DOMAIN t = 1..Len(s) + 1
        /\ t[Len(s) + 1] = l /\ \A n \in 1..Len(s) : t[n] = s[n]
    OBVIOUS
  <1> HIDE DEF t
  <1>2. \A n \in DOMAIN t : n \in DOMAIN s \/ n = Len(s) + 1
    BY <1>1
  <1>3. Has(t, Configs) <=> Has(s, Configs) \/ l \in Configs
    BY <1>1, <1>2 DEF Has
  <1>4. Has(t, {StoppedAll}) <=> Has(s, {StoppedAll}) \/ l = StoppedAll
    BY <1>1, <1>2 DEF Has
  <1>5. ASSUME Ordered(s), l \in Configs \/ ~Has(s, Configs),
               NEW m \in DOMAIN t, NEW n \in DOMAIN t, m < n, t[m] \in Configs PROVE t[n] \in Configs
    <2>1. m \in DOMAIN s
      BY <1>1, <1>2, <1>5
    <2>2. CASE n \in DOMAIN s
      BY <1>1, <1>5, <2>1, <2>2 DEF Ordered
    <2>3. CASE n = Len(s) + 1
      BY <1>1, <1>5, <2>1, <2>3 DEF Has
    <2>. QED BY <1>2, <2>2, <2>3
  <1>6. ASSUME Single(s), l = StoppedAll => ~Has(s, {StoppedAll}),
               NEW m \in DOMAIN t, NEW n \in DOMAIN t, t[m] = StoppedAll, t[n] = StoppedAll PROVE m = n
    <2>1. CASE m \in DOMAIN s /\ n \in DOMAIN s
      BY <1>1, <1>6, <2>1 DEF Single
    <2>2. CASE ~(m \in DOMAIN s /\ n \in DOMAIN s)
      <3>1. l = StoppedAll
        BY <1>1, <1>2, <1>6, <2>2
      <3>2. \A k \in DOMAIN s : t[k] # StoppedAll
        BY <1>1, <1>6, <3>1 DEF Has
      <3>. QED BY <1>2, <1>6, <3>2
    <2>. QED BY <2>1, <2>2
  <1>7. t # <<>>
    BY <1>1
  <1>8. Ordered(s) /\ (l \in Configs \/ ~Has(s, Configs)) => Ordered(t)
    BY <1>5 DEF Ordered
  <1>9. Single(s) /\ (l = StoppedAll => ~Has(s, {StoppedAll})) => Single(t)
    BY <1>6 DEF Single
  <1>. QED BY <1>1, <1>3, <1>4, <1>7, <1>8, <1>9 DEF t

\* Taking the first listener keeps the order; behind a restart there are only restarts.
LEMMA Taken ==
  ASSUME NEW s \in Seq(Listeners), s # <<>>
  PROVE  /\ Head(s) \in Listeners /\ Tail(s) \in Seq(Listeners)
         /\ Has(s, Configs) <=> Has(Tail(s), Configs) \/ Head(s) \in Configs
         /\ Has(s, {StoppedAll}) <=> Has(Tail(s), {StoppedAll}) \/ Head(s) = StoppedAll
         /\ Single(s) => Single(Tail(s)) /\ (Head(s) = StoppedAll => ~Has(Tail(s), {StoppedAll}))
         /\ Ordered(s) => Ordered(Tail(s))
         /\ Ordered(s) /\ Head(s) \in Configs => \A n \in DOMAIN Tail(s) : Tail(s)[n] \in Configs
  <1> DEFINE t == Tail(s)
  <1>1. /\ t \in Seq(Listeners) /\ Len(s) \in Nat /\ DOMAIN s = 1..Len(s) /\ DOMAIN t = 1..Len(s) - 1
        /\ Len(s) >= 1
        /\ Head(s) = s[1] /\ Head(s) \in Listeners /\ \A n \in 1..Len(s) - 1 : t[n] = s[n + 1]
    OBVIOUS
  <1> HIDE DEF t
  <1>2. \A n \in DOMAIN s : n = 1 \/ (n - 1 \in DOMAIN t /\ s[n] = t[n - 1])
    <2> TAKE n \in DOMAIN s
    <2>1. CASE n # 1
      <3>1. n - 1 \in 1..Len(s) - 1 /\ (n - 1) + 1 = n
        BY <1>1, <2>1
      <3>. QED BY <1>1, <3>1
    <2>. QED BY <2>1
  <1>3. \A n \in DOMAIN t : n \in Nat /\ n + 1 \in DOMAIN s /\ t[n] = s[n + 1] /\ 1 < n + 1
    BY <1>1
  <1>4. 1 \in DOMAIN s
    BY <1>1
  <1>5. Has(s, Configs) <=> Has(t, Configs) \/ Head(s) \in Configs
    BY <1>1, <1>2, <1>3, <1>4 DEF Has
  <1>6. Has(s, {StoppedAll}) <=> Has(t, {StoppedAll}) \/ Head(s) = StoppedAll
    BY <1>1, <1>2, <1>3, <1>4 DEF Has
  <1>7. ASSUME Ordered(s), NEW m \in DOMAIN t, NEW n \in DOMAIN t, m < n, t[m] \in Configs PROVE t[n] \in Configs
    <2>1. m + 1 < n + 1
      BY <1>3, <1>7
    <2>. QED BY <1>3, <1>7, <2>1 DEF Ordered
  <1>8. ASSUME Single(s), NEW m \in DOMAIN t, NEW n \in DOMAIN t, t[m] = StoppedAll, t[n] = StoppedAll PROVE m = n
    <2>1. m + 1 = n + 1
      BY <1>3, <1>8 DEF Single
    <2>. QED BY <1>3, <2>1
  <1>9. ASSUME Single(s), NEW n \in DOMAIN t, Head(s) = StoppedAll, t[n] = StoppedAll PROVE FALSE
    <2>1. n + 1 = 1
      BY <1>1, <1>3, <1>4, <1>9 DEF Single
    <2>. QED BY <1>3, <2>1
  <1>10. ASSUME Ordered(s), NEW n \in DOMAIN t, Head(s) \in Configs PROVE t[n] \in Configs
    BY <1>1, <1>3, <1>4, <1>10 DEF Ordered
  <1>11. Ordered(s) => Ordered(t)
    BY <1>7 DEF Ordered
  <1>12. Single(s) => Single(t) /\ (Head(s) = StoppedAll => ~Has(t, {StoppedAll}))
    BY <1>8, <1>9 DEF Single, Has
  <1>. QED BY <1>1, <1>5, <1>6, <1>10, <1>11, <1>12 DEF t

---------------------------------------------------------------------------
(* The supervisor's operations on one instance.                             *)

\* A sound state is a state: the record's child is a process of this manager.
LEMMA ChildIs ==
  ASSUME NEW s, NEW h, Sound(s, h), s.rec.child # None
  PROVE  /\ s.rec.child \in Slots /\ s.proc[s.rec.child] # None
         /\ s.proc[s.rec.child].ours /\ s.proc[s.rec.child] \in Process
         /\ s.rec.child \in Kids(s) /\ s.rec.status # "none"
  <1>1. s.rec.child \in Kids(s)
    BY DEF Sound, Held
  <1>. QED BY <1>1 DEF Sound, Held, Kids

\* Where no stop has crossed a restart, an instance without a child on record has none.
LEMMA Childless ==
  ASSUME NEW s, NEW h, Sound(s, h), Straight(s, h), s.rec.status # "running"
  PROVE  s.rec.child = None /\ Kids(s) = {}
  <1>1. s.rec.child = None
    BY DEF Straight
  <1>. QED BY <1>1, NoneIsNothing DEF Straight, Kids

\* spawnInstance: a record that says running is left alone, any other gets a new child.
LEMMA SpawnedSound ==
  ASSUME NEW s, NEW h, Sound(s, h), NEW c \in Configs, NEW g, g \in Seq(Listeners), Single(g),
         Has(g, {StoppedAll}) => Has(h, {StoppedAll}),
         g # <<>> /\ s.rec.status = "running" => s.proc[s.rec.child].onExit = <<>>,
         s.rec.status # "running" => \E p \in Slots : s.proc[p] = None
  PROVE  /\ Sound(Spawned(s, c), g)
         /\ Spawned(s, c).rec.status = "running"
         /\ Pending(Spawned(s, c), g) <=> Pending(s, g)
         /\ Awaits(Spawned(s, c), g) <=> Awaits(s, g)
         /\ s.rec.status # "running" =>
              Spawned(s, c).proc[Spawned(s, c).rec.child].onExit = <<>>
         /\ s.rec.status = "running" => Spawned(s, c) = s
         /\ Straight(s, h) /\ Ordered(g) /\ (\A n \in DOMAIN g : g[n] \in Configs)
              => Straight(Spawned(s, c), g)
  <1> DEFINE p == FreeSlot(s.proc)
             k == [config |-> c, onExit |-> <<>>, ours |-> TRUE]
             t == Spawned(s, c)
  <1>0. s \in [rec : Record, proc : [Slots -> Process \cup {None}]] /\ None \notin Process
    BY NoneIsNothing DEF Sound
  <1>1. CASE s.rec.status = "running"
    <2>1. t = s
      BY <1>1 DEF Spawned
    <2>2. Listened(s, g) /\ Hearing(s, g)
      BY <1>1 DEF Sound, Listened, Hearing
    <2>3. Sound(s, g)
      BY <2>2 DEF Sound
    <2>4. Straight(s, h) /\ Ordered(g) /\ (\A n \in DOMAIN g : g[n] \in Configs) => Straight(s, g)
      BY DEF Straight
    <2>. QED BY <1>1, <2>1, <2>3, <2>4
  <1>2. CASE s.rec.status # "running"
    <2>1. p \in Slots /\ s.proc[p] = None
      BY <1>0, <1>2 DEF FreeSlot
    <2>2. t.rec = [s.rec EXCEPT !.status = "running", !.child = p, !.instance = c]
          /\ t.proc = [s.proc EXCEPT ![p] = k]
          /\ t \in [rec : {t.rec}, proc : {t.proc}]
      BY <1>2 DEF Spawned, State
    <2> HIDE DEF p, t
    <2>3. k \in Process /\ k # None /\ k.ours /\ k.onExit = <<>>
      <3>1. k \in Process
        BY EmptySeq DEF Process
      <3>. QED BY <1>0, <3>1
    <2> HIDE DEF k
    <2>4. /\ t.rec \in Record /\ t.rec.status = "running" /\ t.rec.child = p /\ t.rec.instance = c
          /\ t.proc \in [Slots -> Process \cup {None}]
      <3>1. s.rec \in Record
        BY <1>0
      <3>2. t.rec \in Record /\ t.rec.status = "running" /\ t.rec.child = p /\ t.rec.instance = c
        BY <2>1, <2>2, <3>1 DEF Record
      <3>. QED BY <1>0, <2>1, <2>2, <2>3, <3>2
    <2>5. t.proc[p] = k /\ \A q \in Slots : q # p => t.proc[q] = s.proc[q]
      BY <1>0, <2>1, <2>2
    <2>6. p \in Kids(t) /\ \A q \in Kids(t) : q = p \/ q \in Kids(s)
      BY <2>1, <2>3, <2>5 DEF Kids
    <2>7. Told(t) = Told(s)
      BY <2>1, <2>3, <2>5, Empty DEF Told
    <2>8. Held(t)
      BY <2>1, <2>4, <2>6, NoneIsNothing DEF Held
    <2>9. Listened(t, g)
      BY <2>3, <2>5, <2>7, Empty DEF Listened, Sound
    <2>10. Hearing(t, g)
      BY <2>3, <2>4, <2>5 DEF Hearing
    <2>11. Sound(t, g)
      BY <2>2, <2>4, <2>8, <2>9, <2>10 DEF Sound
    <2>12. Pending(t, g) <=> Pending(s, g)
      BY <2>1, <2>3, <2>5, Empty DEF Pending
    <2>13. Awaits(t, g) <=> Awaits(s, g)
      BY <2>7 DEF Awaits
    <2>14. ASSUME Straight(s, h), Ordered(g), \A n \in DOMAIN g : g[n] \in Configs PROVE Straight(t, g)
      <3>1. Kids(s) = {}
        BY <1>2, <2>14, Childless
      <3>2. \A q \in Slots : t.proc[q] # None => Ordered(t.proc[q].onExit)
        BY <2>3, <2>5, <2>14, Empty DEF Straight
      <3>. QED BY <2>4, <2>6, <2>14, <3>1, <3>2 DEF Straight
    <2>. QED BY <1>2, <2>3, <2>4, <2>5, <2>11, <2>12, <2>13, <2>14 DEF t
  <1>. QED BY <1>1, <1>2

\* spawnInstance outside of an exit.
LEMMA SpawnedAlone ==
  ASSUME NEW s, Sound(s, <<>>), NEW c \in Configs, s.rec.status # "running" => \E p \in Slots : s.proc[p] = None
  PROVE  /\ Sound(Spawned(s, c), <<>>)
         /\ Spawned(s, c).rec.status # "none"
         /\ Pending(Spawned(s, c), <<>>) <=> Pending(s, <<>>)
         /\ Awaits(Spawned(s, c), <<>>) <=> Awaits(s, <<>>)
         /\ Straight(s, <<>>) => Straight(Spawned(s, c), <<>>)
  <1> DEFINE g == <<>>
  <1>1. g \in Seq(Listeners) /\ Single(g) /\ Ordered(g) /\ g = <<>>
    BY Empty
  <1>2. \A n \in DOMAIN g : g[n] \in Configs
    OBVIOUS
  <1> HIDE DEF g
  <1>3. /\ Sound(Spawned(s, c), g) /\ Spawned(s, c).rec.status = "running"
        /\ Pending(Spawned(s, c), g) <=> Pending(s, g)
        /\ Awaits(Spawned(s, c), g) <=> Awaits(s, g)
        /\ Straight(s, g) => Straight(Spawned(s, c), g)
    BY <1>1, <1>2, SpawnedSound
  <1>. QED BY <1>1, <1>3

\* A change of the record that leaves its child alone and makes nothing running.
LEMMA Touched ==
  ASSUME NEW s, NEW h, Sound(s, h), NEW r \in Record, r.child = s.rec.child,
         r.status = "running" => s.rec.status = "running",
         r.status # "none" <=> s.rec.status # "none", r.status # "none" => r.instance \in Configs
  PROVE  /\ Sound(State(r, s.proc), h)
         /\ State(r, s.proc).rec = r /\ State(r, s.proc).proc = s.proc
         /\ Pending(State(r, s.proc), h) <=> Pending(s, h)
         /\ Awaits(State(r, s.proc), h) <=> Awaits(s, h)
         /\ Kids(State(r, s.proc)) = Kids(s)
         /\ Straight(s, h) /\ (s.rec.status = "running" => r.status = "running")
              => Straight(State(r, s.proc), h)
  <1> DEFINE t == State(r, s.proc)
  <1>1. t.rec = r /\ t.proc = s.proc /\ t \in [rec : {r}, proc : {s.proc}]
    BY DEF State
  <1> HIDE DEF t
  <1>2. t \in [rec : Record, proc : [Slots -> Process \cup {None}]]
    BY <1>1 DEF Sound
  <1>3. Kids(t) = Kids(s) /\ Told(t) = Told(s)
    BY <1>1 DEF Kids, Told
  <1>4. (Listened(t, h) <=> Listened(s, h)) /\ (Pending(t, h) <=> Pending(s, h)) /\ (Awaits(t, h) <=> Awaits(s, h))
    BY <1>1, <1>3 DEF Listened, Pending, Awaits
  <1>5. Held(t)
    BY <1>1, <1>3 DEF Held, Sound
  <1>6. Hearing(t, h)
    BY <1>1 DEF Hearing, Sound
  <1>7. Sound(t, h)
    BY <1>1, <1>2, <1>4, <1>5, <1>6 DEF Sound
  <1>8. Straight(s, h) /\ (s.rec.status = "running" => r.status = "running") => Straight(t, h)
    BY <1>1, <1>3 DEF Straight
  <1>. QED BY <1>1, <1>3, <1>4, <1>7, <1>8 DEF t

\* killChild: a listener behind those there are; a stop behind a restart is a crossing.
LEMMA KilledSound ==
  ASSUME NEW s, Sound(s, <<>>), s.rec.child # None, NEW l \in Listeners, l = StoppedAll => ~Awaits(s, <<>>)
  PROVE  /\ Sound(Killed(s, l), <<>>)
         /\ Pending(Killed(s, l), <<>>) <=> Pending(s, <<>>) \/ l \in Configs
         /\ Awaits(Killed(s, l), <<>>) <=> Awaits(s, <<>>) \/ l = StoppedAll
         /\ Killed(s, l).rec.status # "none"
         /\ Straight(s, <<>>) /\ (l \in Configs \/ ~Pending(s, <<>>)) => Straight(Killed(s, l), <<>>)
  <1> DEFINE p == s.rec.child
             k == [s.proc[p] EXCEPT !.onExit = Append(@, l)]
             r == [s.rec EXCEPT !.intentionalStop = TRUE]
             u == State(r, s.proc)
             t == Killed(s, l)
  <1>1. p \in Slots /\ s.proc[p] # None /\ s.proc[p] \in Process /\ s.proc[p].ours /\ p \in Kids(s)
        /\ s.rec.status # "none"
    BY ChildIs
  <1>2. r \in Record /\ r.child = p /\ r.status = s.rec.status /\ r.instance = s.rec.instance
    BY DEF Record, Sound
  <1>3. Sound(u, <<>>) /\ u.rec = r /\ u.proc = s.proc /\ (Straight(s, <<>>) => Straight(u, <<>>))
        /\ Kids(u) = Kids(s)
    <2> HIDE DEF r
    <2>1. r.status # "none" /\ r.instance \in Configs
      BY <1>1, <1>2 DEF Sound
    <2>. QED BY <1>1, <1>2, <2>1, Touched
  <1>4. t.rec = r /\ t.proc = [s.proc EXCEPT ![p] = k] /\ t \in [rec : {t.rec}, proc : {t.proc}]
    BY DEF Killed, State
  <1>5. s.proc[p].onExit \in Seq(Listeners) /\ Single(s.proc[p].onExit)
    BY <1>1 DEF Sound, Listened, Process
  <1>6. (Has(s.proc[p].onExit, Configs) => Pending(s, <<>>))
        /\ (Has(s.proc[p].onExit, {StoppedAll}) <=> p \in Told(s))
        /\ (l = StoppedAll => Told(s) = {})
    BY <1>1 DEF Pending, Awaits, Told
  <1>7. /\ Append(s.proc[p].onExit, l) \in Seq(Listeners) /\ Single(Append(s.proc[p].onExit, l))
        /\ Has(Append(s.proc[p].onExit, l), Configs) <=> Has(s.proc[p].onExit, Configs) \/ l \in Configs
        /\ Has(Append(s.proc[p].onExit, l), {StoppedAll}) <=> Has(s.proc[p].onExit, {StoppedAll}) \/ l = StoppedAll
        /\ Ordered(s.proc[p].onExit) /\ (l \in Configs \/ ~Has(s.proc[p].onExit, Configs))
             => Ordered(Append(s.proc[p].onExit, l))
    BY <1>5, <1>6, Appended
  <1>8. k \in Process /\ k # None /\ k.ours /\ k.onExit = Append(s.proc[p].onExit, l)
    <2>1. k \in Process /\ k.ours /\ k.onExit = Append(s.proc[p].onExit, l)
      BY <1>1, <1>7 DEF Process
    <2>. QED BY <2>1, NoneIsNothing
  <1>9. s.proc \in [Slots -> Process \cup {None}]
    BY DEF Sound
  <1> HIDE DEF k, r, u, t
  <1>10. t.proc \in [Slots -> Process \cup {None}] /\ t.proc[p] = k
         /\ \A q \in Slots : q # p => t.proc[q] = s.proc[q]
    BY <1>1, <1>4, <1>8, <1>9 DEF p
  <1>11. Kids(t) = Kids(s)
    BY <1>1, <1>8, <1>10 DEF Kids
  <1>12. Told(t) = IF l = StoppedAll THEN {p} ELSE Told(s)
    <2>1. \A q \in Slots : q # p => (q \in Told(t) <=> q \in Told(s))
      BY <1>10 DEF Told
    <2>2. p \in Told(t) <=> p \in Told(s) \/ l = StoppedAll
      BY <1>1, <1>6, <1>7, <1>8, <1>10 DEF Told
    <2>3. Told(t) \subseteq Slots /\ Told(s) \subseteq Slots /\ p \in Slots
      BY <1>1 DEF Told
    <2> HIDE DEF p
    <2>4. CASE l = StoppedAll
      BY <1>6, <2>1, <2>2, <2>3, <2>4
    <2>5. CASE l # StoppedAll
      <3>1. \A q : q \in Told(t) <=> q \in Told(s)
        BY <2>1, <2>2, <2>3, <2>5
      <3>2. Told(t) = Told(s)
        BY <3>1, Zenon
      <3>. QED BY <2>5, <3>2
    <2>. QED BY <2>4, <2>5
  <1>13. Held(t)
    BY <1>2, <1>4, <1>11 DEF Held, Sound
  <1> HIDE DEF p
  <1>14. Listened(t, <<>>)
    <2>1. \A q \in Slots : t.proc[q] # None =>
            Single(t.proc[q].onExit) /\ (t.proc[q].ours \/ t.proc[q].onExit = <<>>)
      BY <1>7, <1>8, <1>10 DEF Listened, Sound
    <2>2. \A q, w \in Told(t) : q = w
      BY <1>12 DEF Listened, Sound
    <2>. QED BY <2>1, <2>2, Empty DEF Listened
  <1>15. Hearing(t, <<>>)
    BY DEF Hearing
  <1>16. Sound(t, <<>>)
    BY <1>2, <1>4, <1>10, <1>13, <1>14, <1>15, EmptySeq DEF Sound
  <1>17. Pending(t, <<>>) <=> Pending(s, <<>>) \/ l \in Configs
    BY <1>1, <1>7, <1>8, <1>10, Empty DEF Pending
  <1>18. Awaits(t, <<>>) <=> Awaits(s, <<>>) \/ l = StoppedAll
    BY <1>12, Empty DEF Awaits
  <1>19. ASSUME Straight(s, <<>>), l \in Configs \/ ~Pending(s, <<>>) PROVE Straight(t, <<>>)
    <2>1. \A q \in Slots : t.proc[q] # None => Ordered(t.proc[q].onExit)
      BY <1>1, <1>6, <1>7, <1>8, <1>10, <1>19 DEF Straight
    <2>2. t.rec.child = s.rec.child /\ t.rec.status = s.rec.status
      BY <1>2, <1>4 DEF p
    <2>. QED BY <1>11, <1>19, <2>1, <2>2 DEF Straight
  <1>20. t.rec.status # "none"
    BY <1>1, <1>2, <1>4
  <1>. QED BY <1>16, <1>17, <1>18, <1>19, <1>20 DEF t

\* stopInstance: without a child the record is only marked.
LEMMA StopNowSound ==
  ASSUME NEW s, Sound(s, <<>>), NEW l \in {Stopped, StoppedAll}, ~Awaits(s, <<>>)
  PROVE  /\ Sound(StopNow(s, l), <<>>)
         /\ Pending(StopNow(s, l), <<>>) <=> Pending(s, <<>>)
         /\ Awaits(StopNow(s, l), <<>>) <=> l = StoppedAll /\ s.rec.child # None
         /\ s.rec.status # "none" <=> StopNow(s, l).rec.status # "none"
         /\ Straight(s, <<>>) /\ ~Pending(s, <<>>) => Straight(StopNow(s, l), <<>>)
  <1>1. l \in Listeners /\ l \notin Configs
    BY Kinds DEF Listeners
  <1>2. CASE s.rec.child # None
    <2>1. StopNow(s, l) = Killed(s, l)
      BY <1>2 DEF StopNow
    <2>2. s.rec.status # "none"
      BY <1>2, ChildIs
    <2>. QED BY <1>1, <1>2, <2>1, <2>2, KilledSound
  <1>3. CASE s.rec.child = None /\ s.rec.status = "none"
    <2>1. StopNow(s, l) = s
      BY <1>3 DEF StopNow
    <2>. QED BY <1>3, <2>1
  <1>4. CASE s.rec.child = None /\ s.rec.status # "none"
    <2> DEFINE r == [s.rec EXCEPT !.status = "stopped"]
    <2>1. StopNow(s, l) = State(r, s.proc)
      BY <1>4 DEF StopNow
    <2>2. r \in Record /\ r.child = s.rec.child /\ r.status = "stopped" /\ r.instance = s.rec.instance
      BY DEF Record, Sound
    <2>3. s.rec.status # "running" /\ s.rec.instance \in Configs
      BY <1>4 DEF Sound, Held
    <2> HIDE DEF r
    <2>. QED BY <1>4, <2>1, <2>2, <2>3, Touched
  <1>. QED BY <1>2, <1>3, <1>4

\* restartInstance: the new child comes at once or when the old one is gone.
LEMMA RestartedSound ==
  ASSUME NEW s, Sound(s, <<>>), NEW c \in Configs, \E p \in Slots : s.proc[p] = None
  PROVE  /\ Sound(Restarted(s, c), <<>>)
         /\ Pending(s, <<>>) => Pending(Restarted(s, c), <<>>)
         /\ Awaits(Restarted(s, c), <<>>) <=> Awaits(s, <<>>)
         /\ Restarted(s, c).rec.status # "none"
         /\ Straight(s, <<>>) => Straight(Restarted(s, c), <<>>)
  <1>1. c \in Listeners /\ c # StoppedAll
    BY Kinds DEF Listeners
  <1>2. CASE s.rec.child # None
    <2>1. Restarted(s, c) = Killed(s, c)
      BY <1>2 DEF Restarted
    <2>. QED BY <1>1, <1>2, <2>1, KilledSound
  <1>3. CASE s.rec.child = None
    <2>1. Restarted(s, c) = Spawned(s, c)
      BY <1>3 DEF Restarted
    <2>. QED BY <2>1, SpawnedAlone
  <1>. QED BY <1>2, <1>3

\* The child is gone: its handler has marked the record, its listeners are to be called.
LEMMA ReapedSound ==
  ASSUME NEW s, Sound(s, <<>>), NEW p \in Kids(s)
  PROVE  LET t == State(Reaped(s.rec), [s.proc EXCEPT ![p] = None])
             g == s.proc[p].onExit
         IN /\ Sound(t, g)
            /\ Pending(t, g) <=> Pending(s, <<>>)
            /\ Awaits(t, g) <=> Awaits(s, <<>>)
            /\ t.rec.status # "none"
            /\ Straight(s, <<>>) => Straight(t, g)
  <1> DEFINE t == State(Reaped(s.rec), [s.proc EXCEPT ![p] = None])
             g == s.proc[p].onExit
  <1>1. p \in Slots /\ s.proc[p] # None /\ s.proc[p] \in Process /\ s.rec \in Record
        /\ s.proc \in [Slots -> Process \cup {None}]
    BY DEF Kids, Sound
  <1>2. s.rec.status # "none"
    BY DEF Sound, Held
  <1>3. t.rec = Reaped(s.rec) /\ t.proc = [s.proc EXCEPT ![p] = None] /\ t \in [rec : {t.rec}, proc : {t.proc}]
    BY DEF State
  <1>4. /\ Reaped(s.rec) \in Record /\ Reaped(s.rec).child = None
        /\ Reaped(s.rec).status \in {"stopped", "failed", "restarting"}
        /\ Reaped(s.rec).instance = s.rec.instance
    <2>1. MaxRestarts \in Nat /\ s.rec.restartTimes \in 0..MaxRestarts
      BY <1>1, Bounds DEF Record
    <2>2. CASE s.rec.intentionalStop
      BY <1>1, <2>2 DEF Reaped, Record
    <2>3. CASE ~s.rec.intentionalStop /\ s.rec.restartTimes >= MaxRestarts
      BY <1>1, <2>3 DEF Reaped, Record
    <2>4. CASE ~s.rec.intentionalStop /\ ~(s.rec.restartTimes >= MaxRestarts)
      <3>1. s.rec.restartTimes + 1 \in 0..MaxRestarts
        BY <2>1, <2>4
      <3>. QED BY <1>1, <2>4, <3>1 DEF Reaped, Record
    <2>. QED BY <2>2, <2>3, <2>4
  <1>5. g \in Seq(Listeners) /\ Single(g)
    BY <1>1 DEF Process, Sound, Listened
  <1> HIDE DEF t
  <1>6. t.proc \in [Slots -> Process \cup {None}] /\ t.proc[p] = None
        /\ \A q \in Slots : q # p => t.proc[q] = s.proc[q]
    BY <1>1, <1>3
  <1>7. /\ Told(t) = Told(s) \ {p} /\ (p \in Told(s) <=> Has(g, {StoppedAll}))
        /\ \A q, w \in Told(s) : q = w
    BY <1>1, <1>6 DEF Told, Sound, Listened
  <1>8. Held(t)
    BY <1>3, <1>4 DEF Held
  <1>9. Listened(t, g)
    BY <1>5, <1>6, <1>7 DEF Listened, Sound
  <1>10. Hearing(t, g)
    BY <1>3, <1>4 DEF Hearing
  <1>11. Sound(t, g)
    BY <1>2, <1>3, <1>4, <1>5, <1>6, <1>8, <1>9, <1>10 DEF Sound
  <1>12. Pending(t, g) <=> Pending(s, <<>>)
    BY <1>1, <1>6, Empty DEF Pending
  <1>13. Awaits(t, g) <=> Awaits(s, <<>>)
    BY <1>7, Empty DEF Awaits
  <1>14. ASSUME Straight(s, <<>>) PROVE Straight(t, g)
    <2>1. Kids(t) = {}
      BY <1>1, <1>6, <1>14 DEF Kids, Straight
    <2>2. Ordered(g) /\ \A q \in Slots : t.proc[q] # None => Ordered(t.proc[q].onExit)
      BY <1>1, <1>6, <1>14 DEF Straight
    <2>. QED BY <1>3, <1>4, <2>1, <2>2 DEF Straight
  <1>15. t.rec.status # "none"
    BY <1>3, <1>4
  <1>. QED BY <1>11, <1>12, <1>13, <1>14, <1>15 DEF t

\* One listener: a stop marks the record, a restart spawns unless one before it has.
LEMMA HeardSound ==
  ASSUME NEW s, NEW h, Sound(s, h), h # <<>>,
         Head(h) \in Configs /\ s.rec.status # "running" => \E p \in Slots : s.proc[p] = None
  PROVE  LET t == Heard(s, Head(h))
         IN /\ Sound(t, Tail(h))
            /\ Pending(s, h) => Pending(t, Tail(h)) \/ Head(h) \in Configs
            /\ Awaits(s, h) <=> Awaits(t, Tail(h)) \/ Head(h) = StoppedAll
            /\ Head(h) = StoppedAll => ~Awaits(t, Tail(h))
            /\ t.rec.status # "none"
            /\ Head(h) \in Configs => t.rec.status = "running" /\ t.proc[t.rec.child].onExit = <<>>
            /\ Straight(s, h) => Straight(t, Tail(h))
  <1> DEFINE l == Head(h)
             g == Tail(h)
             t == Heard(s, l)
  <1>0. h \in Seq(Listeners) /\ Single(h) /\ s.rec \in Record /\ s.rec.status # "none"
        /\ (Has(h, {StoppedAll}) => Told(s) = {}) /\ s.rec.instance \in Configs
    BY DEF Sound, Listened, Hearing
  <1>1. /\ l \in Listeners /\ g \in Seq(Listeners) /\ Single(g)
        /\ Has(h, Configs) <=> Has(g, Configs) \/ l \in Configs
        /\ Has(h, {StoppedAll}) <=> Has(g, {StoppedAll}) \/ l = StoppedAll
        /\ l = StoppedAll => ~Has(g, {StoppedAll})
        /\ Ordered(h) => Ordered(g)
        /\ Ordered(h) /\ l \in Configs => \A n \in DOMAIN g : g[n] \in Configs
    BY <1>0, Taken
  <1>2. 1 \in DOMAIN h /\ h[1] = l
    BY <1>0
  <1> HIDE DEF l, g
  <1>3. CASE l \notin Configs
    <2> DEFINE r == [s.rec EXCEPT !.status = "stopped"]
    <2>1. t = State(r, s.proc)
      BY <1>3 DEF Heard
    <2>2. r \in Record /\ r.child = s.rec.child /\ r.status = "stopped" /\ r.instance = s.rec.instance
      BY <1>0 DEF Record
    <2> HIDE DEF r, t
    <2>3. /\ Sound(t, h) /\ t.rec = r /\ t.proc = s.proc /\ Kids(t) = Kids(s)
          /\ Pending(t, h) <=> Pending(s, h)
          /\ Straight(s, h) /\ (s.rec.status = "running" => r.status = "running") => Straight(t, h)
      BY <1>0, <2>1, <2>2, Touched
    <2>4. Told(t) = Told(s)
      BY <2>3 DEF Told
    <2>5. Hearing(t, g) /\ Listened(t, g)
      BY <1>0, <1>1, <2>2, <2>3, <2>4 DEF Hearing, Listened, Sound
    <2>6. Sound(t, g)
      BY <1>1, <2>3, <2>5 DEF Sound
    <2>7. Pending(t, g) <=> Pending(s, h)
      BY <1>1, <1>3, <2>3 DEF Pending
    <2>8. (Awaits(s, h) <=> Awaits(t, g) \/ l = StoppedAll) /\ (l = StoppedAll => ~Awaits(t, g))
      BY <1>0, <1>1, <2>4 DEF Awaits
    <2>9. ASSUME Straight(s, h) PROVE Straight(t, g)
      <3>1. s.rec.status # "running"
        BY <1>2, <1>3, <2>9, h # <<>> DEF Straight
      <3>2. Straight(t, h)
        BY <2>3, <2>9, <3>1
      <3>. QED BY <1>1, <2>2, <2>3, <3>2 DEF Straight
    <2>10. t.rec.status # "none"
      BY <2>2, <2>3
    <2>. QED BY <1>3, <2>6, <2>7, <2>8, <2>9, <2>10 DEF t, l, g
  <1>4. CASE l \in Configs
    <2> DEFINE r == [s.rec EXCEPT !.intentionalStop = FALSE, !.restartTimes = 0]
               u == State(r, s.proc)
    <2>1. t = Spawned(u, l)
      BY <1>4 DEF Heard
    <2>2. r \in Record /\ r.child = s.rec.child /\ r.status = s.rec.status /\ r.instance = s.rec.instance
      <3>1. 0 \in 0..MaxRestarts
        BY Bounds
      <3>. QED BY <1>0, <3>1 DEF Record
    <2> HIDE DEF r
    <2>3. /\ Sound(u, h) /\ u.rec = r /\ u.proc = s.proc
          /\ Pending(u, h) <=> Pending(s, h)
          /\ Awaits(u, h) <=> Awaits(s, h)
          /\ Straight(s, h) => Straight(u, h)
      BY <1>0, <2>2, Touched
    <2> HIDE DEF u, t
    <2>4. /\ u.rec.status = "running" => u.proc[u.rec.child].onExit = <<>>
          /\ u.rec.status # "running" => \E p \in Slots : u.proc[p] = None
      BY <1>4, <2>2, <2>3 DEF Sound, Hearing, l
    <2>5. /\ Sound(t, g) /\ t.rec.status = "running"
          /\ Pending(t, g) <=> Pending(u, g)
          /\ Awaits(t, g) <=> Awaits(u, g)
          /\ u.rec.status # "running" => t.proc[t.rec.child].onExit = <<>>
          /\ u.rec.status = "running" => t = u
          /\ Straight(u, h) /\ Ordered(g) /\ (\A n \in DOMAIN g : g[n] \in Configs) => Straight(t, g)
      BY <1>1, <1>4, <2>1, <2>3, <2>4, SpawnedSound
    <2>6. Awaits(u, h) <=> Awaits(u, g)
      BY <1>1, <1>4, Kinds DEF Awaits
    <2>7. t.proc[t.rec.child].onExit = <<>>
      BY <2>4, <2>5
    <2>8. l # StoppedAll /\ (Awaits(s, h) <=> Awaits(t, g))
      BY <1>4, <2>3, <2>5, <2>6, Kinds
    <2>9. Straight(s, h) => Straight(t, g)
      BY <1>1, <1>4, <2>3, <2>5 DEF Straight
    <2>10. t.rec.status # "none"
      BY <2>5
    <2>. QED BY <1>4, <2>5, <2>7, <2>8, <2>9, <2>10 DEF t, l, g
  <1>. QED BY <1>3, <1>4 DEF l, g

\* A manager that exits leaves orphans, which nobody listens to.
LEMMA OrphanedSound ==
  ASSUME NEW s, NEW h, Sound(s, h)
  PROVE  LET t == State(NoRecord, Orphaned(s.proc))
         IN Sound(t, <<>>) /\ Straight(t, <<>>) /\ ~Awaits(t, <<>>)
  <1> DEFINE t == State(NoRecord, Orphaned(s.proc))
  <1>1. t.rec = NoRecord /\ t.proc = Orphaned(s.proc) /\ t \in [rec : {t.rec}, proc : {t.proc}]
    BY DEF State
  <1>2. s.proc \in [Slots -> Process \cup {None}]
    BY DEF Sound
  <1> HIDE DEF t
  <1>3. NoRecord \in Record /\ NoRecord.status = "none" /\ NoRecord.child = None
    <2>1. 0 \in 0..MaxRestarts
      BY Bounds
    <2>. QED BY <2>1 DEF NoRecord, Record
  <1>4. ASSUME NEW p \in Slots, s.proc[p] # None
        PROVE  /\ t.proc[p] \in Process /\ t.proc[p] # None /\ ~t.proc[p].ours
               /\ t.proc[p].onExit = <<>>
    <2>1. t.proc[p] = [s.proc[p] EXCEPT !.ours = FALSE, !.onExit = <<>>] /\ s.proc[p] \in Process
      BY <1>1, <1>2, <1>4 DEF Orphaned
    <2>2. t.proc[p] \in Process /\ ~t.proc[p].ours /\ t.proc[p].onExit = <<>>
      BY <2>1, Empty DEF Process
    <2>. QED BY <2>2, NoneIsNothing
  <1>5. \A p \in Slots : s.proc[p] = None => t.proc[p] = None
    BY <1>1 DEF Orphaned
  <1>6. t.proc \in [Slots -> Process \cup {None}]
    BY <1>1, <1>4, <1>5 DEF Orphaned
  <1>7. Kids(t) = {} /\ Told(t) = {}
    BY <1>4, <1>5, Empty DEF Kids, Told
  <1>8. Held(t) /\ Listened(t, <<>>) /\ Hearing(t, <<>>)
    BY <1>1, <1>3, <1>4, <1>5, <1>7, Empty DEF Held, Listened, Hearing
  <1>9. Sound(t, <<>>)
    BY <1>1, <1>3, <1>6, <1>8, Empty DEF Sound
  <1>10. Straight(t, <<>>)
    BY <1>1, <1>3, <1>4, <1>5, <1>7, Empty DEF Straight
  <1>11. ~Awaits(t, <<>>)
    BY <1>7, Empty DEF Awaits
  <1>. QED BY <1>9, <1>10, <1>11 DEF t

\* An orphan that exits is missed by nobody.
LEMMA OrphanGone ==
  ASSUME NEW s, NEW h, Sound(s, h), NEW p \in Slots, s.proc[p] # None, ~s.proc[p].ours
  PROVE  LET t == State(s.rec, [s.proc EXCEPT ![p] = None])
         IN /\ Sound(t, h)
            /\ Pending(t, h) <=> Pending(s, h)
            /\ Awaits(t, h) <=> Awaits(s, h)
            /\ Straight(s, h) => Straight(t, h)
  <1> DEFINE t == State(s.rec, [s.proc EXCEPT ![p] = None])
  <1>1. t.rec = s.rec /\ t.proc = [s.proc EXCEPT ![p] = None] /\ t \in [rec : {t.rec}, proc : {t.proc}]
    BY DEF State
  <1> HIDE DEF t
  <1>2. /\ t.proc \in [Slots -> Process \cup {None}] /\ t.proc[p] = None
        /\ \A q \in Slots : q # p => t.proc[q] = s.proc[q]
    BY <1>1 DEF Sound
  <1>3. Kids(t) = Kids(s) /\ p \notin Kids(s)
    BY <1>2 DEF Kids
  <1>4. s.proc[p].onExit = <<>>
    BY DEF Sound, Listened
  <1>5. Told(t) = Told(s)
    BY <1>2, <1>4, Empty DEF Told
  <1>6. Held(t)
    BY <1>1, <1>3 DEF Held, Sound
  <1>7. Listened(t, h)
    BY <1>2, <1>5 DEF Listened, Sound
  <1>8. Hearing(t, h)
    <2>1. CASE s.rec.status = "running"
      <3>1. s.rec.child \in Kids(s) /\ s.rec.child \in Slots
        BY <2>1 DEF Sound, Held, Kids
      <3>2. t.proc[s.rec.child] = s.proc[s.rec.child]
        BY <1>2, <1>3, <3>1
      <3>. QED BY <1>1, <2>1, <3>2 DEF Hearing, Sound
    <2>2. CASE s.rec.status # "running"
      BY <1>1, <2>2 DEF Hearing, Sound
    <2>. QED BY <2>1, <2>2
  <1>9. Sound(t, h)
    BY <1>1, <1>2, <1>6, <1>7, <1>8 DEF Sound
  <1>10. Pending(t, h) <=> Pending(s, h)
    BY <1>2, <1>4, Empty DEF Pending
  <1>11. Awaits(t, h) <=> Awaits(s, h)
    BY <1>5 DEF Awaits
  <1>12. Straight(s, h) => Straight(t, h)
    BY <1>1, <1>2, <1>3 DEF Straight
  <1>. QED BY <1>9, <1>10, <1>11, <1>12 DEF t

---------------------------------------------------------------------------
(* The steps.                                                               *)

\* The children stopAll waits for are counted.
LEMMA Counted ==
  ASSUME NEW A, A \subseteq Instances
  PROVE  /\ IsFiniteSet(A) /\ Cardinality(A) \in 0..Cardinality(Instances)
         /\ Cardinality(A) = 0 <=> A = {}
         /\ \A i \in A : Cardinality(A \ {i}) = Cardinality(A) - 1
  <1>1. IsFiniteSet(Instances) /\ Cardinality(Instances) \in Nat
    BY Bounds, FS_CardinalityType
  <1>2. IsFiniteSet(A) /\ Cardinality(A) \in Nat /\ Cardinality(A) <= Cardinality(Instances)
    BY <1>1, FS_Subset, FS_CardinalityType
  <1>3. Cardinality(A) = 0 <=> A = {}
    BY <1>2, FS_EmptySet
  <1>4. \A i \in A : Cardinality(A \ {i}) = Cardinality(A) - 1
    BY <1>2, FS_RemoveElement
  <1>. QED BY <1>1, <1>2, <1>3, <1>4

\* A step of one instance.
LEMMA StepKeeps ==
  ASSUME IInv, NEW i \in Instances, NEW t, NEW h, Sound(t, h),
         Becomes(i, t), hearing' = [hearing EXCEPT ![i] = h], manager' = manager,
         ~crossed'[i] => Straight(t, h), crossed' \in [Instances -> BOOLEAN],
         \A j \in Instances : j # i => crossed'[j] = crossed[j],
         manager = "down" => t.rec = NoRecord /\ h = <<>> /\ timers'[i] = 0,
         timers' \in [Instances -> 0..MaxTimers],
         \A j \in Instances : j # i => timers'[j] = timers[j],
         timers'[i] > 0 => t.rec.status # "none",
         registry' \in [Instances -> {"absent", "enabled", "disabled", "deleted"}],
         config' \in [Instances -> Configs \cup {None}],
         \A j \in Instances : registry'[j] # "absent" => config'[j] \in Configs,
         \/ remaining' = remaining /\ (Awaits(t, h) <=> Awaits(Now(i), hearing[i]))
         \/ /\ remaining' = remaining - 1 /\ remaining # 1 /\ remaining # 0
            /\ Awaits(Now(i), hearing[i]) /\ ~Awaits(t, h)
  PROVE  IInv' /\ ((Pending(Now(i), hearing[i]) => Pending(t, h)) => Carried)
  <1>1. /\ rec' = [rec EXCEPT ![i] = t.rec] /\ proc' = [proc EXCEPT ![i] = t.proc]
        /\ t.rec \in Record /\ t.proc \in [Slots -> Process \cup {None}]
        /\ h \in Seq(Listeners) /\ t = State(t.rec, t.proc)
    BY DEF Becomes, Sound, State
  <1>2. TypeOK /\ CountInv /\ PhaseInv /\ ConfigInv /\ remaining \in Nat /\ remaining \in Int
    <2>1. TypeOK /\ CountInv /\ PhaseInv /\ ConfigInv
      BY DEF IInv
    <2>2. Cardinality(Instances) \in Nat
      BY Bounds, FS_CardinalityType
    <2>. QED BY <2>1, <2>2 DEF TypeOK
  <1>3. State(rec'[i], proc'[i]) = t /\ hearing'[i] = h
    BY <1>1, <1>2 DEF TypeOK
  <1>4. \A j \in Instances : j # i => State(rec'[j], proc'[j]) = Now(j) /\ hearing'[j] = hearing[j] /\ rec'[j] = rec[j]
    BY <1>1, <1>2 DEF TypeOK, Now
  <1>5. /\ \A j \in Instances : Sound(State(rec'[j], proc'[j]), hearing'[j])
        /\ \A j \in Instances : ~crossed'[j] => Straight(State(rec'[j], proc'[j]), hearing'[j])
    BY <1>3, <1>4 DEF IInv
  <1> DEFINE A == {j \in Instances : Awaits(State(rec'[j], proc'[j]), hearing'[j])}
  <1>6. \/ A = Awaited /\ remaining' = remaining
        \/ i \in Awaited /\ A = Awaited \ {i} /\ remaining' = remaining - 1 /\ remaining # 1 /\ remaining # 0
    <2>1. \A j \in Instances : j # i => (j \in A <=> j \in Awaited)
      BY <1>4 DEF Awaited
    <2>2. i \in A <=> Awaits(t, h)
      BY <1>3
    <2>3. i \in Awaited <=> Awaits(Now(i), hearing[i])
      BY DEF Awaited
    <2>4. A \subseteq Instances /\ Awaited \subseteq Instances
      BY DEF Awaited
    <2> HIDE DEF A
    <2>5. ASSUME i \in A <=> i \in Awaited PROVE A = Awaited
      <3>1. \A j : j \in A <=> j \in Awaited
        BY <2>1, <2>4, <2>5
      <3>. QED BY <3>1, Zenon
    <2>6. ASSUME i \notin A, i \in Awaited PROVE A = Awaited \ {i}
      <3>1. \A j : j \in A <=> j \in Awaited \ {i}
        BY <2>1, <2>4, <2>6
      <3>. QED BY <3>1, Zenon
    <2>. QED BY <2>2, <2>3, <2>5, <2>6
  <1> HIDE DEF A
  <1>7. A \subseteq Instances /\ Awaited \subseteq Instances
    BY DEF A, Awaited
  <1>8. remaining' = Cardinality(A) /\ remaining' \in 0..Cardinality(Instances)
    <2>1. Cardinality(A) \in 0..Cardinality(Instances) /\ \A j \in Awaited : Cardinality(Awaited \ {j}) = Cardinality(Awaited) - 1
      BY <1>7, Counted
    <2>. QED BY <1>2, <1>6, <2>1 DEF CountInv
  <1>9. TypeOK'
    BY <1>1, <1>2, <1>8 DEF TypeOK
  <1>10. manager' = "stopping" <=> remaining' > 0
    BY <1>2, <1>6 DEF PhaseInv
  <1>12. manager' = "down" => \A j \in Instances : rec'[j] = NoRecord /\ timers'[j] = 0 /\ hearing'[j] = <<>>
    BY <1>1, <1>2, <1>3, <1>4 DEF PhaseInv, TypeOK
  <1>13. \A j \in Instances : timers'[j] > 0 => rec'[j].status # "none"
    BY <1>1, <1>2, <1>4 DEF ConfigInv, TypeOK
  <1>14. PhaseInv'
    BY <1>10, <1>12 DEF PhaseInv
  <1>15. CountInv' /\ ConfigInv'
    BY <1>8, <1>13 DEF CountInv, ConfigInv, Awaited, A, Now
  <1>16. /\ \A j \in Instances : Sound(Now(j), hearing[j])'
         /\ \A j \in Instances : ~crossed'[j] => Straight(Now(j), hearing[j])'
    BY <1>5 DEF Now
  <1>17. ASSUME Pending(Now(i), hearing[i]) => Pending(t, h) PROVE Carried
    <2>1. ASSUME NEW j \in Instances, Pending(Now(j), hearing[j])
          PROVE  Pending(State(rec'[j], proc'[j]), hearing'[j])
      BY <1>3, <1>4, <1>17, <2>1
    <2>2. \A j \in Instances : RestartPending(j) <=> Pending(Now(j), hearing[j])
      BY DEF RestartPending, Pending, Now, State, Live
    <2>3. \A j \in Instances : RestartPending(j)' <=> Pending(State(rec'[j], proc'[j]), hearing'[j])
      BY DEF RestartPending, Pending, State, Live
    <2>. QED BY <2>1, <2>2, <2>3 DEF Carried
  <1>. QED BY <1>9, <1>14, <1>15, <1>16, <1>17 DEF IInv

\* What a request finds: nothing is being announced and no shutdown waits.
LEMMA Open ==
  ASSUME IInv, manager = "up", Quiet, NEW i \in Instances
  PROVE  /\ Sound(Now(i), <<>>) /\ hearing[i] = <<>> /\ hearing = [hearing EXCEPT ![i] = <<>>]
         /\ ~crossed[i] => Straight(Now(i), <<>>)
         /\ RestartPending(i) <=> Pending(Now(i), <<>>)
         /\ ~Awaits(Now(i), <<>>)
         /\ Now(i).rec = rec[i] /\ Now(i).proc = proc[i]
         /\ config[i] \in Configs \/ registry[i] = "absent"
         /\ timers[i] > 0 => rec[i].status # "none"
  <1>1. hearing[i] = <<>> /\ Sound(Now(i), hearing[i]) /\ hearing = [hearing EXCEPT ![i] = <<>>]
        /\ (~crossed[i] => Straight(Now(i), hearing[i]))
    BY DEF Quiet, IInv, TypeOK
  <1>2. Awaited \subseteq Instances
    BY DEF Awaited
  <1>3. ~(remaining > 0) /\ remaining \in 0..Cardinality(Instances) /\ Cardinality(Instances) \in Nat
    BY Bounds, FS_CardinalityType DEF IInv, PhaseInv, TypeOK
  <1>4. remaining = 0
    BY <1>3
  <1>5. Awaited = {}
    BY <1>2, <1>4, Counted DEF IInv, CountInv
  <1>6. ~Awaits(Now(i), hearing[i])
    BY <1>5 DEF Awaited
  <1>7. RestartPending(i) <=> Pending(Now(i), <<>>)
    BY <1>1 DEF RestartPending, Pending, Live, Now, State
  <1>. QED BY <1>1, <1>6, <1>7 DEF Now, State, IInv, ConfigInv

\* A request on an instance.
LEMMA RequestKeeps ==
  ASSUME IInv, manager = "up", Quiet, NEW i \in Instances, NEW t, Sound(t, <<>>), ~Awaits(t, <<>>),
         Pending(Now(i), <<>>) => Pending(t, <<>>), Becomes(i, t), UNCHANGED <<hearing, timers, manager, remaining>>,
         rec[i].status # "none" => t.rec.status # "none",
         ~crossed'[i] => Straight(t, <<>>), crossed' \in [Instances -> BOOLEAN],
         \A j \in Instances : j # i => crossed'[j] = crossed[j],
         registry' \in [Instances -> {"absent", "enabled", "disabled", "deleted"}],
         config' \in [Instances -> Configs \cup {None}],
         \A j \in Instances : registry'[j] # "absent" => config'[j] \in Configs
  PROVE  IInv' /\ Carried
  <1>1. /\ hearing[i] = <<>> /\ hearing = [hearing EXCEPT ![i] = <<>>]
        /\ ~Awaits(Now(i), <<>>) /\ (timers[i] > 0 => rec[i].status # "none")
    BY Open
  <1>2. timers' \in [Instances -> 0..MaxTimers] /\ \A j \in Instances : timers'[j] = timers[j]
    BY DEF IInv, TypeOK
  <1>3. hearing' = [hearing EXCEPT ![i] = <<>>] /\ manager' = manager /\ manager = "up" /\ remaining' = remaining
    BY <1>1
  <1>4. Awaits(t, <<>>) <=> Awaits(Now(i), hearing[i])
    BY <1>1
  <1>5. timers'[i] > 0 => t.rec.status # "none"
    BY <1>1, <1>2
  <1>6. Pending(Now(i), hearing[i]) => Pending(t, <<>>)
    BY <1>1
  <1>7. IInv' /\ ((Pending(Now(i), hearing[i]) => Pending(t, <<>>)) => Carried)
    BY <1>2, <1>3, <1>4, <1>5, StepKeeps
  <1>. QED BY <1>6, <1>7

\* The requests of the API.
LEMMA Requested ==
  ASSUME IInv, NEW i \in Instances, Request(i)
  PROVE  IInv' /\ Carried
  <1>0. manager = "up" /\ Quiet
    BY DEF Request
  <1>1. /\ Sound(Now(i), <<>>) /\ hearing[i] = <<>> /\ ~Awaits(Now(i), <<>>)
        /\ Now(i).rec = rec[i] /\ Now(i).proc = proc[i]
        /\ config[i] \in Configs \/ registry[i] = "absent"
    BY <1>0, Open
  <1>2. TypeOK /\ ConfigInv
    BY DEF IInv
  <1>3. Room(i) => \E p \in Slots : Now(i).proc[p] = None
    BY <1>1 DEF Room, Live
  <1>4. /\ ~crossed[i] => Straight(Now(i), <<>>)
        /\ RestartPending(i) <=> Pending(Now(i), <<>>)
        /\ crossed \in [Instances -> BOOLEAN]
    BY <1>0, <1>2, Open DEF TypeOK
  <1>5. ASSUME NEW c \in Configs, Room(i) PROVE
          /\ Sound(Spawned(Now(i), c), <<>>) /\ ~Awaits(Spawned(Now(i), c), <<>>)
          /\ Spawned(Now(i), c).rec.status # "none"
          /\ Pending(Now(i), <<>>) => Pending(Spawned(Now(i), c), <<>>)
          /\ ~crossed[i] => Straight(Spawned(Now(i), c), <<>>)
    BY <1>1, <1>3, <1>4, <1>5, SpawnedAlone
  <1>6. ASSUME NEW c \in Configs, Room(i) PROVE
          /\ Sound(Restarted(Now(i), c), <<>>) /\ ~Awaits(Restarted(Now(i), c), <<>>)
          /\ Restarted(Now(i), c).rec.status # "none"
          /\ Pending(Now(i), <<>>) => Pending(Restarted(Now(i), c), <<>>)
          /\ ~crossed[i] => Straight(Restarted(Now(i), c), <<>>)
    BY <1>1, <1>3, <1>4, <1>6, RestartedSound
  <1>7. ASSUME StopReaches({i}) PROVE
          /\ Sound(StopNow(Now(i), Stopped), <<>>) /\ ~Awaits(StopNow(Now(i), Stopped), <<>>)
          /\ rec[i].status # "none" => StopNow(Now(i), Stopped).rec.status # "none"
          /\ Pending(Now(i), <<>>) => Pending(StopNow(Now(i), Stopped), <<>>)
          /\ ~crossed'[i] => Straight(StopNow(Now(i), Stopped), <<>>)
          /\ crossed' \in [Instances -> BOOLEAN]
          /\ \A j \in Instances : j # i => crossed'[j] = crossed[j]
    <2>1. Stopped \in {Stopped, StoppedAll} /\ Stopped # StoppedAll
      BY Kinds
    <2>2. /\ crossed' \in [Instances -> BOOLEAN]
          /\ \A j \in Instances : j # i => crossed'[j] = crossed[j]
          /\ ~crossed'[i] => ~crossed[i] /\ ~RestartPending(i)
      <3>1. \A j \in Instances : RestartPending(j) \in BOOLEAN
        BY DEF RestartPending, Has
      <3>2. crossed' = [j \in Instances |-> crossed[j] \/ (j \in {i} /\ RestartPending(j))]
        BY <1>7 DEF StopReaches
      <3>. QED BY <1>4, <3>1, <3>2
    <2>3. /\ Sound(StopNow(Now(i), Stopped), <<>>)
          /\ Pending(StopNow(Now(i), Stopped), <<>>) <=> Pending(Now(i), <<>>)
          /\ ~Awaits(StopNow(Now(i), Stopped), <<>>)
          /\ rec[i].status # "none" <=> StopNow(Now(i), Stopped).rec.status # "none"
          /\ Straight(Now(i), <<>>) /\ ~Pending(Now(i), <<>>) => Straight(StopNow(Now(i), Stopped), <<>>)
      BY <1>1, <2>1, StopNowSound
    <2>. QED BY <1>4, <2>2, <2>3
  <1>8. CASE \E c \in Configs : \E b \in BOOLEAN : Create(i, c, b)
    <2>1. PICK c \in Configs, b \in BOOLEAN : Create(i, c, b)
      BY <1>8
    <2>2. /\ registry' = [registry EXCEPT ![i] = IF b THEN "enabled" ELSE "disabled"]
          /\ config' = [config EXCEPT ![i] = c]
          /\ Room(i) /\ UNCHANGED <<hearing, timers, manager, remaining, crossed>>
      BY <2>1 DEF Create
    <2>3. /\ registry' \in [Instances -> {"absent", "enabled", "disabled", "deleted"}]
          /\ config' \in [Instances -> Configs \cup {None}]
          /\ \A j \in Instances : registry'[j] # "absent" => config'[j] \in Configs
      BY <1>2, <2>2 DEF TypeOK, ConfigInv
    <2>4. CASE b
      <3>1. Becomes(i, Spawned(Now(i), c))
        BY <2>1, <2>4 DEF Create
      <3>. QED BY <1>0, <1>4, <1>5, <2>2, <2>3, <3>1, RequestKeeps
    <2>5. CASE ~b
      <3>1. Becomes(i, Now(i))
        BY <2>1, <2>5 DEF Create
      <3>. QED BY <1>0, <1>1, <1>4, <2>2, <2>3, <3>1, RequestKeeps
    <2>. QED BY <2>4, <2>5
  <1>9. CASE \E c \in Configs : PatchOn(i, c)
    <2>1. PICK c \in Configs : PatchOn(i, c)
      BY <1>9
    <2>2. /\ registry' = [registry EXCEPT ![i] = "enabled"] /\ config' = [config EXCEPT ![i] = c]
          /\ Room(i) /\ Becomes(i, Restarted(Now(i), c))
          /\ UNCHANGED <<hearing, timers, manager, remaining, crossed>>
      BY <2>1 DEF PatchOn
    <2>3. /\ registry' \in [Instances -> {"absent", "enabled", "disabled", "deleted"}]
          /\ config' \in [Instances -> Configs \cup {None}]
          /\ \A j \in Instances : registry'[j] # "absent" => config'[j] \in Configs
      BY <1>2, <2>2 DEF TypeOK, ConfigInv
    <2>. QED BY <1>0, <1>4, <1>6, <2>2, <2>3, RequestKeeps
  <1>10. CASE \E c \in Configs : PatchOff(i, c)
    <2>1. PICK c \in Configs : PatchOff(i, c)
      BY <1>10
    <2>2. /\ registry' = [registry EXCEPT ![i] = "disabled"] /\ config' = [config EXCEPT ![i] = c]
          /\ StopReaches({i}) /\ Becomes(i, StopNow(Now(i), Stopped))
          /\ UNCHANGED <<hearing, timers, manager, remaining>>
      BY <2>1 DEF PatchOff
    <2>3. /\ registry' \in [Instances -> {"absent", "enabled", "disabled", "deleted"}]
          /\ config' \in [Instances -> Configs \cup {None}]
          /\ \A j \in Instances : registry'[j] # "absent" => config'[j] \in Configs
      BY <1>2, <2>2 DEF TypeOK, ConfigInv
    <2>. QED BY <1>0, <1>7, <2>2, <2>3, RequestKeeps
  <1>11. CASE Start(i)
    <2>2. /\ registry' = [registry EXCEPT ![i] = "enabled"] /\ config' = config
          /\ Room(i) /\ Becomes(i, Spawned(Now(i), config[i])) /\ config[i] \in Configs
          /\ UNCHANGED <<hearing, timers, manager, remaining, crossed>>
      BY <1>1, <1>11 DEF Start, Known
    <2>3. /\ registry' \in [Instances -> {"absent", "enabled", "disabled", "deleted"}]
          /\ config' \in [Instances -> Configs \cup {None}]
          /\ \A j \in Instances : registry'[j] # "absent" => config'[j] \in Configs
      BY <1>2, <2>2 DEF TypeOK, ConfigInv
    <2>. QED BY <1>0, <1>4, <1>5, <2>2, <2>3, RequestKeeps
  <1>12. CASE Stop(i)
    <2>2. /\ registry' = [registry EXCEPT ![i] = "disabled"] /\ config' = config
          /\ StopReaches({i}) /\ Becomes(i, StopNow(Now(i), Stopped)) /\ config[i] \in Configs
          /\ UNCHANGED <<hearing, timers, manager, remaining>>
      BY <1>1, <1>12 DEF Stop, Known
    <2>3. /\ registry' \in [Instances -> {"absent", "enabled", "disabled", "deleted"}]
          /\ config' \in [Instances -> Configs \cup {None}]
          /\ \A j \in Instances : registry'[j] # "absent" => config'[j] \in Configs
      BY <1>2, <2>2 DEF TypeOK, ConfigInv
    <2>. QED BY <1>0, <1>7, <2>2, <2>3, RequestKeeps
  <1>13. CASE Restart(i)
    <2>2. /\ registry' = registry /\ config' = config
          /\ Room(i) /\ Becomes(i, Restarted(Now(i), config[i])) /\ config[i] \in Configs
          /\ UNCHANGED <<hearing, timers, manager, remaining, crossed>>
      BY <1>1, <1>13 DEF Restart, Known
    <2>3. /\ registry' \in [Instances -> {"absent", "enabled", "disabled", "deleted"}]
          /\ config' \in [Instances -> Configs \cup {None}]
          /\ \A j \in Instances : registry'[j] # "absent" => config'[j] \in Configs
      BY <1>2, <2>2 DEF TypeOK, ConfigInv
    <2>. QED BY <1>0, <1>4, <1>6, <2>2, <2>3, RequestKeeps
  <1>14. CASE Delete(i)
    <2>2. /\ registry' = [registry EXCEPT ![i] = "deleted"] /\ config' = config
          /\ StopReaches({i}) /\ Becomes(i, StopNow(Now(i), Stopped)) /\ config[i] \in Configs
          /\ UNCHANGED <<hearing, timers, manager, remaining>>
      BY <1>1, <1>14 DEF Delete
    <2>3. /\ registry' \in [Instances -> {"absent", "enabled", "disabled", "deleted"}]
          /\ config' \in [Instances -> Configs \cup {None}]
          /\ \A j \in Instances : registry'[j] # "absent" => config'[j] \in Configs
      BY <1>2, <2>2 DEF TypeOK, ConfigInv
    <2>. QED BY <1>0, <1>7, <2>2, <2>3, RequestKeeps
  <1>. QED BY <1>8, <1>9, <1>10, <1>11, <1>12, <1>13, <1>14 DEF Request

\* A child's exit: the handler of spawnInstance.
LEMMA Exited ==
  ASSUME IInv, NEW i \in Instances, NEW p \in Slots, ChildExits(i, p)
  PROVE  IInv' /\ Carried
  <1> DEFINE t == State(Reaped(rec[i]), [proc[i] EXCEPT ![p] = None])
             g == proc[i][p].onExit
  <1>1. /\ Quiet /\ hearing[i] = <<>> /\ Sound(Now(i), <<>>) /\ Now(i).rec = rec[i] /\ Now(i).proc = proc[i]
        /\ p \in Kids(Now(i)) /\ (~crossed[i] => Straight(Now(i), <<>>))
    <2>1. hearing[i] = <<>> /\ Sound(Now(i), hearing[i]) /\ Now(i).rec = rec[i] /\ Now(i).proc = proc[i]
          /\ (~crossed[i] => Straight(Now(i), hearing[i]))
      BY DEF ChildExits, Quiet, IInv, Now, State
    <2>. QED BY <2>1 DEF ChildExits, Kids, Live
  <1>2. /\ Sound(t, g) /\ (Pending(t, g) <=> Pending(Now(i), <<>>))
        /\ (Awaits(t, g) <=> Awaits(Now(i), <<>>)) /\ t.rec.status # "none"
        /\ (Straight(Now(i), <<>>) => Straight(t, g))
    BY <1>1, ReapedSound
  <1>3. /\ Becomes(i, t) /\ hearing' = [hearing EXCEPT ![i] = g] /\ manager' = manager /\ remaining' = remaining
        /\ registry' = registry /\ config' = config /\ crossed' = crossed
    BY DEF ChildExits
  <1> HIDE DEF t, g
  <1>4. timers' \in [Instances -> 0..MaxTimers] /\ \A j \in Instances : j # i => timers'[j] = timers[j]
    <2>1. timers \in [Instances -> 0..MaxTimers] /\ MaxTimers \in Nat
      BY Bounds DEF IInv, TypeOK
    <2>2. WillBackOff(i) => timers[i] + 1 \in 0..MaxTimers
      BY <2>1 DEF ChildExits
    <2>. QED BY <2>1, <2>2 DEF ChildExits
  <1>5. manager # "down"
    <2>1. Now(i).rec.status # "none"
      BY <1>1 DEF Sound, Held
    <2>. QED BY <1>1, <2>1 DEF IInv, PhaseInv, NoRecord
  <1>6. /\ registry' \in [Instances -> {"absent", "enabled", "disabled", "deleted"}]
        /\ config' \in [Instances -> Configs \cup {None}]
        /\ \A j \in Instances : registry'[j] # "absent" => config'[j] \in Configs
        /\ crossed' \in [Instances -> BOOLEAN]
    BY <1>3 DEF IInv, TypeOK, ConfigInv
  <1>. QED BY <1>1, <1>2, <1>3, <1>4, <1>5, <1>6, StepKeeps

\* A child that an earlier manager left exits.
LEMMA Forsaken ==
  ASSUME IInv, NEW i \in Instances, NEW p \in Slots, OrphanExits(i, p)
  PROVE  IInv' /\ Carried
  <1> DEFINE t == State(rec[i], [proc[i] EXCEPT ![p] = None])
  <1>1. Sound(Now(i), hearing[i]) /\ Now(i).rec = rec[i] /\ Now(i).proc = proc[i]
        /\ proc[i][p] # None /\ ~proc[i][p].ours /\ (~crossed[i] => Straight(Now(i), hearing[i]))
    BY DEF OrphanExits, IInv, Now, State, Live
  <1>2. /\ Sound(t, hearing[i]) /\ (Pending(t, hearing[i]) <=> Pending(Now(i), hearing[i]))
        /\ (Awaits(t, hearing[i]) <=> Awaits(Now(i), hearing[i]))
        /\ (Straight(Now(i), hearing[i]) => Straight(t, hearing[i]))
    BY <1>1, OrphanGone
  <1>3. TypeOK /\ ConfigInv /\ PhaseInv
    BY DEF IInv
  <1>4. /\ Becomes(i, t) /\ hearing' = [hearing EXCEPT ![i] = hearing[i]] /\ t.rec = rec[i]
        /\ manager' = manager /\ remaining' = remaining /\ timers' = timers /\ registry' = registry /\ config' = config
        /\ crossed' = crossed
    BY <1>3 DEF OrphanExits, Becomes, State, TypeOK
  <1> HIDE DEF t
  <1>5. manager = "down" => t.rec = NoRecord /\ hearing[i] = <<>> /\ timers'[i] = 0
    BY <1>3, <1>4 DEF PhaseInv
  <1>6. /\ registry' \in [Instances -> {"absent", "enabled", "disabled", "deleted"}]
        /\ config' \in [Instances -> Configs \cup {None}]
        /\ timers' \in [Instances -> 0..MaxTimers]
        /\ \A j \in Instances : registry'[j] # "absent" => config'[j] \in Configs
        /\ timers'[i] > 0 => t.rec.status # "none"
        /\ crossed' \in [Instances -> BOOLEAN]
    BY <1>3, <1>4 DEF TypeOK, ConfigInv
  <1>. QED BY <1>1, <1>2, <1>4, <1>5, <1>6, StepKeeps

\* The backoff is over: nothing if the instance is to stop, or a new child.
LEMMA BackedOff ==
  ASSUME IInv, NEW i \in Instances, Backoff(i)
  PROVE  IInv' /\ Carried
  <1> DEFINE t == BackoffFires(i)
  <1>1. /\ hearing[i] = <<>> /\ Sound(Now(i), <<>>) /\ Now(i).rec = rec[i] /\ Now(i).proc = proc[i]
        /\ TypeOK /\ ConfigInv /\ PhaseInv /\ (~crossed[i] => Straight(Now(i), <<>>))
    BY DEF Backoff, Quiet, IInv, Now, State
  <1>2. /\ timers[i] \in Nat /\ timers[i] > 0 /\ timers[i] <= MaxTimers /\ MaxTimers \in Nat
        /\ rec[i].status # "none" /\ rec[i].instance \in Configs /\ manager # "down"
    BY <1>1, Bounds DEF Backoff, TypeOK, ConfigInv, PhaseInv, Sound
  <1>3. ~rec[i].intentionalStop /\ rec[i].status # "running" => \E p \in Slots : Now(i).proc[p] = None
    BY <1>1 DEF Backoff, RoomToSpawn, Live
  <1>4. /\ Sound(t, <<>>) /\ (Pending(t, <<>>) <=> Pending(Now(i), <<>>))
        /\ (Awaits(t, <<>>) <=> Awaits(Now(i), <<>>)) /\ t.rec.status # "none"
        /\ (~crossed[i] => Straight(t, <<>>))
    <2>1. CASE rec[i].intentionalStop
      BY <1>1, <1>2, <2>1 DEF BackoffFires
    <2>2. CASE ~rec[i].intentionalStop
      <3>1. t = Spawned(Now(i), rec[i].instance)
        BY <2>2 DEF BackoffFires
      <3> HIDE DEF t
      <3>. QED BY <1>1, <1>2, <1>3, <2>2, <3>1, SpawnedAlone
    <2>. QED BY <2>1, <2>2
  <1>5. /\ Becomes(i, t) /\ hearing' = [hearing EXCEPT ![i] = <<>>] /\ manager' = manager /\ remaining' = remaining
        /\ registry' = registry /\ config' = config /\ timers' = [timers EXCEPT ![i] = @ - 1]
        /\ crossed' = crossed
    BY <1>1 DEF Backoff, TypeOK
  <1> HIDE DEF t
  <1>6. timers' \in [Instances -> 0..MaxTimers] /\ \A j \in Instances : j # i => timers'[j] = timers[j]
    <2>1. timers[i] - 1 \in 0..MaxTimers
      BY <1>2
    <2>. QED BY <1>1, <1>5, <2>1 DEF TypeOK
  <1>7. /\ registry' \in [Instances -> {"absent", "enabled", "disabled", "deleted"}]
        /\ config' \in [Instances -> Configs \cup {None}]
        /\ \A j \in Instances : registry'[j] # "absent" => config'[j] \in Configs
        /\ crossed' \in [Instances -> BOOLEAN]
    BY <1>1, <1>5 DEF TypeOK, ConfigInv
  <1>. QED BY <1>1, <1>2, <1>4, <1>5, <1>6, <1>7, StepKeeps

\* A crash is forgiven.
LEMMA Forgiven ==
  ASSUME IInv, NEW i \in Instances, Forgive(i)
  PROVE  IInv' /\ Carried
  <1> DEFINE r == [rec[i] EXCEPT !.restartTimes = @ - 1]
             t == State(r, proc[i])
  <1>1. /\ hearing[i] = <<>> /\ Sound(Now(i), hearing[i]) /\ Now(i).rec = rec[i] /\ Now(i).proc = proc[i]
        /\ TypeOK /\ ConfigInv /\ PhaseInv /\ (~crossed[i] => Straight(Now(i), hearing[i]))
    BY DEF Forgive, Quiet, IInv, Now, State
  <1>2. /\ r \in Record /\ r.child = rec[i].child /\ r.status = rec[i].status /\ r.instance = rec[i].instance
        /\ rec[i].restartTimes # 0
    <2>1. rec[i] \in Record /\ rec[i].restartTimes \in 0..MaxRestarts /\ MaxRestarts \in Nat
          /\ rec[i].restartTimes > 0
      BY <1>1, Bounds DEF TypeOK, Record, Forgive
    <2>2. rec[i].restartTimes - 1 \in 0..MaxRestarts
      BY <2>1
    <2>. QED BY <2>1, <2>2 DEF Record
  <1>3. /\ hearing' = [hearing EXCEPT ![i] = hearing[i]] /\ manager' = manager /\ remaining' = remaining
        /\ registry' = registry /\ config' = config /\ timers' = timers /\ proc' = proc
        /\ rec' = [rec EXCEPT ![i] = r] /\ crossed' = crossed
    BY <1>1 DEF Forgive, TypeOK
  <1>4. rec[i].status # "none" => rec[i].instance \in Configs
    BY <1>1 DEF Sound
  <1> HIDE DEF r
  <1>5. /\ Sound(t, hearing[i]) /\ t.rec = r /\ t.proc = proc[i]
        /\ (Pending(t, hearing[i]) <=> Pending(Now(i), hearing[i]))
        /\ (Awaits(t, hearing[i]) <=> Awaits(Now(i), hearing[i]))
        /\ (Straight(Now(i), hearing[i]) => Straight(t, hearing[i]))
    BY <1>1, <1>2, <1>4, Touched
  <1> HIDE DEF t
  <1>6. Becomes(i, t)
    BY <1>1, <1>3, <1>5 DEF Becomes, TypeOK
  <1>7. manager # "down"
    BY <1>1, <1>2 DEF PhaseInv, NoRecord
  <1>8. /\ registry' \in [Instances -> {"absent", "enabled", "disabled", "deleted"}]
        /\ config' \in [Instances -> Configs \cup {None}]
        /\ timers' \in [Instances -> 0..MaxTimers]
        /\ \A j \in Instances : registry'[j] # "absent" => config'[j] \in Configs
        /\ timers'[i] > 0 => t.rec.status # "none"
        /\ crossed' \in [Instances -> BOOLEAN]
    BY <1>1, <1>2, <1>3, <1>5 DEF TypeOK, ConfigInv
  <1>. QED BY <1>1, <1>3, <1>5, <1>6, <1>7, <1>8, StepKeeps

\* The manager exits.
LEMMA ExitKeeps ==
  ASSUME IInv, ManagerExits, UNCHANGED <<registry, config>>
  PROVE  IInv'
  <1>1. /\ manager' = "down" /\ remaining' = 0 /\ registry' = registry /\ config' = config
        /\ \A i \in Instances : /\ rec'[i] = NoRecord /\ proc'[i] = Orphaned(proc[i])
                                /\ hearing'[i] = <<>> /\ timers'[i] = 0
        /\ hearing' = [i \in Instances |-> <<>>] /\ timers' = [i \in Instances |-> 0]
        /\ rec' = [i \in Instances |-> NoRecord] /\ proc' = [i \in Instances |-> Orphaned(proc[i])]
        /\ crossed' = [i \in Instances |-> FALSE]
    BY DEF ManagerExits
  <1>2. ASSUME NEW i \in Instances
        PROVE  LET t == State(rec'[i], proc'[i])
               IN Sound(t, hearing'[i]) /\ Straight(t, hearing'[i]) /\ ~Awaits(t, hearing'[i])
    <2>1. Sound(Now(i), hearing[i]) /\ Now(i).proc = proc[i]
      BY DEF IInv, Now, State
    <2>. QED BY <1>1, <2>1, OrphanedSound
  <1> DEFINE A == {i \in Instances : Awaits(State(rec'[i], proc'[i]), hearing'[i])}
  <1>3. A = {}
    BY <1>2
  <1> HIDE DEF A
  <1>4. Cardinality(A) = 0 /\ 0 \in 0..Cardinality(Instances) /\ 0 \in 0..MaxTimers
    <2>1. A \subseteq Instances
      BY <1>3
    <2>2. Cardinality(Instances) \in Nat /\ MaxTimers \in Nat
      BY Bounds, FS_CardinalityType
    <2>. QED BY <1>3, <2>1, <2>2, Counted
  <1>5. TypeOK'
    <2>1. \A i \in Instances : rec'[i] \in Record /\ proc'[i] \in [Slots -> Process \cup {None}]
      BY <1>2 DEF Sound, State
    <2>2. <<>> \in Seq(Listeners)
      BY EmptySeq
    <2>. QED BY <1>1, <1>4, <2>1, <2>2 DEF IInv, TypeOK
  <1>6. PhaseInv'
    BY <1>1 DEF PhaseInv
  <1>7. CountInv'
    BY <1>1, <1>4 DEF CountInv, Awaited, A, Now
  <1>8. ConfigInv'
    BY <1>1 DEF ConfigInv, IInv
  <1>9. (\A i \in Instances : Sound(Now(i), hearing[i]))'
        /\ (\A i \in Instances : ~crossed[i] => Straight(Now(i), hearing[i]))'
    BY <1>2 DEF Now
  <1>. QED BY <1>5, <1>6, <1>7, <1>8, <1>9 DEF IInv

\* The listener at the head is called.
LEMMA Listens ==
  ASSUME IInv, NEW i \in Instances, Hears(i)
  PROVE  IInv'
  <1> DEFINE h == hearing[i]
             l == Head(h)
             t == Heard(Now(i), l)
  <1>1. /\ h # <<>> /\ Sound(Now(i), h) /\ h \in Seq(Listeners)
        /\ TypeOK /\ ConfigInv /\ PhaseInv /\ CountInv /\ (~crossed[i] => Straight(Now(i), h))
    BY DEF Hears, IInv, TypeOK
  <1>2. manager # "down"
    BY <1>1 DEF PhaseInv
  <1>3. CASE LastStop(l)
    <2>1. ManagerExits /\ UNCHANGED <<registry, config>> /\ remaining = 1
      BY <1>3 DEF Hears, LastStop
    <2>. QED BY <2>1, ExitKeeps
  <1>4. CASE ~LastStop(l)
    <2>1. /\ Becomes(i, t) /\ hearing' = [hearing EXCEPT ![i] = Tail(h)]
          /\ remaining' = IF l = StoppedAll THEN remaining - 1 ELSE remaining
          /\ timers' = timers /\ manager' = manager /\ registry' = registry /\ config' = config
          /\ crossed' = crossed
          /\ (l \in Configs /\ Now(i).rec.status # "running" => \E p \in Slots : Now(i).proc[p] = None)
      BY <1>1, <1>4 DEF Hears, TypeOK, RoomToSpawn, Live, Now, State
    <2>2. /\ Sound(t, Tail(h)) /\ (Straight(Now(i), h) => Straight(t, Tail(h)))
          /\ (Awaits(Now(i), h) <=> Awaits(t, Tail(h)) \/ l = StoppedAll)
          /\ (l = StoppedAll => ~Awaits(t, Tail(h)))
          /\ t.rec.status # "none"
      BY <1>1, <2>1, HeardSound
    <2> HIDE DEF t, l, h
    <2>5. /\ registry' \in [Instances -> {"absent", "enabled", "disabled", "deleted"}]
          /\ config' \in [Instances -> Configs \cup {None}]
          /\ timers' \in [Instances -> 0..MaxTimers]
          /\ \A j \in Instances : registry'[j] # "absent" => config'[j] \in Configs
          /\ \A j \in Instances : j # i => timers'[j] = timers[j]
          /\ crossed' \in [Instances -> BOOLEAN]
      BY <1>1, <2>1 DEF TypeOK, ConfigInv
    <2>6. \/ remaining' = remaining /\ (Awaits(t, Tail(h)) <=> Awaits(Now(i), hearing[i]))
          \/ /\ remaining' = remaining - 1 /\ remaining # 1 /\ remaining # 0
             /\ Awaits(Now(i), hearing[i]) /\ ~Awaits(t, Tail(h))
      <3>1. CASE l = StoppedAll
        <4>1. Awaits(Now(i), hearing[i]) /\ ~Awaits(t, Tail(h)) /\ i \in Awaited
          BY <2>2, <3>1 DEF Awaited, h
        <4>2. remaining # 0
          BY <1>1, <4>1, Counted DEF CountInv, Awaited
        <4>3. remaining # 1 /\ remaining' = remaining - 1
          BY <1>4, <2>1, <3>1 DEF LastStop
        <4>. QED BY <4>1, <4>2, <4>3
      <3>2. CASE l # StoppedAll
        BY <2>1, <2>2, <3>2 DEF h
      <3>. QED BY <3>1, <3>2
    <2>7. timers'[i] > 0 => t.rec.status # "none"
      BY <2>2
    <2>8. ~crossed'[i] => Straight(t, Tail(h))
      BY <1>1, <2>1, <2>2
    <2>. QED BY <1>2, <2>1, <2>2, <2>5, <2>6, <2>7, <2>8, StepKeeps
  <1>. QED BY <1>3, <1>4

\* A shutdown asks every instance to stop: it waits for those that have a child.
LEMMA ShutDown ==
  ASSUME IInv, Shutdown
  PROVE  IInv' /\ (manager' # "down" => Carried)
  <1> DEFINE known == {i \in Instances : rec[i].status # "none"}
             waited == {i \in known : rec[i].child # None}
             s == [i \in Instances |-> StopNow(Now(i), StoppedAll)]
  <1>1. manager = "up" /\ Quiet /\ UNCHANGED <<registry, config>>
    BY DEF Shutdown
  <1>2. TypeOK /\ ConfigInv
    BY DEF IInv
  <1>3. ASSUME NEW i \in Instances
        PROVE  /\ Sound(Now(i), <<>>) /\ hearing[i] = <<>> /\ ~Awaits(Now(i), <<>>)
               /\ ~crossed[i] => Straight(Now(i), <<>>)
               /\ RestartPending(i) <=> Pending(Now(i), <<>>)
               /\ Now(i).rec = rec[i]
    BY <1>1, Open
  <1>4. CASE waited = {}
    <2>1. ManagerExits
      BY <1>4 DEF Shutdown
    <2>2. manager' = "down"
      BY <2>1 DEF ManagerExits
    <2>. QED BY <1>1, <2>1, <2>2, ExitKeeps
  <1>5. CASE waited # {}
    <2>1. /\ manager' = "stopping" /\ remaining' = Cardinality(waited)
          /\ rec' = [i \in Instances |-> s[i].rec] /\ proc' = [i \in Instances |-> s[i].proc]
          /\ StopReaches(Instances)
          /\ hearing' = hearing /\ timers' = timers /\ registry' = registry /\ config' = config
      BY <1>1, <1>5 DEF Shutdown
    <2>2. crossed' \in [Instances -> BOOLEAN]
          /\ \A i \in Instances : ~crossed'[i] => ~crossed[i] /\ ~RestartPending(i)
      <3>1. \A i \in Instances : RestartPending(i) \in BOOLEAN
        BY DEF RestartPending, Has
      <3>2. crossed' = [i \in Instances |-> crossed[i] \/ (i \in Instances /\ RestartPending(i))]
        BY <2>1 DEF StopReaches
      <3>. QED BY <1>2, <3>1, <3>2 DEF TypeOK
    <2>3. ASSUME NEW i \in Instances
          PROVE  /\ rec'[i] \in Record /\ proc'[i] \in [Slots -> Process \cup {None}]
                 /\ Sound(State(rec'[i], proc'[i]), hearing'[i])
                 /\ ~crossed'[i] => Straight(State(rec'[i], proc'[i]), hearing'[i])
                 /\ Pending(State(rec'[i], proc'[i]), hearing'[i]) <=> Pending(Now(i), <<>>)
                 /\ Awaits(State(rec'[i], proc'[i]), hearing'[i]) <=> rec[i].child # None
                 /\ rec[i].status # "none" => rec'[i].status # "none"
      <3> DEFINE t == StopNow(Now(i), StoppedAll)
      <3>1. StoppedAll \in {Stopped, StoppedAll}
        OBVIOUS
      <3>2. /\ Sound(t, <<>>) /\ (Pending(t, <<>>) <=> Pending(Now(i), <<>>))
            /\ (Awaits(t, <<>>) <=> rec[i].child # None)
            /\ (rec[i].status # "none" <=> t.rec.status # "none")
            /\ (Straight(Now(i), <<>>) /\ ~Pending(Now(i), <<>>) => Straight(t, <<>>))
        BY <1>3, <3>1, StopNowSound
      <3>3. rec'[i] = t.rec /\ proc'[i] = t.proc /\ hearing'[i] = <<>>
        BY <1>3, <2>1
      <3> HIDE DEF t
      <3>4. State(rec'[i], proc'[i]) = t /\ t.rec \in Record /\ t.proc \in [Slots -> Process \cup {None}]
        BY <3>2, <3>3 DEF Sound, State
      <3>5. ~crossed'[i] => Straight(t, <<>>)
        BY <1>3, <2>2, <3>2
      <3>. QED BY <3>2, <3>3, <3>4, <3>5
    <2> HIDE DEF s
    <2> DEFINE A == {i \in Instances : Awaits(State(rec'[i], proc'[i]), hearing'[i])}
    <2>4. \A i \in Instances : rec[i].child # None => rec[i].status # "none"
      BY <1>3, ChildIs
    <2>5. A = waited
      BY <2>3, <2>4
    <2>6. waited \subseteq Instances
      OBVIOUS
    <2> HIDE DEF A, waited
    <2>7. remaining' \in 0..Cardinality(Instances) /\ remaining' # 0 /\ Cardinality(Instances) \in Nat
      BY <1>5, <2>1, <2>6, Counted, Bounds, FS_CardinalityType
    <2>8. remaining' > 0
      BY <2>7
    <2>9. rec' \in [Instances -> Record] /\ proc' \in [Instances -> [Slots -> Process \cup {None}]]
      BY <2>1, <2>3
    <2>10. TypeOK'
      BY <1>2, <2>1, <2>2, <2>7, <2>9 DEF TypeOK
    <2>11. PhaseInv'
      BY <2>1, <2>8 DEF PhaseInv
    <2>12. CountInv'
      BY <2>1, <2>5 DEF CountInv, Awaited, A, Now
    <2>13. ConfigInv'
      BY <1>2, <2>1, <2>3 DEF ConfigInv
    <2>14. (\A i \in Instances : Sound(Now(i), hearing[i]))'
           /\ (\A i \in Instances : ~crossed[i] => Straight(Now(i), hearing[i]))'
      BY <2>3 DEF Now
    <2>15. Carried
      <3>1. \A i \in Instances : RestartPending(i)' <=> Pending(State(rec'[i], proc'[i]), hearing'[i])
        BY DEF RestartPending, Pending, State, Live
      <3>. QED BY <1>3, <2>3, <3>1 DEF Carried
    <2>. QED BY <2>10, <2>11, <2>12, <2>13, <2>14, <2>15 DEF IInv
  <1>. QED BY <1>4, <1>5

\* A new manager spawns every enabled instance.
LEMMA Booted ==
  ASSUME IInv, Boot
  PROVE  IInv' /\ Carried
  <1> DEFINE s == [i \in Instances |->
                     IF registry[i] = "enabled" THEN Spawned(Now(i), config[i]) ELSE Now(i)]
  <1>1. /\ manager = "down" /\ manager' = "up" /\ \A i \in Instances : Live(i) # Slots
        /\ rec' = [i \in Instances |-> s[i].rec] /\ proc' = [i \in Instances |-> s[i].proc]
        /\ registry' = registry /\ config' = config /\ hearing' = hearing /\ timers' = timers /\ remaining' = remaining
        /\ crossed' = crossed
    BY DEF Boot
  <1>2. TypeOK /\ ConfigInv /\ PhaseInv /\ CountInv
    BY DEF IInv
  <1>3. remaining = 0
    <2>1. remaining \in 0..Cardinality(Instances) /\ Cardinality(Instances) \in Nat /\ ~(remaining > 0)
      BY <1>1, <1>2, Bounds, FS_CardinalityType DEF TypeOK, PhaseInv
    <2>. QED BY <2>1
  <1>4. Awaited = {}
    <2>1. Awaited \subseteq Instances
      BY DEF Awaited
    <2>. QED BY <1>2, <1>3, <2>1, Counted DEF CountInv
  <1>5. ASSUME NEW i \in Instances
        PROVE  /\ rec'[i] \in Record /\ proc'[i] \in [Slots -> Process \cup {None}]
               /\ Sound(State(rec'[i], proc'[i]), hearing'[i])
               /\ ~Awaits(State(rec'[i], proc'[i]), hearing'[i])
               /\ ~crossed'[i] => Straight(State(rec'[i], proc'[i]), hearing'[i])
               /\ ~RestartPending(i)
    <2>1. /\ hearing[i] = <<>> /\ Sound(Now(i), <<>>) /\ ~Awaits(Now(i), <<>>)
          /\ ~crossed[i] => Straight(Now(i), <<>>)
          /\ Now(i).rec = rec[i] /\ Now(i).proc = proc[i] /\ rec[i] = NoRecord
      BY <1>1, <1>2, <1>4 DEF PhaseInv, IInv, Awaited, Now, State
    <2>2. \E p \in Slots : Now(i).proc[p] = None
      BY <1>1, <2>1 DEF Live
    <2>3. Sound(s[i], <<>>) /\ ~Awaits(s[i], <<>>) /\ (~crossed[i] => Straight(s[i], <<>>))
      <3>1. CASE registry[i] = "enabled"
        <4>1. config[i] \in Configs /\ s[i] = Spawned(Now(i), config[i])
          BY <1>2, <3>1 DEF ConfigInv
        <4> HIDE DEF s
        <4>. QED BY <2>1, <2>2, <4>1, SpawnedAlone
      <3>2. CASE registry[i] # "enabled"
        BY <2>1, <3>2
      <3>. QED BY <3>1, <3>2
    <2>4. rec'[i] = s[i].rec /\ proc'[i] = s[i].proc /\ hearing'[i] = <<>>
      BY <1>1, <2>1
    <2> HIDE DEF s
    <2>5. State(rec'[i], proc'[i]) = s[i] /\ s[i].rec \in Record /\ s[i].proc \in [Slots -> Process \cup {None}]
      BY <2>3, <2>4 DEF Sound, State
    <2>6. ~RestartPending(i)
      <3>1. Kids(Now(i)) = {}
        BY <2>1 DEF Sound, Held, NoRecord
      <3>2. \A p \in Live(i) : proc[i][p].onExit = <<>>
        BY <2>1, <3>1 DEF Sound, Listened, Kids, Live
      <3>. QED BY <2>1, <3>2, Empty DEF RestartPending
    <2>. QED BY <1>1, <2>3, <2>4, <2>5, <2>6
  <1> HIDE DEF s
  <1> DEFINE A == {i \in Instances : Awaits(State(rec'[i], proc'[i]), hearing'[i])}
  <1>6. A = {}
    BY <1>5
  <1> HIDE DEF A
  <1>7. Cardinality(A) = 0
    <2>1. A \subseteq Instances
      BY <1>6
    <2>. QED BY <1>6, <2>1, Counted
  <1>8. rec' \in [Instances -> Record] /\ proc' \in [Instances -> [Slots -> Process \cup {None}]]
    BY <1>1, <1>5
  <1>9. TypeOK'
    BY <1>1, <1>2, <1>8 DEF TypeOK
  <1>10. PhaseInv'
    BY <1>1, <1>3 DEF PhaseInv
  <1>11. CountInv'
    BY <1>1, <1>3, <1>7 DEF CountInv, Awaited, A, Now
  <1>12. ConfigInv'
    <2>1. \A i \in Instances : timers[i] = 0
      BY <1>1, <1>2 DEF PhaseInv
    <2>. QED BY <1>1, <1>2, <2>1 DEF ConfigInv
  <1>13. (\A i \in Instances : Sound(Now(i), hearing[i]))'
         /\ (\A i \in Instances : ~crossed[i] => Straight(Now(i), hearing[i]))'
    BY <1>5 DEF Now
  <1>. QED BY <1>5, <1>9, <1>10, <1>11, <1>12, <1>13 DEF IInv, Carried

LEMMA Initial == Init => IInv
  <1> SUFFICES ASSUME Init PROVE IInv
    OBVIOUS
  <1> USE DEF Init
  <1>1. NoRecord \in Record /\ 0 \in 0..MaxTimers /\ 0 \in 0..Cardinality(Instances)
    <2>1. 0 \in 0..MaxRestarts /\ 0 \in 0..MaxTimers
      BY Bounds
    <2>2. Cardinality(Instances) \in Nat
      BY Bounds, FS_CardinalityType
    <2>. QED BY <2>1, <2>2 DEF NoRecord, Record
  <1>3. TypeOK
    BY <1>1, Empty DEF TypeOK
  <1>4. ASSUME NEW i \in Instances
        PROVE  /\ Now(i).rec = NoRecord /\ Now(i).proc = [p \in Slots |-> None]
               /\ Now(i) \in [rec : Record, proc : [Slots -> Process \cup {None}]]
    BY <1>1 DEF Now, State
  <1>5. ASSUME NEW i \in Instances
        PROVE  Sound(Now(i), hearing[i]) /\ ~Awaits(Now(i), hearing[i]) /\ Straight(Now(i), hearing[i])
    <2>1. hearing[i] = <<>> /\ Now(i).rec.child = None /\ Now(i).rec.status = "none"
          /\ \A p \in Slots : Now(i).proc[p] = None
      BY <1>4 DEF NoRecord
    <2>2. Kids(Now(i)) = {} /\ Told(Now(i)) = {}
      BY <2>1 DEF Kids, Told
    <2>3. Held(Now(i)) /\ Listened(Now(i), <<>>) /\ Hearing(Now(i), <<>>)
      BY <2>1, <2>2, Empty DEF Held, Listened, Hearing
    <2>. QED BY <1>4, <2>1, <2>2, <2>3, Empty DEF Sound, Awaits, Straight
  <1>6. Awaited = {} /\ Awaited \subseteq Instances
    BY <1>5 DEF Awaited
  <1>7. CountInv
    BY <1>6, Counted DEF CountInv
  <1>8. PhaseInv /\ ConfigInv
    BY DEF PhaseInv, ConfigInv
  <1>. QED BY <1>3, <1>5, <1>7, <1>8 DEF IInv

LEMMA Inductive ==
  ASSUME IInv, [Next]_vars
  PROVE  IInv'
  <1>1. CASE UNCHANGED vars
    <2>1. registry' = registry /\ config' = config /\ rec' = rec /\ proc' = proc /\ hearing' = hearing
          /\ timers' = timers /\ manager' = manager /\ remaining' = remaining /\ crossed' = crossed
      BY <1>1 DEF vars
    <2>2. TypeOK' /\ PhaseInv' /\ ConfigInv' /\ CountInv'
      BY <2>1 DEF IInv, TypeOK, PhaseInv, ConfigInv, CountInv, Awaited, Now
    <2>3. (\A i \in Instances : Sound(Now(i), hearing[i]))'
          /\ (\A i \in Instances : ~crossed[i] => Straight(Now(i), hearing[i]))'
      BY <2>1 DEF IInv, Now
    <2>. QED BY <2>2, <2>3 DEF IInv
  <1>2. CASE Next
    <2>1. CASE Shutdown
      BY <2>1, ShutDown
    <2>2. CASE Boot
      BY <2>2, Booted
    <2>3. CASE \E i \in Instances :
                 \/ Request(i)
                 \/ \E p \in Slots : ChildExits(i, p) \/ OrphanExits(i, p)
                 \/ Hears(i)
                 \/ Backoff(i)
                 \/ Forgive(i)
      BY <2>3, Requested, Exited, Forsaken, Listens, BackedOff, Forgiven
    <2>. QED BY <1>2, <2>1, <2>2, <2>3 DEF Next
  <1>. QED BY <1>1, <1>2

---------------------------------------------------------------------------
(* The theorems.                                                            *)

LEMMA Invariant == Spec => []IInv
  BY Initial, Inductive, PTL DEF Spec

\* Every variable of the supervisor keeps its type; stopAll's counter stays between 0
\* and the number of instances.
THEOREM TypeCorrect == Spec => []TypeOK
  <1>1. IInv => TypeOK
    BY DEF IInv
  <1>. QED BY <1>1, Invariant, PTL

\* GET /instances tells the truth: a record that says running has its child alive; and
\* unless a stop ever crossed a restart of the instance, that child is its only one, and
\* an instance whose record says anything else has none.
THEOREM RecordsMatch == Spec => []RecordMatchesHost
  <1>1. IInv => RecordMatchesHost
    <2> SUFFICES ASSUME IInv, NEW i \in Instances
                 PROVE  /\ rec[i].status = "running" => rec[i].child \in Children(i)
                        /\ ~crossed[i] => Children(i) = IF rec[i].status = "running" THEN {rec[i].child} ELSE {}
      BY DEF RecordMatchesHost
    <2>1. Sound(Now(i), hearing[i]) /\ Now(i).rec = rec[i] /\ Children(i) = Kids(Now(i))
          /\ (~crossed[i] => Straight(Now(i), hearing[i]))
      BY DEF IInv, Now, State, Children, Kids, Live
    <2>2. rec[i].status = "running" => rec[i].child \in Kids(Now(i))
      BY <2>1 DEF Sound, Held
    <2>3. CASE ~crossed[i] /\ rec[i].status = "running"
      BY <2>1, <2>2, <2>3 DEF Straight
    <2>4. CASE ~crossed[i] /\ rec[i].status # "running"
      BY <2>1, <2>4, Childless
    <2>. QED BY <2>1, <2>2, <2>3, <2>4
  <1>. QED BY <1>1, Invariant, PTL

\* A restart that waits for its child to exit ends in a new child that nobody has asked
\* to stop, whatever stops, crashes and timers come meanwhile, as long as the manager lives.
THEOREM HandsOver == Spec => RestartHandsOver
  <1>1. ASSUME IInv, Next, NEW i \in Instances, RestartPending(i), ~RestartPending(i)', manager' # "down"
        PROVE  (\E p \in Children(i) : proc[i][p].onExit = <<>>)'
    <2>1. \A j \in Instances : RestartPending(j) <=> Pending(Now(j), hearing[j])
      BY DEF RestartPending, Pending, Now, State, Live
    <2>2. RestartPending(i)' <=> Pending(State(rec'[i], proc'[i]), hearing'[i])
      BY DEF RestartPending, Pending, State, Live
    <2>3. ~Carried
      BY <1>1 DEF Carried
    <2>4. ~Shutdown /\ ~Boot
      BY <1>1, <2>3, ShutDown, Booted
    <2>5. PICK j \in Instances : \/ Request(j)
                                 \/ \E p \in Slots : ChildExits(j, p) \/ OrphanExits(j, p)
                                 \/ Hears(j)
                                 \/ Backoff(j)
                                 \/ Forgive(j)
      BY <1>1, <2>4 DEF Next
    <2>6. Hears(j)
      BY <1>1, <2>3, <2>5, Requested, Exited, Forsaken, BackedOff, Forgiven
    <2> DEFINE h == hearing[j]
               t == Heard(Now(j), Head(h))
    <2>7. Sound(Now(j), h) /\ h # <<>> /\ TypeOK /\ ~LastStop(Head(h))
      BY <1>1, <2>6 DEF IInv, Hears, ManagerExits
    <2>8. /\ Becomes(j, t) /\ hearing' = [hearing EXCEPT ![j] = Tail(h)]
          /\ (Head(h) \in Configs /\ Now(j).rec.status # "running" => \E p \in Slots : Now(j).proc[p] = None)
      BY <2>6, <2>7 DEF Hears, RoomToSpawn, Live, Now, State
    <2>9. /\ Sound(t, Tail(h))
          /\ Pending(Now(j), h) => Pending(t, Tail(h)) \/ Head(h) \in Configs
          /\ Head(h) \in Configs => t.rec.status = "running" /\ t.proc[t.rec.child].onExit = <<>>
      BY <2>7, <2>8, HeardSound
    <2> HIDE DEF t
    <2>10. t = State(t.rec, t.proc)
      BY <2>9 DEF Sound, State
    <2>11. rec'[j] = t.rec /\ proc'[j] = t.proc /\ hearing'[j] = Tail(h)
      BY <2>7, <2>8 DEF Becomes, TypeOK
    <2>12. j = i
      <3>1. ASSUME j # i PROVE rec'[i] = rec[i] /\ proc'[i] = proc[i] /\ hearing'[i] = hearing[i]
        BY <2>7, <2>8, <3>1 DEF Becomes, TypeOK
      <3>2. j # i => State(rec'[i], proc'[i]) = Now(i)
        BY <3>1 DEF Now
      <3>. QED BY <1>1, <2>1, <2>2, <3>1, <3>2
    <2> HIDE DEF h
    <2>13. Head(h) \in Configs
      BY <1>1, <2>1, <2>2, <2>9, <2>10, <2>11, <2>12 DEF h
    <2>14. t.rec.child \in Slots /\ t.rec.child \in Kids(t) /\ t.proc[t.rec.child].onExit = <<>>
      BY <2>9, <2>13 DEF Sound, Held, Kids
    <2>15. t.rec.child \in Children(i)'
      BY <2>11, <2>12, <2>14 DEF Kids, Children, Live
    <2>. QED BY <2>11, <2>12, <2>14, <2>15
  <1>2. ASSUME IInv, UNCHANGED vars, NEW i \in Instances, RestartPending(i)
        PROVE  RestartPending(i)'
    BY <1>2 DEF vars, RestartPending, Live
  <1>3. ASSUME IInv, [Next]_vars
        PROVE  [\A i \in Instances : (RestartPending(i) /\ ~RestartPending(i)' /\ manager' # "down") =>
                  (\E p \in Children(i) : proc[i][p].onExit = <<>>)']_vars
    BY <1>1, <1>2, <1>3
  <1>. QED BY <1>3, Invariant, PTL DEF Spec, RestartHandsOver

\* A shutdown ends the manager only when every child it told to stop has exited: the
\* counter of stopAll can reach zero no earlier.
THEOREM ReapedAll == Spec => ReapsBeforeExit
  <1>1. ASSUME IInv, Next, manager = "stopping", manager' = "down", NEW i \in Instances, NEW p \in Children(i)
        PROVE  ~Has(proc[i][p].onExit, {StoppedAll})
    <2>1. ~Shutdown /\ ~Boot
      BY <1>1 DEF Shutdown, Boot
    <2>2. PICK j \in Instances : \/ Request(j)
                                 \/ \E q \in Slots : ChildExits(j, q) \/ OrphanExits(j, q)
                                 \/ Hears(j)
                                 \/ Backoff(j)
                                 \/ Forgive(j)
      BY <1>1, <2>1 DEF Next
    <2>3. Hears(j) /\ LastStop(Head(hearing[j]))
      BY <1>1, <2>2 DEF Request, ChildExits, OrphanExits, Backoff, Forgive, Hears
    <2>4. /\ hearing[j] # <<>> /\ Head(hearing[j]) = StoppedAll /\ remaining = 1
          /\ hearing[j] \in Seq(Listeners) /\ Sound(Now(j), hearing[j])
          /\ Now(j).rec = rec[j] /\ Now(j).proc = proc[j]
      BY <1>1, <2>3 DEF Hears, LastStop, IInv, TypeOK, Now, State
    <2>5. 1 \in DOMAIN hearing[j] /\ hearing[j][1] = StoppedAll
      BY <2>4
    <2>6. j \in Awaited /\ Awaited \subseteq Instances
      BY <2>5 DEF Awaited, Awaits, Has
    <2>7. Awaited = {j}
      <3>1. Cardinality(Awaited \ {j}) = 0 /\ Awaited \ {j} \subseteq Instances
        <4>1. Cardinality(Awaited) = 1
          BY <1>1, <2>4 DEF IInv, CountInv
        <4>2. Cardinality(Awaited \ {j}) = Cardinality(Awaited) - 1
          BY <2>6, Counted
        <4>. QED BY <2>6, <4>1, <4>2
      <3>2. Awaited \ {j} = {}
        BY <3>1, Counted
      <3>. QED BY <2>6, <3>2
    <2>8. CASE i # j
      <3>1. ~Awaits(Now(i), hearing[i])
        BY <2>7, <2>8 DEF Awaited
      <3>. QED BY <1>1, <3>1 DEF Awaits, Told, Children, Live, Now, State
    <2>9. CASE i = j
      <3>1. Has(hearing[j], {StoppedAll})
        BY <2>5 DEF Has
      <3>2. Told(Now(j)) = {}
        BY <2>4, <3>1 DEF Sound, Listened
      <3>. QED BY <1>1, <2>4, <2>9, <3>2 DEF Told, Children, Live
    <2>. QED BY <2>8, <2>9
  <1>2. ASSUME IInv, [Next]_vars
        PROVE  [(manager = "stopping" /\ manager' = "down") =>
                  \A i \in Instances : \A p \in Children(i) : ~Has(proc[i][p].onExit, {StoppedAll})]_vars
    BY <1>1, <1>2
  <1>. QED BY <1>2, Invariant, PTL DEF Spec, ReapsBeforeExit

=============================================================================

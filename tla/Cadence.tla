------------------------------- MODULE Cadence -------------------------------
(***************************************************************************)
(* When a scheduled job runs (shared/schedules.js): a schedule as people    *)
(* write it is compiled to five cron fields, the fields to sets, the sets   *)
(* matched against the clock, and the next run found by scanning minutes.   *)
(* The dashboard's form (Schedules.vue) reads a stored schedule back and    *)
(* saves it again.  The Scheduler module takes the outcome as its Crons.    *)
(***************************************************************************)
EXTENDS Integers, Sequences, FiniteSets

CONSTANTS
  LastMinute, LastHour, LastDom, LastMonth, \* the ends of the ranges: 59, 23, 31, 12
  Written,  \* schedules that arrive over the API
  Toggled,  \* days that are clicked in the form
  Horizon,  \* minutes the clock is followed for
  None

VARIABLES
  job,      \* the stored job: its schedule as written, its cron; None before
  form,     \* the edit form: open on that job, touched or not; None while closed
  before,   \* the cron the form was opened on
  now,
  next      \* next_run

vars == <<job, form, before, now, next>>

Fields == {"minute", "hour", "dom", "month", "dow"}
First == [minute |-> 0, hour |-> 0, dom |-> 1, month |-> 1, dow |-> 0]
Last == [minute |-> LastMinute, hour |-> LastHour, dom |-> LastDom, month |-> LastMonth, dow |-> 6]

\* Local time of minute t; months are as long as each other, and start on a Sunday.
Date(t) ==
  LET day == t \div ((LastMinute + 1) * (LastHour + 1)) IN
  [minute |-> t % (LastMinute + 1), hour |-> (t \div (LastMinute + 1)) % (LastHour + 1),
   dom |-> (day % LastDom) + 1, month |-> ((day \div LastDom) % LastMonth) + 1, dow |-> day % 7]

---------------------------------------------------------------------------
\* A cron field is written as parts: "*", "n" or "a-b", each with "/step" or without (step 1).
Star == [range |-> "*", lo |-> 0, hi |-> 0, step |-> 1]
Each(n) == [range |-> "n", lo |-> n, hi |-> n, step |-> 1]

Bad == {}  \* a field that throws: there are no empty ones
PartSet(f, p) ==
  LET lo == IF p.range = "*" THEN First[f] ELSE p.lo
      hi == IF p.range = "*" THEN Last[f] ELSE p.hi IN
  IF p.step < 1 \/ lo < First[f] \/ hi > Last[f] \/ lo > hi THEN Bad
  ELSE {v \in lo..hi : (v - lo) % p.step = 0}
parseField(f, parts) ==
  IF \E p \in parts : PartSet(f, p) = Bad THEN Bad ELSE UNION {PartSet(f, p) : p \in parts}

\* The sets of the five fields, and whether each is a bare star.
parseCron(c) == [f \in Fields |-> [set |-> parseField(f, c[f]), star |-> c[f] = {Star}]]
Valid(c) == \A f \in Fields : parseField(f, c[f]) # Bad

\* A day as written: a number, a name, or what Number() made of a name.
DayOf(d) == IF d.as \in {"number", "name"} /\ d.n \in 0..6 THEN {d.n} ELSE {}
Days_NoFilter(days) == {d.n : d \in days}
Days(days) == UNION {DayOf(d) : d \in days}

Clamp(n) == IF n < 1 THEN 1 ELSE IF n > LastMinute THEN LastMinute ELSE n
Every == [f \in Fields |-> {Star}]
DowOf_Monday(days) == {Each((d + 6) % 7) : d \in Days(days)}
DowOf(days) == {Each(d) : d \in Days(days)}

\* None when it throws.
toCron(s) ==
  LET c == CASE s.by = "cron" -> s.cron
             [] s.by = "every" -> [Every EXCEPT !.minute = {[Star EXCEPT !.step = Clamp(s.n)]}]
             [] s.by = "time" -> [Every EXCEPT !.minute = {Each(s.minute)}, !.hour = {Each(s.hour)},
                                    !.dow = IF Days(s.days) = {} THEN {Star} ELSE DowOf(s.days)]
  IN IF (s.by = "every" => s.n # 0) /\ Valid(c) THEN c ELSE None

\* Days of the month and of the week: either will do when both are restricted.
DaysMatch_Both(c, d) == d.dom \in c.dom.set /\ d.dow \in c.dow.set
DaysMatch(c, d) ==
  LET domOk == d.dom \in c.dom.set   dowOk == d.dow \in c.dow.set IN
  \/ c.dom.star /\ c.dow.star
  \/ c.dom.star /\ dowOk
  \/ c.dow.star /\ domOk
  \/ ~c.dom.star /\ ~c.dow.star /\ (domOk \/ dowOk)
matches(c, t) ==
  LET d == Date(t) IN
  d.minute \in c.minute.set /\ d.hour \in c.hour.set /\ d.month \in c.month.set /\ DaysMatch(c, d)

\* The scan: minute after minute, strictly after t, up to a cap; None when nothing matches.
ScanFrom_Now(t) == t
ScanFrom(t) == t + 1
nextRun(cron, t) ==
  LET c == parseCron(cron)
      hits == {u \in ScanFrom(t)..t + Horizon : matches(c, u)} IN
  IF hits = {} THEN None ELSE CHOOSE u \in hits : \A v \in hits : u <= v

---------------------------------------------------------------------------
TypeOK ==
  /\ job = None \/ Valid(job.cron)
  /\ (form # None => form.mode \in {"friendly", "cron"} /\ form.touched \in BOOLEAN)
  /\ now \in 0..Horizon /\ (next = None \/ next \in 0..2 * Horizon)

Init == job = None /\ form = None /\ before = None /\ now = 0 /\ next = None

\* A create or an update: what does not compile is refused, and nothing changes.
Stored(s) ==
  /\ toCron(s) # None
  /\ job' = [schedule |-> s, cron |-> toCron(s)] /\ next' = nextRun(toCron(s), now)
Save(s) ==
  /\ Stored(s) /\ before' = (IF form = None THEN None ELSE before) /\ UNCHANGED <<form, now>>

\* The form takes the days of a friendly schedule as numbers, and any other as its cron.
AsNumber(d) == IF d.as = "number" THEN d ELSE [as |-> "NaN", n |-> d.n]
openEdit ==
  /\ job # None /\ form = None /\ before' = job.cron
  /\ LET s == job.schedule IN
     form' = IF s.by = "time"
               THEN [mode |-> "friendly", touched |-> FALSE, minute |-> s.minute, hour |-> s.hour,
                     days |-> {AsNumber(d) : d \in s.days}, cron |-> Every]
               ELSE [mode |-> "cron", touched |-> FALSE, minute |-> 0, hour |-> 0,
                     days |-> {}, cron |-> job.cron]
  /\ UNCHANGED <<job, now, next>>

toggleWeekday(n) ==
  /\ form # None /\ form.mode = "friendly"
  /\ LET d == [as |-> "number", n |-> n] IN
     form' = [form EXCEPT !.touched = TRUE,
                          !.days = IF d \in form.days THEN form.days \ {d} ELSE form.days \cup {d}]
  /\ UNCHANGED <<job, before, now, next>>

buildPayload ==
  IF form.mode = "cron" THEN [by |-> "cron", cron |-> form.cron]
  ELSE [by |-> "time", minute |-> form.minute, hour |-> form.hour, days |-> form.days]
onSubmit ==
  /\ form # None /\ Stored(buildPayload) /\ form' = None
  /\ before' = IF form.touched THEN None ELSE before
  /\ UNCHANGED now
closeForm == form # None /\ form' = None /\ before' = None /\ UNCHANGED <<job, now, next>>

\* The clock; a run that is due rolls next_run forward from the minute it ran in.
Minute ==
  /\ now < Horizon /\ now' = now + 1
  /\ next' = IF next # None /\ next <= now' THEN nextRun(job.cron, now') ELSE next
  /\ UNCHANGED <<job, form, before>>

Next ==
  \/ \E s \in Written : Save(s)
  \/ openEdit \/ (\E n \in Toggled : toggleWeekday(n)) \/ onSubmit \/ closeForm \/ Minute

Spec == Init /\ [][Next]_vars

---------------------------------------------------------------------------
Runs(cron) == LET c == parseCron(cron) IN {t \in 0..Horizon : matches(c, t)}

\* What a schedule says, without cron: at that time on those days, n minutes apart, and for five
\* fields the rule that either kind of day will do.
Says(s, t) ==
  LET d == Date(t) IN
  CASE s.by = "time" -> d.minute = s.minute /\ d.hour = s.hour /\ (s.days = {} \/ \E x \in s.days : x.n = d.dow)
    [] s.by = "every" -> t % s.n = 0
    [] s.by = "cron" ->
         /\ \A f \in {"minute", "hour", "month"} : d[f] \in parseField(f, s.cron[f])
         /\ LET asked == {f \in {"dom", "dow"} : s.cron[f] # {Star}} IN
            asked = {} \/ \E f \in asked : d[f] \in parseField(f, s.cron[f])
Plain(s) ==
  CASE s.by = "time" -> \A d \in s.days : d.as # "NaN" /\ d.n \in 0..6
    [] s.by = "every" -> s.n \in 1..LastMinute /\ (LastMinute + 1) % s.n = 0
    [] OTHER -> TRUE

\* A job runs when its schedule says, through compiling, parsing and matching.
RunsAsWritten ==
  job # None /\ Plain(job.schedule) => Runs(job.cron) = {t \in 0..Horizon : Says(job.schedule, t)}

\* No matching minute is passed over and none is run twice: next_run is later than now, and no match
\* lies between them.
NextIsFirst ==
  job # None =>
    \A t \in Runs(job.cron) : t > now => (next # None /\ next <= t /\ next > now)

\* A schedule that was opened in the form and saved untouched is the schedule it was.
EditKeepsIt == form = None /\ job # None /\ before # None => Runs(job.cron) = Runs(before)

\* Every schedule runs as it says, odd ones too: days that are no days, or minutes that do not
\* divide the hour, or are an hour.
NothingElse == job # None => Runs(job.cron) = {t \in 0..Horizon : Says(job.schedule, t)}
=============================================================================

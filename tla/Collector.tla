------------------------------- MODULE Collector -------------------------------
(***************************************************************************)
(* The insights collector. Producers build events and post them, at best      *)
(* effort; the collector stores each with its projections in one transaction, *)
(* mirrors the session trackers, titles the sessions by asking the core,       *)
(* tails an external log, reflects on the whole, signals and forgets sessions  *)
(* on demand. Beside it the dashboard's live feed.                            *)
(***************************************************************************)
EXTENDS Integers, Sequences, FiniteSets, FiniteSetsExt

CONSTANTS
  Sessions, Pids,  \* conversations; process ids of the host
  MaxMade,         \* events the core emits
  MaxDone          \* what people and the machine do beside that

\* The external log the tailer follows: its lines, of which the second names an unknown surface.
Lines == <<TRUE, FALSE, TRUE>>

VARIABLES
  made, wire,      \* events emitted; those posted and not yet arrived
  spine,           \* the events table
  row,             \* the sessions table; <<>>: no row
  usage, cut,      \* the usage rollup's tokens; history: sessions whose row was killed away from its events
  titles,          \* the chain of title requests, the head being asked
  tracked,         \* the tracker file's entry for each session
  host,            \* what runs under each pid: a session's process, another node process or nothing
  timers, hit,     \* pids with a pending SIGKILL; history: the last signal [of, holder]
  wrote, offset,   \* halves of log lines written; how far the tailer has read, -1 before its first tick
  reflecting, assessed, \* digests the core is asked about; the newest assessment kept
  feed, linked, fetching, \* the dashboard's events, its socket, and a fetch: "idle", "asked" or the answer
  done             \* how much else happened

vars == <<made, wire, spine, row, usage, cut, titles, tracked, host, timers, hit, wrote, offset,
          reflecting, assessed, feed, linked, fetching, done>>
store == <<spine, row, usage, cut>>
machine == <<tracked, host>>
signals == <<timers, hit>>
tailing == <<wrote, offset>>
mind == <<reflecting, assessed>>
page == <<feed, linked, fetching>>

Kinds == {"inbound", "tool", "usage", "end"}
Ids == 1..(MaxMade + Len(Lines))
Events == [id : Ids, s : Sessions, kind : Kinds]
Idle == <<"idle">>
NoHit == [of |-> "none", holder |-> "none"]
Rows == [status : {"active", "ended"}, act : 0..(MaxMade + Len(Lines)), tokens : Nat, tools : Nat, pid : Pids \cup {0},
         title : {"", "ai", "own"}, locked : BOOLEAN]
Holders == Sessions \cup {"free", "node"}

TypeOK ==
  /\ made \in 0..MaxMade /\ wire \subseteq Events /\ spine \subseteq Events
  /\ row \in [Sessions -> Rows \cup {<<>>}] /\ usage \in Nat /\ cut \subseteq Sessions
  /\ titles \in Seq(Sessions) /\ tracked \in [Sessions -> [status : {"active", "ended"}, pid : Pids, act : Nat] \cup {<<>>}]
  /\ host \in [Pids -> Holders] /\ timers \subseteq Pids /\ hit \in [of : Sessions \cup {"none"}, holder : Holders \cup {"none"}]
  /\ wrote \in 0..(2 * Len(Lines)) /\ offset \in (-1)..(2 * Len(Lines))
  /\ reflecting \subseteq [at : 0..(MaxMade + MaxDone), of : SUBSET Sessions] /\ assessed \in 0..(MaxMade + MaxDone)
  /\ feed \subseteq Events /\ linked \in BOOLEAN
  /\ (fetching \in {Idle, <<"asked">>} \/ fetching[2] \subseteq Events)
  /\ done \in 0..MaxDone

Init ==
  /\ made = 0 /\ wire = {} /\ spine = {} /\ row = [s \in Sessions |-> <<>>] /\ usage = 0 /\ cut = {}
  /\ titles = <<>> /\ tracked = [s \in Sessions |-> <<>>] /\ host = [p \in Pids |-> "free"]
  /\ timers = {} /\ hit = NoHit /\ wrote = 0 /\ offset = -1 /\ reflecting = {} /\ assessed = 0
  /\ feed = {} /\ linked = TRUE /\ fetching = Idle /\ done = 0

Bounded == done < MaxDone /\ done' = done + 1

---------------------------------------------------------------------------
(* Emitting and ingesting.                                                  *)

\* Every event takes a post of its own; nothing orders them or repeats one that gets lost.
emit(s, kind) ==
  /\ made < MaxMade /\ made' = made + 1 /\ wire' = wire \cup {[id |-> made + 1, s |-> s, kind |-> kind]}
  /\ UNCHANGED <<store, titles, machine, signals, tailing, mind, page, done>>

postLost(e) ==
  /\ Bounded /\ e \in wire /\ wire' = wire \ {e}
  /\ UNCHANGED <<made, store, titles, machine, signals, tailing, mind, page>>

tokens(e) == IF e.kind = "usage" THEN 1 ELSE 0
tools(e) == IF e.kind = "tool" THEN 1 ELSE 0

\* Every kind but session-end is projected onto the session's row, which is made when it is not there.
Projected(e) == e.kind \in {"inbound", "tool", "usage"}
NewRow == [status |-> "active", act |-> 0, tokens |-> 0, tools |-> 0, pid |-> 0, title |-> "", locked |-> FALSE]
RowAfter(e) ==
  LET old == IF row[e.s] = <<>> THEN NewRow ELSE row[e.s]
  IN  [old EXCEPT !.status = "active", !.act = e.id, !.tokens = @ + tokens(e), !.tools = @ + tools(e)]

\* One transaction: the spine, the usage and the session's row.
ingestEvent(e) ==
  /\ spine' = spine \cup {e} /\ usage' = usage + tokens(e) /\ cut' = cut
  /\ row' = IF Projected(e) THEN [row EXCEPT ![e.s] = RowAfter(e)] ELSE row

\* The first message of a session without a title asks for one, in a chain of requests.
maybeTitle(e) ==
  titles' = IF e.kind = "inbound" /\ ~row'[e.s].locked /\ row'[e.s].title = "" THEN Append(titles, e.s) ELSE titles

ingest(e) ==
  /\ e \in wire /\ wire' = wire \ {e} /\ ingestEvent(e) /\ maybeTitle(e)
  /\ feed' = IF linked THEN feed \cup {e} ELSE feed
  /\ UNCHANGED <<made, machine, signals, tailing, mind, linked, fetching, done>>

---------------------------------------------------------------------------
(* Titles.                                                                  *)

\* The core answers with a title or not; a locked title is left alone.
setTitle_Any(s) == row[s] # <<>>
setTitle(s) == row[s] # <<>> /\ ~row[s].locked
queueTitle ==
  /\ titles # <<>> /\ titles' = Tail(titles)
  /\ \/ UNCHANGED row
     \/ setTitle(Head(titles)) /\ row' = [row EXCEPT ![Head(titles)].title = "ai"]
  /\ UNCHANGED <<made, wire, spine, usage, cut, machine, signals, tailing, mind, page, done>>

\* Somebody names the session, which locks the name, or clears it, which gives it back.
setTitleManual(s, t) ==
  /\ Bounded /\ row[s] # <<>>
  /\ row' = [row EXCEPT ![s].title = t, ![s].locked = t # ""]
  /\ UNCHANGED <<made, wire, spine, usage, cut, titles, machine, signals, tailing, mind, page>>

---------------------------------------------------------------------------
(* The trackers.                                                            *)

\* A terminal session starts and is written to its tracker; it ends, with or without that being noted;
\* its entry is pruned; a pid is used again.
Starts(s, p) ==
  /\ Bounded /\ host[p] = "free" /\ \A q \in Pids : host[q] # s
  /\ host' = [host EXCEPT ![p] = s] /\ tracked' = [tracked EXCEPT ![s] = [status |-> "active", pid |-> p, act |-> made]]
  /\ UNCHANGED <<made, wire, store, titles, signals, tailing, mind, page>>
Dies(p, noted) ==
  /\ Bounded /\ host[p] # "free" /\ host' = [host EXCEPT ![p] = "free"]
  /\ \/ ~noted /\ UNCHANGED tracked
     \/ /\ noted /\ host[p] \in Sessions /\ tracked[host[p]] # <<>>
        /\ tracked' = [tracked EXCEPT ![host[p]] = <<>>]
  /\ UNCHANGED <<made, wire, store, titles, signals, tailing, mind, page>>
Reused(p) ==
  /\ Bounded /\ host[p] = "free" /\ host' = [host EXCEPT ![p] = "node"]
  /\ UNCHANGED <<made, wire, store, titles, tracked, signals, tailing, mind, page>>

pidAlive(p) == p # 0 /\ host[p] # "free"

\* Every entry overwrites what it knows of its row, active only while its pid lives; the count of
\* tools is the entry's own, here 0.
Mirrored(s) == IF tracked[s].status = "active" /\ ~pidAlive(tracked[s].pid) THEN "ended" ELSE tracked[s].status
reconcileOnce ==
  /\ row' = [s \in Sessions |->
               IF tracked[s] = <<>> THEN row[s]
               ELSE [(IF row[s] = <<>> THEN NewRow ELSE row[s]) EXCEPT
                       !.pid = tracked[s].pid, !.status = Mirrored(s), !.act = tracked[s].act, !.tools = 0]]
  /\ UNCHANGED <<made, wire, spine, usage, cut, titles, machine, signals, tailing, mind, page, done>>

---------------------------------------------------------------------------
(* Control.                                                                 *)

Signalled(s) == hit' = [of |-> s, holder |-> host[row[s].pid]]

\* Nothing alive behind the row: the row goes, the events stay. Otherwise SIGTERM, and for a hard kill
\* SIGKILL five seconds later to whatever lives under that pid then.
kill(s, hard) ==
  /\ Bounded /\ row[s] # <<>>
  /\ IF ~pidAlive(row[s].pid)
     THEN row' = [row EXCEPT ![s] = <<>>] /\ cut' = cut \cup {s} /\ UNCHANGED <<host, signals>>
     ELSE /\ Signalled(s) /\ timers' = IF hard THEN timers \cup {row[s].pid} ELSE timers
          /\ \/ host' = [host EXCEPT ![row[s].pid] = "free"]
             \/ UNCHANGED host
          /\ UNCHANGED <<row, cut>>
  /\ UNCHANGED <<made, wire, spine, usage, titles, tracked, tailing, mind, page>>

hardTimer(p) ==
  /\ p \in timers /\ timers' = timers \ {p}
  /\ IF pidAlive(p) THEN host' = [host EXCEPT ![p] = "free"] /\ hit' = [hit EXCEPT !.holder = host[p]]
                    ELSE UNCHANGED <<host, hit>>
  /\ UNCHANGED <<made, wire, store, titles, tracked, tailing, mind, page, done>>

stop(s) ==
  /\ Bounded /\ row[s] # <<>> /\ pidAlive(row[s].pid) /\ Signalled(s)
  /\ UNCHANGED <<made, wire, store, titles, machine, timers, tailing, mind, page>>

\* Refused while the row's process lives; otherwise the row goes and its events with it.
Purged_None(s) == spine
Purged(s) == {e \in spine : e.s # s}
MayForget(s) == row[s] # <<>> => ~pidAlive(row[s].pid)
forget(s) ==
  /\ Bounded /\ MayForget(s) /\ (row[s] # <<>> \/ \E e \in spine : e.s = s)
  /\ row' = [row EXCEPT ![s] = <<>>] /\ spine' = Purged(s)
  /\ UNCHANGED <<made, wire, usage, cut, titles, machine, signals, tailing, mind, page>>

---------------------------------------------------------------------------
(* The tailer.                                                              *)

Written ==
  /\ Bounded /\ wrote' \in (wrote + 1)..(2 * Len(Lines))
  /\ UNCHANGED <<made, wire, store, titles, machine, signals, offset, mind, page>>

\* What was written since the last look, in whole lines; the first look only takes the size. A line
\* an event cannot be built from ends the tick, and the offset has already moved past the rest.
Read == {i \in 1..Len(Lines) : offset <= 2 * (i - 1) /\ 2 * i <= wrote}
Taken == {i \in Read : \A j \in Read : j <= i => Lines[j]}
TailEvent(i) == [id |-> MaxMade + i, s |-> CHOOSE s \in Sessions : TRUE, kind |-> "inbound"]
readNewLines ==
  /\ offset # wrote /\ offset' = wrote
  /\ IF offset = -1 \/ Taken = {} THEN UNCHANGED store
     ELSE /\ spine' = spine \cup {TailEvent(i) : i \in Taken} /\ UNCHANGED <<usage, cut>>
          /\ row' = [row EXCEPT ![TailEvent(1).s] = RowAfter(TailEvent(Max(Taken)))]
  /\ UNCHANGED <<made, wire, titles, machine, signals, wrote, mind, page, done>>

---------------------------------------------------------------------------
(* The self-assessment.                                                     *)

Parts == {s \in Sessions : row[s] # <<>> /\ row[s].status = "active"}
Asked == made + done

\* One at a time, when there are two parts at least and the body is not the one assessed last.
MayReflect_Any == Cardinality(Parts) >= 2
MayReflect == Cardinality(Parts) >= 2 /\ reflecting = {}
reflect ==
  /\ Bounded /\ MayReflect /\ Asked > assessed /\ reflecting' = reflecting \cup {[at |-> Asked, of |-> Parts]}
  /\ UNCHANGED <<made, wire, store, titles, machine, signals, tailing, assessed, page>>
reflected(d, ok) ==
  /\ d \in reflecting /\ reflecting' = reflecting \ {d} /\ assessed' = IF ok THEN d.at ELSE assessed
  /\ UNCHANGED <<made, wire, store, titles, machine, signals, tailing, page, done>>

---------------------------------------------------------------------------
(* The dashboard.                                                           *)

connectSocket == /\ ~linked /\ linked' = TRUE
                 /\ UNCHANGED <<made, wire, store, titles, machine, signals, tailing, mind, feed, fetching, done>>
disconnects == /\ Bounded /\ linked /\ linked' = FALSE
               /\ UNCHANGED <<made, wire, store, titles, machine, signals, tailing, mind, feed, fetching>>
fetchEvents ==
  /\ Bounded /\ fetching = Idle /\ fetching' = <<"asked">>
  /\ UNCHANGED <<made, wire, store, titles, machine, signals, tailing, mind, feed, linked>>
answered ==
  /\ fetching = <<"asked">> /\ fetching' = <<"answer", spine>>
  /\ UNCHANGED <<made, wire, store, titles, machine, signals, tailing, mind, feed, linked, done>>
\* The answer replaces the list, what was pushed meanwhile included.
fetched ==
  /\ Len(fetching) = 2 /\ feed' = fetching[2] /\ fetching' = Idle
  /\ UNCHANGED <<made, wire, store, titles, machine, signals, tailing, mind, linked, done>>

Next ==
  \/ \E s \in Sessions, k \in Kinds : emit(s, k)
  \/ \E e \in wire : postLost(e) \/ ingest(e)
  \/ queueTitle
  \/ \E s \in Sessions, t \in {"", "own"} : setTitleManual(s, t)
  \/ \E s \in Sessions, p \in Pids : Starts(s, p)
  \/ \E p \in Pids : Dies(p, TRUE) \/ Dies(p, FALSE) \/ Reused(p) \/ hardTimer(p)
  \/ reconcileOnce
  \/ \E s \in Sessions : kill(s, TRUE) \/ kill(s, FALSE) \/ stop(s) \/ forget(s)
  \/ Written \/ readNewLines
  \/ reflect \/ \E d \in reflecting : reflected(d, TRUE) \/ reflected(d, FALSE)
  \/ connectSocket \/ disconnects \/ fetchEvents \/ answered \/ fetched

Spec == Init /\ [][Next]_vars

---------------------------------------------------------------------------
\* A session's row bills exactly what the stored events of the session say, forgotten or not and
\* whatever the trackers and the titles do to the row, unless it was killed away from its events;
\* and the usage of the hour never falls behind the events.
TokensAddUp ==
  /\ usage >= Cardinality({e \in spine : e.kind = "usage"})
  /\ \A s \in Sessions \ cut : row[s] # <<>> =>
       row[s].tokens = Cardinality({e \in spine : e.s = s /\ e.kind = "usage"})

\* A title somebody chose changes only because somebody renames the session, however late a
\* generated one arrives.
LockedTitleStays ==
  [][\A s \in Sessions : row[s] # <<>> /\ row'[s] # <<>> /\ row[s].locked /\ row'[s] # row[s] /\ row'[s].title # row[s].title
       => \E t \in {"", "own"} : setTitleManual(s, t)]_vars

\* An older look at the whole never replaces a newer one.
AssessedInOrder == [][assessed' >= assessed]_vars

\* What the code says of itself and does not do; none of these holds.

\* Forgetting never orphans a running process: the row of a session may not know its pid yet.
NeverOrphaned == [][\A s \in Sessions : forget(s) => \A p \in Pids : host[p] # s]_vars
\* The count is honest: a row its tracker has dropped is not left active when its process is gone.
HonestCount ==
  \A s \in Sessions : row[s] # <<>> /\ row[s].status = "active" /\ row[s].pid # 0 /\ tracked[s] = <<>>
    => pidAlive(row[s].pid)
\* Nothing that would bring a session back is under way when it is forgotten.
ForgottenForGood == [][\A s \in Sessions : forget(s) => tracked[s] = <<>> /\ \A e \in wire : e.s # s]_vars
\* A signal reaches the process of the session it was meant for.
HitsItsOwn == hit.holder \in {hit.of, "none"}
\* A session whose last event is its end is recorded as ended.
EndIsSeen ==
  \A s \in Sessions : row[s] # <<>> /\ wire = {} /\ (\E e \in spine : e.s = s /\ e.kind = "end" /\ e.id = made)
    => row[s].status = "ended"
\* Every good line of the log is ingested by the time the tailer is past it.
Tailed == \A i \in 1..Len(Lines) : Lines[i] /\ offset >= 2 * i => \E e \in spine : e.id = MaxMade + i
\* A linked, settled page shows what is stored.
FeedIsWhole == linked /\ fetching = Idle => spine \subseteq feed
\* A row counts the tools of its events.
ToolsAddUp ==
  \A s \in Sessions : row[s] # <<>> => row[s].tools >= Cardinality({e \in spine : e.s = s /\ e.kind = "tool"})
=============================================================================

---------------------------------- MODULE Body ----------------------------------
(***************************************************************************)
(* How the collector sees the whole (insights/collector/server.js and        *)
(* self-schema.js): a label of what each session is doing, asked of the core  *)
(* for one session after the other; the graph of the sessions at work and     *)
(* where they touch; the map of who works in which repository; and the        *)
(* reflection on a digest of that graph, asked for when it has changed or is  *)
(* old.  The clock counts minutes.                                            *)
(***************************************************************************)
EXTENDS Integers, Sequences, FiniteSets, SequencesExt

CONSTANTS
  Sessions,
  Panes,      \* those in a terminal multiplexer, which stay in the graph when idle
  Window,     \* how far back the graph and the map look
  StatusMin,  \* the least time between two labels of a session
  ReflectMax, \* the age at which a reflection is repeated
  Dirs,       \* directories the tools touch, of "r/a", "r/b" and "q"
  MaxEvents, MaxNow

VARIABLES
  now,
  events,     \* what the sessions did and announced, oldest first
  label,      \* how many of the events a session's label was made from
  asked,      \* when a label was last asked for, -1: not in this life of the process
  chain,      \* the requests for labels, the head being answered
  reflecting, \* the digest the core is reflecting on
  reflected,  \* the digest and the time of the last reflection of this life, or Never
  kept        \* the reflection stored last, or Never

vars == <<now, events, label, asked, chain, reflecting, reflected, kept>>

Never == <<>>

\* Two directories are of one repository.
repoRoot_OfDir(d) == d
repoRoot(d) == IF d = "q" THEN "q" ELSE "r"

TypeOK ==
  /\ now \in 0..MaxNow /\ Len(events) <= MaxEvents
  /\ label \in [Sessions -> 0..MaxEvents] /\ asked \in [Sessions -> (-1)..MaxNow]
  /\ chain \in Seq([s : Sessions, upTo : 1..MaxEvents])
  /\ \A x \in {reflecting, reflected} : x = Never \/ x.at \in 0..MaxNow
  /\ kept = Never \/ kept.rel \subseteq Sessions \X Sessions

Init ==
  /\ now = 0 /\ events = <<>> /\ label = [s \in Sessions |-> 0] /\ asked = [s \in Sessions |-> -1]
  /\ chain = <<>> /\ reflecting = Never /\ reflected = Never /\ kept = Never

---------------------------------------------------------------------------
(* Labels.                                                                  *)

\* A message or a tool asks for a label made from all there is, unless one was asked for just now.
maybeActivity(s) ==
  IF asked[s] >= 0 /\ now - asked[s] < StatusMin THEN UNCHANGED <<asked, chain>>
  ELSE asked' = [asked EXCEPT ![s] = now] /\ chain' = Append(chain, [s |-> s, upTo |-> Len(events')])

Stored(s, kind, where, to) ==
  /\ Len(events) < MaxEvents
  /\ events' = Append(events, [s |-> s, kind |-> kind, where |-> where, to |-> to, at |-> now])
  /\ UNCHANGED <<now, label, reflecting, reflected, kept>>

inbound(s) == Stored(s, "inbound", "", s) /\ maybeActivity(s)
\* A tool is handed a path, or a command with one in it.
tool(s, kind, d) == Stored(s, kind, d, s) /\ maybeActivity(s)
announce(s, t) == s # t /\ Stored(s, "announce", "", t) /\ UNCHANGED <<asked, chain>>

\* The head of the chain comes back with a label, or without one: the core is labelling
\* for somebody else, failed, or has none.
Answerable_Any == DOMAIN chain
Answerable == 1..(IF chain = <<>> THEN 0 ELSE 1)
queueActivity ==
  \E i \in Answerable :
    /\ chain' = RemoveAt(chain, i)
    /\ \/ label' = [label EXCEPT ![chain[i].s] = chain[i].upTo]
       \/ UNCHANGED label
    /\ UNCHANGED <<now, events, asked, reflecting, reflected, kept>>

---------------------------------------------------------------------------
(* The graph, the digest and the map.                                       *)

Recent(e) == e.at > now - Window
Did(s) == {i \in DOMAIN events : events[i].s = s /\ events[i].kind # "announce"}
lastActivity(s) == IF Did(s) = {} THEN 0 ELSE events[Max(Did(s))].at

Parts == {s \in Sessions : s \in Panes \/ (Did(s) # {} /\ lastActivity(s) > now - Window)}
\* The newest first; the number of a part is its place.
Nodes == SetToSortSeq(Parts, LAMBDA s, t : lastActivity(s) > lastActivity(t))

\* The paths of the recent tools of these kinds, and the value of f most of them have; among equals
\* the one met first, from the newest event on.
Hits(s, kinds) == {i \in Did(s) : events[i].kind \in kinds /\ Recent(events[i])}
Most(s, kinds, f) ==
  LET on == Hits(s, kinds)
      value(i) == f[events[i].where]
      count(i) == Cardinality({j \in on : value(j) = value(i)})
      best == {i \in on : \A j \in on : count(i) >= count(j)}
      first(i) == Max({j \in on : value(j) = value(i)})
  IN  IF on = {} THEN "" ELSE value(CHOOSE i \in best : \A j \in best : first(i) >= first(j))

\* The repository of the directory hit most; commands are not searched for paths.
repoOf(s) == LET d == Most(s, {"file"}, [d \in Dirs |-> d]) IN IF d = "" THEN "" ELSE repoRoot(d)

Pairs == {p \in SUBSET Parts : Cardinality(p) = 2}
Colocated == {p \in Pairs : \E r \in {"r", "q"} : \A s \in p : repoOf(s) = r}
Announced ==
  {p \in Pairs : \E i \in DOMAIN events : events[i].kind = "announce" /\ {events[i].s, events[i].to} = p /\ Recent(events[i])}

\* A line for each part: its label, its repository, its tools and its age in minutes; then the links.
Line(s) ==
  [what |-> label[s], repo |-> repoOf(s), tools |-> Cardinality({i \in Did(s) : events[i].kind # "inbound"}),
   age |-> now - lastActivity(s)]
buildDigest == [lines |-> [n \in DOMAIN Nodes |-> Line(Nodes[n])], links |-> <<Colocated, Announced>>]

\* /api/map: the repository hit most, commands searched too.
mapRepo(s) == Most(s, {"file", "shell"}, [d \in Dirs |-> repoRoot(d)])

---------------------------------------------------------------------------
(* Reflection.                                                              *)

Changed == reflected # Never => reflected.text # buildDigest
Stale == reflected # Never => now - reflected.at > ReflectMax
reflect ==
  /\ reflecting = Never /\ Len(Nodes) >= 2 /\ (Changed \/ Stale)
  /\ reflecting' = [at |-> now, text |-> buildDigest, index |-> Nodes]
  /\ UNCHANGED <<now, events, label, asked, chain, reflected, kept>>

\* The relations name parts by number; the digest's index, not the graph of now, says whose they are.
Index_Now == Nodes
Index == reflecting.index
NamedBy(index, said) ==
  {<<index[p[1]], index[p[2]]>> : p \in {q \in said : {q[1], q[2]} \subseteq DOMAIN index /\ index[q[1]] # index[q[2]]}}
Named(said) == NamedBy(Index, said)
\* History: what the core meant, which has seen the digest only.
Meant(said) == NamedBy(reflecting.index, said)

\* The core answers with some relation, none or one that names no part; or it fails and the next
\* check asks again.
Numbers == 1..(Cardinality(Sessions) + 1)
answer ==
  /\ reflecting # Never /\ reflecting' = Never
  /\ \/ \E said \in {{}} \cup {{p} : p \in Numbers \X Numbers} :
          /\ kept' = [rel |-> Named(said), meant |-> Meant(said)]
          /\ reflected' = [at |-> reflecting.at, text |-> reflecting.text]
     \/ UNCHANGED <<reflected, kept>>
  /\ UNCHANGED <<now, events, label, asked, chain>>

Tick == now < MaxNow /\ now' = now + 1 /\ UNCHANGED <<events, label, asked, chain, reflecting, reflected, kept>>

Restart ==
  /\ asked' = [s \in Sessions |-> -1] /\ chain' = <<>> /\ reflecting' = Never /\ reflected' = Never
  /\ UNCHANGED <<now, events, label, kept>>

Next ==
  \/ \E s \in Sessions : inbound(s) \/ \E t \in Sessions : announce(s, t)
  \/ \E s \in Sessions, k \in {"file", "shell"}, d \in Dirs : tool(s, k, d)
  \/ queueActivity \/ reflect \/ answer \/ Tick \/ Restart

Spec == Init /\ [][Next]_vars

---------------------------------------------------------------------------
\* A label never goes back to an earlier state of the session, however the requests are answered.
LabelsAdvance == [][\A s \in Sessions : label'[s] >= label[s]]_vars

\* The graph shows a collision where there is one: two parts whose recent files are all in one
\* repository are linked, and linked parts have both been in it.
SharedRepoShows ==
  \A s, t \in Parts : s # t =>
    LET repos(u) == {repoRoot(events[i].where) : i \in Hits(u, {"file"})}
    IN  /\ repos(s) = repos(t) /\ Cardinality(repos(s)) = 1 => {s, t} \in Colocated
        /\ {s, t} \in Colocated => repos(s) \cap repos(t) # {}

\* A stored relation is between the parts the core meant, whichever came, went or changed places
\* before its answer.
RelationsAsMeant == kept # Never => kept.rel = kept.meant

\* What the code says of itself and does not do; none of these holds.

\* A session's label is about the last thing it did, once all requests are answered.
LabelIsLast == chain = <<>> => \A s \in Sessions : Did(s) # {} => label[s] >= Max(Did(s))
\* A turn is spent on a reflection only when more than the age of the parts has changed, or the last
\* one is old.
Aged(text) == [text EXCEPT !.lines = [n \in DOMAIN @ |-> [@[n] EXCEPT !.age = 0]]]
MaterialOnly == [][reflect => Stale \/ Aged(reflected.text) # Aged(buildDigest)]_vars
\* The graph puts a session where the map does.
MirrorsTheMap == \A s \in Parts : repoOf(s) = mapRepo(s)
=============================================================================

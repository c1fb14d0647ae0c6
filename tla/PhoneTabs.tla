------------------------------ MODULE PhoneTabs ------------------------------
(***************************************************************************)
(* The phone's conversation tabs. Every session the phone talks to streams    *)
(* over one connection; the phone sorts the frames into tabs by the session's *)
(* key, shows those of the tab in front and holds the others until it comes    *)
(* to the front; histories are loaded meanwhile, tabs opened and closed, turns *)
(* stopped, the session forgotten, the connection lost and taken up again.      *)
(***************************************************************************)
EXTENDS Integers, Sequences, FiniteSets, SequencesExt

CONSTANTS
  Others,                      \* the sessions other than the phone's own that can be opened
  MaxTurns, MaxDeltas,         \* turns in all, pieces of text of each
  MaxOpens, MaxActs, MaxDowns  \* tabs opened; switches, closes and stops; connections lost

VARIABLES
  srv, told,      \* per session: its turns, the first one running; how many pieces that one has sent
  hist,           \* per session: the replies on record
  linked, wire,   \* the stream; the frames in it
  tabs, front,    \* the open tabs, in order; the one shown
  log, pending, bub, \* per tab: what it shows, what waits for it, the reply its open bubble began with
  ids, asked, hydrated, \* per tab: its instance; histories being loaded; the own tab has its history
  st, said,       \* what the button shows; the pieces handed to the readout
  turns, opens, acts, downs,
  missing, cut    \* history: tabs whose history was thrown away; <<tab in front, session stopped>>

vars == <<srv, told, hist, linked, wire, tabs, front, log, pending, bub, ids, asked, hydrated, st, said,
          turns, opens, acts, downs, missing, cut>>
server == <<srv, told, hist>>
view == <<tabs, front, log, pending, bub, ids>>
loads == <<asked, hydrated, missing>>
counts == <<turns, opens, acts, downs>>

Own == "own"
Keys == Others \cup {Own}
Pieces == [key : Keys, turn : 1..MaxTurns, n : 0..MaxDeltas]
Frames == [type : {"ready", "delta", "done", "error"}, key : Keys, turn : 0..MaxTurns, n : 0..MaxDeltas, tagged : BOOLEAN]
Shown == [key : Keys, turn : 1..MaxTurns, n : 0..MaxDeltas, under : 1..MaxTurns]

Open == ToSet(tabs)

TypeOK ==
  /\ \A k \in Keys : /\ srv[k] \in Seq(1..MaxTurns) /\ told[k] \in 0..MaxDeltas /\ hist[k] \in Seq(1..MaxTurns)
                     /\ log[k] \in Seq(Shown) /\ pending[k] \in Seq(Frames) /\ bub[k] \in 0..MaxTurns
                     /\ ids[k] \in 0..MaxOpens
  /\ linked \in BOOLEAN /\ wire \in Seq(Frames) /\ tabs \in Seq(Keys) /\ Own \in Open /\ front \in Open
  /\ asked \subseteq [key : Keys, id : 0..MaxOpens] /\ hydrated \in BOOLEAN /\ st \in {"idle", "busy"}
  /\ said \subseteq Pieces /\ missing \subseteq Others /\ cut \subseteq Keys \X Keys
  /\ turns \in 0..MaxTurns /\ opens \in 0..MaxOpens /\ acts \in 0..MaxActs /\ downs \in 0..MaxDowns

Init ==
  /\ srv = [k \in Keys |-> <<>>] /\ told = [k \in Keys |-> 0] /\ hist = [k \in Keys |-> <<>>]
  /\ linked = FALSE /\ wire = <<>> /\ tabs = <<Own>> /\ front = Own
  /\ log = [k \in Keys |-> <<>>] /\ pending = [k \in Keys |-> <<>>] /\ bub = [k \in Keys |-> 0]
  /\ ids = [k \in Keys |-> 0] /\ asked = {} /\ hydrated = FALSE /\ st = "idle" /\ said = {}
  /\ turns = 0 /\ opens = 0 /\ acts = 0 /\ downs = 0 /\ missing = {} /\ cut = {}

Act == acts < MaxActs /\ acts' = acts + 1

---------------------------------------------------------------------------
(* The gateway: a turn's pieces, tagged with its session's key, and its end.   *)

Frame(type, k, tagged) ==
  [type |-> type, key |-> k, turn |-> IF srv[k] = <<>> THEN 0 ELSE Head(srv[k]), n |-> told[k], tagged |-> tagged]
pushSSE(f) == wire' = IF linked THEN Append(wire, f) ELSE wire

stream ==
  /\ ~linked /\ linked' = TRUE /\ wire' = <<Frame("ready", Own, FALSE)>>
  /\ UNCHANGED <<server, view, loads, st, said, counts, cut>>
closed ==
  /\ linked /\ downs < MaxDowns /\ downs' = downs + 1 /\ linked' = FALSE /\ wire' = <<>>
  /\ UNCHANGED <<server, view, loads, st, said, turns, opens, acts, cut>>

onDelta(k) ==
  /\ srv[k] # <<>> /\ told[k] < MaxDeltas /\ told' = [told EXCEPT ![k] = @ + 1]
  /\ pushSSE([Frame("delta", k, TRUE) EXCEPT !.n = @ + 1])
  /\ UNCHANGED <<srv, hist, linked, view, loads, st, said, counts, cut>>

Ended(k) == srv' = [srv EXCEPT ![k] = Tail(@)] /\ told' = [told EXCEPT ![k] = 0]
\* The reply goes on record, and the end is pushed without the key the phone sorts by.
turnDone(k) ==
  /\ srv[k] # <<>> /\ Ended(k) /\ pushSSE(Frame("done", k, FALSE))
  /\ hist' = IF told[k] > 0 THEN [hist EXCEPT ![k] = Append(@, Head(srv[k]))] ELSE hist
  /\ UNCHANGED <<linked, view, loads, st, said, counts, cut>>
turnError(k) ==
  /\ srv[k] # <<>> /\ Ended(k) /\ pushSSE(Frame("error", k, TRUE))
  /\ UNCHANGED <<hist, linked, view, loads, st, said, counts, cut>>

---------------------------------------------------------------------------
(* Frames.                                                                  *)

\* The frame's tab is the open one with its key, otherwise the one in front.
FrameTab_Front(f) == front
FrameTab(f) == IF f.tagged /\ f.key \in Open THEN f.key ELSE front

\* What a tab shows after a frame: text goes on in the open bubble, the end closes it.
Render(tab, f) ==
  CASE f.type = "delta" ->
         LET b == IF tab.bub = 0 THEN f.turn ELSE tab.bub IN
         [log |-> Append(tab.log, [key |-> f.key, turn |-> f.turn, n |-> f.n, under |-> b]), bub |-> b]
    [] f.type = "done" -> [tab EXCEPT !.bub = 0]
    [] OTHER -> tab
Replay(tab, fs) == FoldLeft(Render, tab, fs)
TabNow(k) == [log |-> log[k], bub |-> bub[k]]
Becomes(k, tab) == log' = [log EXCEPT ![k] = tab.log] /\ bub' = [bub EXCEPT ![k] = tab.bub]

\* The first time the stream is ready the own tab asks for its history.
ready ==
  /\ wire # <<>> /\ Head(wire).type = "ready" /\ wire' = Tail(wire)
  /\ IF front = Own /\ ~hydrated /\ log[Own] = <<>>
     THEN hydrated' = TRUE /\ asked' = asked \cup {[key |-> Own, id |-> 0]}
     ELSE UNCHANGED <<hydrated, asked>>
  /\ UNCHANGED <<server, linked, view, st, said, counts, missing, cut>>

\* In front it is shown and read out, and the end of the reply ends the turn; otherwise it waits.
frame ==
  /\ wire # <<>> /\ Head(wire).type # "ready" /\ wire' = Tail(wire)
  /\ LET f == Head(wire)
         k == FrameTab(f)
     IN IF k # front
        THEN pending' = [pending EXCEPT ![k] = Append(@, f)] /\ UNCHANGED <<log, bub, st, said>>
        ELSE /\ Becomes(k, Render(TabNow(k), f)) /\ UNCHANGED pending
             /\ st' = IF f.type = "delta" THEN st ELSE "idle"
             /\ said' = IF f.type = "delta" THEN said \cup {[key |-> f.key, turn |-> f.turn, n |-> f.n]} ELSE said
  /\ UNCHANGED <<server, linked, tabs, front, ids, loads, counts, cut>>

---------------------------------------------------------------------------
(* The phone: turns, stops, tabs.                                            *)

\* The turn goes to the session in front.
sendTurn ==
  /\ st = "idle" /\ turns < MaxTurns /\ turns' = turns + 1 /\ st' = "busy"
  /\ srv' = [srv EXCEPT ![front] = Append(@, turns + 1)]
  /\ UNCHANGED <<told, hist, linked, wire, view, loads, said, opens, acts, downs, cut>>

\* The gateway is asked to abort, and aborts what the device's own session runs.
Aborted == told' = [told EXCEPT ![Own] = IF srv[Own] = <<>> THEN 0 ELSE MaxDeltas]
stopEverything ==
  /\ Act /\ st = "busy" /\ st' = "idle" /\ Aborted /\ bub' = [bub EXCEPT ![front] = 0]
  /\ cut' = IF srv[Own] = <<>> /\ srv[front] = <<>> THEN cut ELSE cut \cup {<<front, Own>>}
  /\ UNCHANGED <<srv, hist, linked, wire, tabs, front, log, pending, ids, loads, said, turns, opens, downs>>

\* The tab comes to the front with what waited for it, silently.
Cleared_Kept(k) == pending[k]
Cleared(k) == <<>>
ToFront(k) ==
  /\ front' = k /\ st' = "idle" /\ pending' = [pending EXCEPT ![k] = Cleared(k)]
  /\ Becomes(k, Replay(TabNow(k), pending[k]))
switchTab(k) ==
  /\ Act /\ k \in Open \ {front} /\ ToFront(k)
  /\ UNCHANGED <<server, linked, wire, tabs, ids, loads, said, turns, opens, downs, cut>>

\* The one before it comes to the front; the tab and what it shows are gone.
closeTab(k) ==
  /\ Act /\ k \in Open \ {Own} /\ tabs' = SelectSeq(tabs, LAMBDA t : t # k)
  /\ LET i == CHOOSE j \in DOMAIN tabs : tabs[j] = k
         p == tabs[i - 1]
         now == IF k = front THEN Replay(TabNow(p), pending[p]) ELSE TabNow(p)
     IN /\ front' = (IF k = front THEN p ELSE front) /\ st' = IF k = front THEN "idle" ELSE st
        /\ log' = [log EXCEPT ![k] = <<>>, ![p] = now.log] /\ bub' = [bub EXCEPT ![k] = 0, ![p] = now.bub]
        /\ pending' = [pending EXCEPT ![k] = <<>>, ![p] = IF k = front THEN Cleared(p) ELSE @]
  /\ missing' = missing \ {k}
  /\ UNCHANGED <<server, linked, wire, ids, asked, hydrated, said, turns, opens, downs, cut>>

\* A session is opened as a tab, in front, and its history asked for.
selectSession(k) ==
  /\ opens < MaxOpens /\ opens' = opens + 1 /\ k \in Others \ Open
  /\ tabs' = Append(tabs, k) /\ front' = k /\ ids' = [ids EXCEPT ![k] = opens + 1] /\ st' = "idle"
  /\ asked' = asked \cup {[key |-> k, id |-> opens + 1]}
  /\ UNCHANGED <<server, linked, wire, log, pending, bub, hydrated, said, turns, acts, downs, missing, cut>>

\* Its history comes: shown under what is already there, if the tab is still the one in front.
Recorded(k) == [i \in DOMAIN hist[k] |-> [key |-> k, turn |-> hist[k][i], n |-> 0, under |-> hist[k][i]]]
history(x) ==
  /\ x \in asked /\ x.key # Own /\ asked' = asked \ {x}
  /\ IF front = x.key /\ ids[x.key] = x.id
     THEN Becomes(front, [log |-> log[front] \o Recorded(front), bub |-> 0]) /\ UNCHANGED missing
     ELSE /\ missing' = IF x.key \in Open /\ ids[x.key] = x.id THEN missing \cup {x.key} ELSE missing
          /\ UNCHANGED <<log, bub>>
  /\ UNCHANGED <<server, linked, wire, tabs, front, pending, ids, hydrated, st, said, counts, cut>>
\* The own history replaces whatever the tab in front shows.
hydrateOwn(x) ==
  /\ x \in asked /\ x.key = Own /\ asked' = asked \ {x}
  /\ Becomes(front, [log |-> Recorded(Own), bub |-> 0])
  /\ UNCHANGED <<server, linked, wire, tabs, front, pending, ids, hydrated, missing, st, said, counts, cut>>
historyFails(x) == x \in asked /\ asked' = asked \ {x} /\ UNCHANGED <<server, linked, wire, view, hydrated, missing, st, said, counts, cut>>

\* A new session: everything is stopped, the own session forgotten, its tab emptied.
newSession ==
  /\ Act /\ Aborted /\ hydrated' = TRUE /\ front' = Own /\ st' = "idle"
  /\ log' = [log EXCEPT ![Own] = <<>>] /\ pending' = [pending EXCEPT ![Own] = <<>>]
  /\ bub' = [k \in Keys |-> IF k \in {Own, front} THEN 0 ELSE bub[k]]
  /\ UNCHANGED <<srv, hist, linked, wire, tabs, ids, asked, missing, said, turns, opens, downs, cut>>

Next ==
  \/ stream \/ closed \/ ready \/ frame \/ sendTurn \/ stopEverything \/ newSession
  \/ \E k \in Keys : onDelta(k) \/ turnDone(k) \/ turnError(k) \/ switchTab(k) \/ closeTab(k) \/ selectSession(k)
  \/ \E x \in asked : history(x) \/ hydrateOwn(x) \/ historyFails(x)

Spec == Init /\ [][Next]_vars

---------------------------------------------------------------------------
\* However tabs are switched, closed and opened again while replies stream, no piece of a reply is shown
\* or held twice in a tab, nor after a later one.
Before(a, b) == a.turn < b.turn \/ (a.turn = b.turn /\ a.n < b.n)
Live(k) == SelectSeq(log[k], LAMBDA e : e.n > 0) \o SelectSeq(pending[k], LAMBDA f : f.type = "delta")
OnceInOrder ==
  \A k \in Keys : \A i, j \in DOMAIN Live(k) :
    i < j /\ Live(k)[i].key = Live(k)[j].key => Before(Live(k)[i], Live(k)[j])

\* A reply streaming into an open tab's session is never shown in another tab.
SortedIntoTabs ==
  [][\A k \in Keys : \A i \in DOMAIN log'[k] :
       LET e == log'[k][i] IN e.n > 0 /\ e.key # k /\ e.key \in Open => e \in ToSet(log[k])]_vars

\* What the code says of itself and does not do; none of these holds.

\* What ends the turn in front is that turn's own end.
EndsItsOwn == [][frame /\ st = "busy" /\ st' = "idle" => Head(wire).key = front]_vars
\* A reply has a bubble of its own.
OwnBubble == \A k \in Keys : \A i \in DOMAIN log[k] : log[k][i].under = log[k][i].turn
\* The button stops what the tab in front is running.
StopsWhatItShows == \A c \in cut : c[1] = c[2]
\* Nothing is lost on switching away while the history loads.
NothingLostOnSwitch == missing = {}
\* A tab shows its own session's history, and under it what came since.
OwnHistory == \A k \in Keys : \A i \in DOMAIN log[k] : log[k][i].n = 0 => log[k][i].key = k
HistoryFirst == \A k \in Keys : \A i, j \in DOMAIN log[k] : i < j /\ log[k][j].n = 0 => log[k][i].n = 0
\* Only the tab in front speaks.
OnlyFrontSpeaks == [][\A p \in said' \ said : p.key = front]_vars
\* The button does not stay on Stop when nothing runs and nothing is on its way.
NeverStuck == st = "busy" => wire # <<>> \/ \E k \in Keys : srv[k] # <<>>
=============================================================================

------------------------------ MODULE Streams ------------------------------
(***************************************************************************)
(* A topic stream (core/src/streams.js and its routes in server.js): an     *)
(* append-only log that sessions attach to, and the freshness watermark     *)
(* that tells a session how many events of others it was not told of yet.   *)
(***************************************************************************)
EXTENDS Integers, Sequences, FiniteSets

CONSTANTS
  Sessions,   \* session keys
  TwoCalls,   \* the sessions that read the count, show it, and acknowledge in a second call
  Filed,      \* the writer of filed recordings and notes, which is no session
  MaxEvents   \* bound: length of the log

VARIABLES
  exists,   \* the stream is there
  log,      \* stream_events: who wrote each
  members,  \* stream_members
  cursor,   \* stream_cursors: external events already announced
  told,     \* history: external events of the present log each session was told of
  showing   \* sessions between the read and its acknowledgement

vars == <<exists, log, members, cursor, told, showing>>

TypeOK ==
  /\ exists \in BOOLEAN
  /\ log \in Seq(Sessions \cup {Filed})
  /\ members \subseteq Sessions /\ showing \subseteq TwoCalls
  /\ cursor \in [Sessions -> Nat] /\ told \in [Sessions -> Nat]

Zero == [s \in Sessions |-> 0]
Init == /\ exists = FALSE /\ log = <<>> /\ members = {} /\ cursor = Zero
        /\ told = Zero /\ showing = {}

External_All(s) == Len(log)
\* The count freshness() makes: the events that s did not write.
External(s) == Cardinality({i \in DOMAIN log : log[i] # s})

\* freshness(): what is new to an attached session.
Fresh(s) == IF s \in members /\ External(s) > cursor[s] THEN External(s) - cursor[s] ELSE 0

create ==
  /\ ~exists /\ exists' = TRUE
  /\ UNCHANGED <<log, members, cursor, told, showing>>

attach(s) ==
  /\ exists /\ s \notin members /\ members' = members \cup {s}
  /\ UNCHANGED <<exists, log, cursor, told, showing>>

\* The cursor stays: who comes back is told what it missed.
detach(s) ==
  /\ s \in members /\ members' = members \ {s}
  /\ UNCHANGED <<exists, log, cursor, told, showing>>

\* POST events, and a recording filed with to-stream; the writer need not be attached.
append(w) ==
  /\ exists /\ Len(log) < MaxEvents /\ log' = Append(log, w)
  /\ UNCHANGED <<exists, members, cursor, told, showing>>

\* GET freshness without ack, by a session that will show the count first.
Read(s) ==
  /\ s \in TwoCalls \ showing /\ Fresh(s) > 0
  /\ told' = [told EXCEPT ![s] = cursor[s] + Fresh(s)]
  /\ showing' = showing \cup {s}
  /\ UNCHANGED <<exists, log, members, cursor>>

\* GET freshness?ack=1: the count is computed again and becomes the cursor.
markAnnounced(s) ==
  /\ IF s \in TwoCalls THEN s \in showing ELSE Fresh(s) > 0
  /\ cursor' = IF s \in members THEN [cursor EXCEPT ![s] = External(s)] ELSE cursor
  /\ told' = IF s \in TwoCalls THEN told ELSE [told EXCEPT ![s] = @ + Fresh(s)]
  /\ showing' = showing \ {s}
  /\ UNCHANGED <<exists, log, members>>

\* DELETE: the log, its members and their cursors go together.
remove ==
  /\ exists /\ exists' = FALSE
  /\ log' = <<>> /\ members' = {} /\ cursor' = Zero /\ told' = Zero
  /\ UNCHANGED showing

Next ==
  \/ create \/ remove
  \/ \E s \in Sessions : attach(s) \/ detach(s) \/ Read(s) \/ markAnnounced(s)
  \/ \E w \in Sessions \cup {Filed} : append(w)

Spec == Init /\ [][Next]_vars

---------------------------------------------------------------------------
\* A session that acknowledges in the call it shows is told of every event of others once:
\* through detaching and coming back, its own writes, and a stream removed and made again.
ToldOnce ==
  \A s \in Sessions \ TwoCalls :
    /\ told[s] = cursor[s]
    /\ told[s] <= Cardinality({i \in DOMAIN log : log[i] # s})

\* server.js: "ack=1 advances the cursor (call after the nudge is shown)".
AcknowledgedIsTold == \A s \in Sessions : cursor[s] <= told[s]
=============================================================================

--------------------------- MODULE ConnectorRuntime ---------------------------
(***************************************************************************)
(* A connector's process and its client of the core (connectors/runtime,    *)
(* connectors/sdk): the plugin's start, the shutdown with its deadline, and *)
(* the requests it has open while the core answers, streams, restarts or    *)
(* goes quiet.  A request is a promise: what it settles with is final.      *)
(* The connector is the one with an OpenAI face (types/openai): its client  *)
(* sends a chat that grows, and the core's session is to hold it once.      *)
(***************************************************************************)
EXTENDS Integers, FiniteSets

CONSTANTS
  Turns,     \* requests for a turn, numbered: the n-th carries the chat's first n messages
  Streaming, \* those of them that are streamed
  Asks,      \* its other requests
  MaxDowns   \* bound: times the core goes down

Requests == Turns \cup Asks

VARIABLES
  proc,      \* the process: "loading", "running", "stopping", "exited"
  code,      \* what it exited with
  req,       \* each request: "idle", "sent", "answering" (headers are here), or how it settled
  sock,      \* its socket: open, dead (reset), quiet (nothing arrives any more), or gone
  turn,      \* what became of it in the core: none, running, over (done), refused, cut
  seen,      \* seenKeys holds the chat
  prompt,    \* the messages of the chat each turn was given
  kind,      \* of the other requests: "resolve" and "control" are answered with an object, "auth"
             \* checks a device's credential
  core, downs

vars == <<proc, code, req, sock, turn, seen, prompt, kind, core, downs>>

\* Actions or an object; nothing (no actions); null, for a credential that is not known; an error.
Settled == {"answer", "nothing", "null", "error"}

TypeOK ==
  /\ proc \in {"loading", "running", "stopping", "exited"} /\ code \in 0..2
  /\ req \in [Requests -> {"idle", "sent", "answering"} \cup Settled]
  /\ sock \in [Requests -> {"none", "open", "dead", "quiet"}]
  /\ turn \in [Requests -> {"none", "running", "over", "refused", "cut"}]
  /\ kind \in [Asks -> {"resolve", "control", "auth"}]
  /\ seen \in BOOLEAN /\ prompt \in [Turns -> SUBSET Nat] /\ \A r \in Turns : prompt[r] \subseteq 1..r
  /\ core \in {"up", "down"} /\ downs \in 0..MaxDowns

Init ==
  /\ proc = "loading" /\ code = 0 /\ req = [r \in Requests |-> "idle"]
  /\ sock = [r \in Requests |-> "none"] /\ turn = [r \in Requests |-> "none"]
  /\ seen = FALSE /\ prompt = [r \in Turns |-> {}] /\ kind \in [Asks -> {"resolve", "control", "auth"}]
  /\ core \in {"up", "down"} /\ downs = 0

client == <<req, sock, turn, seen, prompt, kind>>
server == <<core, downs>>

\* The type is found and started, cannot be loaded (2), or its start throws (1).
main ==
  /\ proc = "loading"
  /\ \/ proc' = "running" /\ UNCHANGED code
     \/ proc' = "exited" /\ code' \in {1, 2}
  /\ UNCHANGED <<client, server>>

\* The chat as the session gets it: all of it the first time, then its newest message.
Forward_Whole(n) == 1..n
Forward(n) == IF seen THEN {n} ELSE 1..n

\* A request is written; with no core the connection is refused.  The chat counts as seen before
\* the core has it.  A client may come with a chat begun elsewhere.
Waiting == {"sent", "answering"}
request(r) ==
  /\ proc = "running" /\ req[r] = "idle" /\ req' = [req EXCEPT ![r] = "sent"]
  /\ r \in Turns => \A q \in Turns \ {r} : IF q < r THEN req[q] \notin Waiting ELSE req[q] = "idle"
  /\ sock' = [sock EXCEPT ![r] = IF core = "up" THEN "open" ELSE "dead"]
  /\ turn' = [turn EXCEPT ![r] = IF core = "up" THEN "running" ELSE "none"]
  /\ IF r \in Turns
       THEN seen' = TRUE /\ prompt' = [prompt EXCEPT ![r] = Forward(r)]
       ELSE UNCHANGED <<seen, prompt>>
  /\ UNCHANGED <<proc, code, kind, server>>

Alive(r) == proc \in {"running", "stopping"} /\ req[r] \in Waiting
SettleWith(r, how) ==
  /\ req' = [req EXCEPT ![r] = how] /\ sock' = [sock EXCEPT ![r] = "none"]
  /\ UNCHANGED <<proc, code, turn, seen, prompt, kind, server>>

Heard(r) ==
  /\ proc \in {"running", "stopping"} /\ sock[r] = "open"
  /\ req[r] = (IF r \in Streaming THEN "answering" ELSE "sent")

\* The headers of a stream come first; a status that is not a success settles the request.
Headers(r) ==
  /\ Alive(r) /\ r \in Streaming /\ req[r] = "sent" /\ sock[r] = "open"
  /\ \/ req' = [req EXCEPT ![r] = "answering"] /\ UNCHANGED sock
     \/ req' = [req EXCEPT ![r] = "error"] /\ sock' = [sock EXCEPT ![r] = "none"]
  /\ UNCHANGED <<proc, code, turn, seen, prompt, kind, server>>

\* The core has done it: a request that is still open has its actions, or its object.
Done(r) == turn' = [turn EXCEPT ![r] = "over"] /\ req' = [req EXCEPT ![r] = IF Heard(r) THEN "answer" ELSE @]

\* It says no: an error, but for a credential that is not known (401), whose answer is null.
MayBeUnknown(r) == r \in Asks /\ kind[r] = "auth"
RefusedBy(r) ==
  /\ turn' = [turn EXCEPT ![r] = "refused"]
  /\ \E how \in {"error"} \cup (IF MayBeUnknown(r) THEN {"null"} ELSE {}) :
       req' = [req EXCEPT ![r] = IF Heard(r) THEN how ELSE @]

Ends(r) ==
  /\ core = "up" /\ turn[r] = "running" /\ (Heard(r) \/ ~Alive(r))
  /\ Done(r) \/ RefusedBy(r)
  /\ sock' = [sock EXCEPT ![r] = IF Heard(r) THEN "none" ELSE @]
  /\ UNCHANGED <<proc, code, seen, prompt, kind, server>>

\* A stream that closes well without its last event (by something between the two): no actions,
\* as if the turn had said nothing.
End(r) ==
  /\ Alive(r) /\ req[r] = "answering" /\ turn[r] = "cut" /\ sock[r] = "dead"
  /\ SettleWith(r, "nothing")

\* Before the headers a dead socket is an error of the request, for a credential too.
Refused_Null(r) == IF MayBeUnknown(r) THEN "null" ELSE "error"
Refused(r) == "error"
RequestError(r) == Alive(r) /\ req[r] = "sent" /\ sock[r] = "dead" /\ SettleWith(r, Refused(r))

\* After them it is one of the response: aborted.
Watched_Not(r) == FALSE
Watched(r) == sock[r] = "dead"
watchClose(r) == Alive(r) /\ req[r] = "answering" /\ Watched(r) /\ SettleWith(r, "error")

\* Nothing at all on the socket for a quarter of an hour; a socket that is dead keeps no timer.
guard(r) == Alive(r) /\ sock[r] \in {"open", "quiet"} /\ SettleWith(r, "error")

\* The core goes down with the turns it runs: its sockets are reset, or it is never heard of again.
CoreDown ==
  /\ core = "up" /\ downs < MaxDowns /\ core' = "down" /\ downs' = downs + 1
  /\ turn' = [r \in Requests |-> IF turn[r] = "running" THEN "cut" ELSE turn[r]]
  /\ \E lost \in SUBSET Requests :
       sock' = [r \in Requests |-> IF sock[r] # "open" THEN sock[r]
                                   ELSE IF r \in lost THEN "quiet" ELSE "dead"]
  /\ UNCHANGED <<proc, code, req, seen, prompt, kind>>

CoreUp == core = "down" /\ core' = "up" /\ UNCHANGED <<downs, proc, code, client>>

\* SIGTERM or SIGINT, once.
shutdown ==
  /\ proc = "running" /\ proc' = "stopping" /\ UNCHANGED <<code, client, server>>

\* The plugin's stop returns.
Stopped ==
  /\ proc = "stopping" /\ proc' = "exited" /\ UNCHANGED <<code, client, server>>

\* It did not, and two seconds have passed.
Deadline_None == FALSE
Deadline == proc = "stopping"
deadlinePasses == Deadline /\ proc' = "exited" /\ UNCHANGED <<code, client, server>>

\* What the chat's client is told of a turn that settled: a stream ends with "stop" either way.
Told(r) ==
  IF r \in Streaming THEN "stop" ELSE IF req[r] = "error" THEN "server_error" ELSE "stop"

Next ==
  \/ main \/ CoreDown \/ CoreUp \/ shutdown \/ Stopped \/ deadlinePasses
  \/ \E r \in Requests : \/ request(r) \/ Headers(r) \/ Ends(r) \/ End(r) \/ RequestError(r)
                         \/ watchClose(r) \/ guard(r)

\* Errors of a socket are delivered, and timers fire.  Nothing makes the core answer, or stop
\* return.
Delivered(r) == RequestError(r) \/ watchClose(r) \/ guard(r)
Fairness == (\A r \in Requests : WF_vars(Delivered(r))) /\ WF_vars(deadlinePasses)
Spec == Init /\ [][Next]_vars /\ Fairness

---------------------------------------------------------------------------
\* A request that was sent settles, whatever becomes of the core, or the process ends: no lock
\* of a channel is held for ever.
EverySettles == \A r \in Requests : req[r] \in Waiting ~> (req[r] \in Settled \/ proc = "exited")

\* A process told to stop ends, though its plugin's stop never returns.
ShutdownEnds == proc = "stopping" ~> proc = "exited"

\* A credential is called unknown when the core said so, and never for want of a core.
NullIsTheCoresWord == \A r \in Requests : req[r] = "null" => turn[r] = "refused"

\* The session is given no message of a chat twice.
GivenOnce == \A q, r \in Turns : q # r => prompt[q] \cap prompt[r] = {}

\* A turn that was answered had the whole chat before it: also after a first turn that failed.
HasTheChat ==
  \A r \in Turns : req[r] = "answer" => 1..r \subseteq UNION {prompt[q] : q \in {x \in Turns : turn[x] # "none"}}

\* A client whose turn failed is told so.
FailureIsTold == \A r \in Turns : req[r] = "error" => Told(r) # "stop"

\* A request is not failed while the core goes on with its turn: long turns complete.
LongTurnsComplete == \A r \in Requests : req[r] = "error" => turn[r] # "running"
=============================================================================

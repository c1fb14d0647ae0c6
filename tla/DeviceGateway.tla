---------------------------- MODULE DeviceGateway ----------------------------
(***************************************************************************)
(* The gateways the assistant's devices connect to. A phone holds two streams:  *)
(* the app's, while it is open, and a control link its background service        *)
(* holds; a stream that is taken up again replaces the old one. Commands go out    *)
(* and are answered, or time out; texts to read aloud, files and desktops to open   *)
(* are pushed; and a device is told once what surface it is talked to through.      *)
(***************************************************************************)
EXTENDS Integers, Sequences, FiniteSets

CONSTANTS
  Phones,                     \* devices, all of one identity
  Owner,                      \* that identity
  MaxLinks, MaxRpcs, MaxOut,  \* streams taken up, commands sent, texts, files and desktops pushed
  MaxTurns, MaxResets         \* turns of a device, sessions forgotten behind the gateway's back

VARIABLES
  chat, control,   \* the gateway's registries: the stream each device holds, by kind (0: none)
  links, live, closing, \* streams: kind and device; those the device still reads; closed, not noticed yet
  made, rpcs, pending, answers, \* counters; commands waiting; the answers each request was given
  frames, results, \* commands on their way to a device, results on their way back
  media, file,     \* attachments the gateway knows, those on disk
  out, heard, opened, kept, promised, \* pushes; texts read aloud; desktops asked for and opened; files on
                   \* record by session; files said to be saved for a target
  sig, knows, lately, \* per device: the surface it was last told, the one its session knows, the last turn's
  turns, resets

vars == <<chat, control, links, live, closing, made, rpcs, pending, answers, frames, results, media, file,
          out, heard, opened, kept, promised, sig, knows, lately, turns, resets>>
registry == <<chat, control, links, live, closing, made>>
calls == <<rpcs, pending, answers, frames, results>>
pushes == <<media, file, out, heard, opened, kept, promised>>
surface == <<sig, knows, lately, turns, resets>>

Links == 1..MaxLinks
Rpcs == 1..MaxRpcs
Outs == 1..MaxOut
Caps == {"none", "screen", "speaker"}

TypeOK ==
  /\ chat \in [Phones -> 0..MaxLinks] /\ control \in [Phones -> 0..MaxLinks]
  /\ \A l \in Links : links[l] = <<>> \/ links[l] \in [dev : Phones, kind : {"chat", "control"}]
  /\ live \subseteq Links /\ closing \subseteq Links /\ made \in 0..MaxLinks /\ rpcs \in 0..MaxRpcs
  /\ pending \subseteq Rpcs /\ answers \in [Rpcs -> 0..2] /\ frames \subseteq Rpcs /\ results \subseteq Rpcs
  /\ media \subseteq Outs /\ file \subseteq media /\ out \in 0..MaxOut
  /\ heard \subseteq [o : Outs, dev : Phones, by : {"chat", "control"}, hp : BOOLEAN, on : BOOLEAN]
  /\ opened \subseteq [o : Outs, said : BOOLEAN, done : BOOLEAN]
  /\ kept \subseteq Outs \X (Phones \cup {Owner}) /\ promised \subseteq Outs
  /\ sig \in [Phones -> Caps] /\ knows \in [Phones -> Caps] /\ lately \in [Phones -> Caps]
  /\ turns \in 0..MaxTurns /\ resets \in 0..MaxResets

Init ==
  /\ chat = [d \in Phones |-> 0] /\ control = [d \in Phones |-> 0] /\ links = [l \in Links |-> <<>>]
  /\ live = {} /\ closing = {} /\ made = 0 /\ rpcs = 0 /\ pending = {} /\ answers = [r \in Rpcs |-> 0]
  /\ frames = {} /\ results = {} /\ media = {} /\ file = {} /\ out = 0 /\ heard = {} /\ opened = {}
  /\ kept = {} /\ promised = {} /\ sig = [d \in Phones |-> "none"] /\ knows = [d \in Phones |-> "none"]
  /\ lately = [d \in Phones |-> "none"] /\ turns = 0 /\ resets = 0

---------------------------------------------------------------------------
(* Streams.                                                                 *)

\* A stream taken up is registered and the one it replaces ended.
Held(kind) == IF kind = "chat" THEN chat ELSE control
Register(kind, r) == IF kind = "chat" THEN chat' = r /\ UNCHANGED control ELSE control' = r /\ UNCHANGED chat
stream(d, kind) ==
  /\ made < MaxLinks /\ made' = made + 1
  /\ links' = [links EXCEPT ![made + 1] = [dev |-> d, kind |-> kind]]
  /\ LET prev == Held(kind)[d] IN
     /\ live' = (live \ {prev}) \cup {made + 1}
     /\ closing' = closing \cup (IF prev \in live THEN {prev} ELSE {})
  /\ Register(kind, [Held(kind) EXCEPT ![d] = made + 1])
  /\ UNCHANGED <<calls, pushes, surface>>

\* The device goes away: the gateway does not see it at once.
dropped(l) ==
  /\ l \in live /\ live' = live \ {l} /\ closing' = closing \cup {l}
  /\ UNCHANGED <<chat, control, links, made, calls, pushes, surface>>

\* A stream's close unregisters the device only if the stream is still the one registered.
Unregister_Any(d, l, held) == 0
Unregister(d, l, held) == IF held = l THEN 0 ELSE held
closed(l) ==
  /\ l \in closing /\ closing' = closing \ {l}
  /\ LET d == links[l].dev
         kind == links[l].kind
     IN Register(kind, [Held(kind) EXCEPT ![d] = Unregister(d, l, @)])
  /\ UNCHANGED <<links, live, made, calls, pushes, surface>>

\* The gateway starts again: streams, commands and the told surfaces go, attachments come from disk.
restart ==
  /\ \E d \in Phones : chat[d] # 0 \/ control[d] # 0
  /\ chat' = [d \in Phones |-> 0] /\ control' = [d \in Phones |-> 0] /\ live' = {} /\ closing' = {}
  /\ pending' = {} /\ answers' = [r \in Rpcs |-> IF r \in pending THEN answers[r] + 1 ELSE answers[r]]
  /\ media' = file /\ sig' = [d \in Phones |-> "none"]
  /\ UNCHANGED <<links, made, rpcs, frames, results, file, out, heard, opened, kept, promised, knows, lately, turns, resets>>

---------------------------------------------------------------------------
(* Commands.                                                                *)

\* The control link first, then the app's stream; of several devices the one connected last.
Newest(held) == {d \in Phones : held[d] # 0 /\ \A e \in Phones : held[e] <= held[d]}
pickTarget(d) ==
  LET of(held) == IF d = Owner THEN Newest(held) ELSE {e \in {d} : held[e] # 0} IN
  IF of(control) # {} THEN {control[e] : e \in of(control)} ELSE {chat[e] : e \in of(chat)}

rpc(d) ==
  /\ rpcs < MaxRpcs /\ \E l \in pickTarget(d) : frames' = IF l \in live THEN frames \cup {rpcs + 1} ELSE frames
  /\ rpcs' = rpcs + 1 /\ pending' = pending \cup {rpcs + 1}
  /\ UNCHANGED <<answers, results, registry, pushes, surface>>
dispatch(r) ==
  /\ r \in frames /\ frames' = frames \ {r} /\ results' = results \cup {r}
  /\ UNCHANGED <<rpcs, pending, answers, registry, pushes, surface>>
\* An answer, or the timeout, settles the request and takes it off the table.
Answer(r) == answers' = [answers EXCEPT ![r] = @ + 1]
Settled_Kept(r) == pending
Settled(r) == pending \ {r}
rpcResult(r) ==
  /\ r \in results /\ results' = results \ {r}
  /\ IF r \in pending THEN pending' = pending \ {r} /\ Answer(r) ELSE UNCHANGED <<pending, answers>>
  /\ UNCHANGED <<rpcs, frames, registry, pushes, surface>>
timeout(r) ==
  /\ r \in pending /\ answers[r] = 0 /\ pending' = Settled(r) /\ Answer(r)
  /\ UNCHANGED <<rpcs, frames, results, registry, pushes, surface>>

---------------------------------------------------------------------------
(* Pushes.                                                                  *)

Targets(d) == IF d = "*" THEN Phones ELSE {d} \cap Phones
\* The streams a push is written to; that of a device that is gone counts until its close is seen.
Written(d) == {l \in {chat[e] : e \in Targets(d)} \cup {control[e] : e \in Targets(d)} : l # 0}

\* Read aloud by the app, whatever the headphones; by the service, if they are on or not asked for.
speak(d, hp, on) ==
  /\ out < MaxOut /\ out' = out + 1 /\ Written(d) # {}
  /\ heard' = heard \cup {[o |-> out + 1, dev |-> links[l].dev, by |-> links[l].kind, hp |-> hp, on |-> on]
                          : l \in {m \in Written(d) \cap live : links[m].kind = "chat" \/ on \/ ~hp}}
  /\ UNCHANGED <<media, file, opened, kept, promised, registry, calls, surface>>

\* The app opens the desktop; the service knows no such frame.
openRemoteDesktop(d) ==
  /\ out < MaxOut /\ out' = out + 1
  /\ opened' = opened \cup {[o |-> out + 1, said |-> Written(d) # {},
                             done |-> \E l \in Written(d) \cap live : links[l].kind = "chat"]}
  /\ UNCHANGED <<media, file, heard, kept, promised, registry, calls, surface>>

\* A file: to a device, to every connected device of an identity, to all that are connected; on record
\* for each, and otherwise for the name it was sent to.
Matching(d) ==
  CASE d = "*" -> {e \in Phones : chat[e] # 0}
    [] d = Owner -> LET s == {e \in Phones : chat[e] # 0} IN IF s = {} THEN {Owner} ELSE s
    [] OTHER -> {d}
outFile(d) ==
  /\ out < MaxOut /\ out' = out + 1 /\ media' = media \cup {out + 1}
  /\ \/ file' = file \cup {out + 1} \/ UNCHANGED file
  /\ kept' = kept \cup {<<out + 1, e>> : e \in Matching(d)}
  /\ promised' = IF \E e \in Matching(d) \cap Phones : chat[e] # 0 THEN promised ELSE promised \cup {out + 1}
  /\ UNCHANGED <<heard, opened, registry, calls, surface>>

---------------------------------------------------------------------------
(* A device's turn.                                                         *)

\* The surface is described when it is not the one last described; the session keeps it if the turn runs.
Described(d, c) == sig[d] # c
turn(d, c) ==
  /\ turns < MaxTurns /\ turns' = turns + 1 /\ sig' = [sig EXCEPT ![d] = c]
  /\ \/ /\ knows' = IF Described(d, c) /\ c # "none" THEN [knows EXCEPT ![d] = c] ELSE knows
        /\ lately' = [lately EXCEPT ![d] = c]
     \/ UNCHANGED <<knows, lately>>
  /\ UNCHANGED <<resets, registry, calls, pushes>>
forget(d) ==
  /\ knows[d] # "none" /\ knows' = [knows EXCEPT ![d] = "none"] /\ sig' = [sig EXCEPT ![d] = "none"]
  /\ lately' = [lately EXCEPT ![d] = "none"] /\ UNCHANGED <<turns, resets, registry, calls, pushes>>
\* Forgotten from elsewhere: the gateway does not hear of it.
forgottenElsewhere(d) ==
  /\ resets < MaxResets /\ resets' = resets + 1 /\ knows[d] # "none" /\ knows' = [knows EXCEPT ![d] = "none"]
  /\ lately' = [lately EXCEPT ![d] = "none"] /\ UNCHANGED <<sig, turns, registry, calls, pushes>>

Next ==
  \/ restart
  \/ \E d \in Phones, kind \in {"chat", "control"} : stream(d, kind)
  \/ \E l \in Links : dropped(l) \/ closed(l)
  \/ \E d \in Phones \cup {Owner} : rpc(d) \/ outFile(d)
  \/ \E r \in Rpcs : dispatch(r) \/ rpcResult(r) \/ timeout(r)
  \/ \E d \in Phones \cup {"*"} : openRemoteDesktop(d) \/ \E hp, on \in BOOLEAN : speak(d, hp, on)
  \/ \E d \in Phones : forget(d) \/ forgottenElsewhere(d) \/ \E c \in Caps : turn(d, c)

Spec == Init /\ [][Next]_vars

---------------------------------------------------------------------------
\* Whatever late results, timeouts and restarts come, a command's caller gets one answer, and one at all.
AnsweredOnce == \A r \in Rpcs : answers[r] = IF r <= rpcs /\ r \notin pending THEN 1 ELSE 0

\* While a device holds a stream the gateway knows it, however late the old one's close is seen.
Reachable == \A l \in live : Held(links[l].kind)[links[l].dev] = l

\* What the code says of itself and does not do; none of these holds.

\* A text is read aloud once.
SpokenOnce == \A x, y \in heard : x.o = y.o /\ x.dev = y.dev => x = y
\* What needs headphones is not read aloud without.
HeadphonesOnly == \A x \in heard : x.hp => x.on
\* A desktop that is said to be delivered is opened.
CastOpens == \A x \in opened : x.said => x.done
\* A file said to be saved for a reconnect is on record for a device.
SavedForReconnect == \A o \in promised : \E d \in Phones : <<o, d>> \in kept
\* An attachment on record can still be fetched after a restart.
ServedAfterRestart == \A k \in kept : k[1] \in media
\* A session that a device talks to knows the surface it was last used through.
SurfaceKnown == \A d \in Phones : lately[d] # "none" => knows[d] = lately[d]
=============================================================================

------------------------------- MODULE Outbound -------------------------------
(***************************************************************************)
(* What asmltr says on its own account: the notify ladder (shared/notify.js *)
(* behind the core's /v2/notify), the connector manager's unified /send     *)
(* that every rung and every announcement goes through, and the             *)
(* announcements queued for after a restart (connectors/manager/server.js). *)
(***************************************************************************)
EXTENDS Integers, Sequences, FiniteSets

CONSTANTS
  Notices,   \* calls of /v2/notify
  Notes,     \* announcements for after a restart
  Hours,     \* hours of the local clock, 0..Hours-1
  MaxTries,  \* deliveries tried for one announcement (6 in the code)
  MaxChanges,\* bound: changes of the delivery policy
  MaxFaults  \* bound: lost answers, crashes, failed writes

VARIABLES
  conf,      \* notify.json: quiet hours, whether a text fallback is set, whether it reads as JSON
  phone,     \* an assistant device is connected
  chat,      \* the fallback's connector answers
  call,      \* each notify call: None, or its options, the policy it read, its rung and part
  told,      \* ghost: what reached the user, in order
  queue,     \* announcements.json, and whether it reads as JSON
  draining,  \* the announcements this boot is delivering
  tries,     \* deliveries of the first of them so far
  posted,    \* ghost: the announcements asked for
  uncleared, \* ghost: those delivered while the file kept them
  manager,   \* "up" (the queue not read yet), "drained", or "down"
  changes, falters

vars == <<conf, phone, chat, call, told, queue, draining, tries, posted, uncleared, manager, changes, falters>>

None == <<>>
Ladder == <<"android", "push", "text">>
Wraps == [start |-> Hours - 1, end |-> 1]
NoEnd == [start |-> Hours - 1]
Day == [start |-> 1, end |-> 2]
Default == [quiet |-> Wraps, fallback |-> FALSE, whole |-> TRUE]

TypeOK ==
  /\ phone \in BOOLEAN /\ chat \in BOOLEAN
  /\ conf \in [quiet : {Wraps, NoEnd, Day}, fallback : BOOLEAN, whole : BOOLEAN]
  /\ \A n \in Notices : call[n] = None \/
       /\ call[n].rung \in 1..(Len(Ladder) + 1) /\ call[n].part \in 1..3
       /\ {call[n].ok, call[n].force, call[n].file, call[n].quiet, call[n].lost} \subseteq BOOLEAN
  /\ \A i \in DOMAIN told : told[i].of \in Notices \cup Notes
  /\ queue.list \in Seq(Notes) /\ queue.whole \in BOOLEAN /\ draining \in Seq(Notes)
  /\ tries \in 0..(MaxTries - 1) /\ posted \cup uncleared \subseteq Notes /\ manager \in {"up", "drained", "down"}
  /\ changes \in 0..MaxChanges /\ falters \in 0..MaxFaults

Init ==
  /\ conf = Default /\ phone \in BOOLEAN /\ chat = TRUE
  /\ call = [n \in Notices |-> None] /\ told = <<>>
  /\ queue = [list |-> <<>>, whole |-> TRUE] /\ draining = <<>> /\ tries = 0
  /\ posted = {} /\ uncleared = {} /\ manager = "up"
  /\ changes = 0 /\ falters = 0

NotesVars == <<queue, draining, tries, posted, uncleared>>
CallVars == <<conf, call>>
Falter == falters < MaxFaults /\ falters' = falters + 1

---------------------------------------------------------------------------
\* A file that does not parse reads as the defaults.
getConfig == IF conf.whole THEN conf ELSE Default

\* A patch replaces whole keys: quiet hours sent without an end keep none of the old end.
setConfig ==
  /\ changes < MaxChanges /\ changes' = changes + 1
  /\ \/ \E q \in {Wraps, NoEnd, Day} : conf' = [getConfig EXCEPT !.quiet = q]
     \/ \E f \in BOOLEAN : conf' = [getConfig EXCEPT !.fallback = f]
  /\ UNCHANGED <<phone, chat, call, told, NotesVars, manager, falters>>

\* The core dies while it writes the policy in place.
setConfigTorn ==
  /\ Falter /\ conf' = [conf EXCEPT !.whole = FALSE]
  /\ UNCHANGED <<phone, chat, call, told, NotesVars, manager, changes>>

inQuietHours_NoWrap(q, h) == "end" \in DOMAIN q /\ h >= q.start /\ h < q.end
inQuietHours(q, h) ==
  /\ "end" \in DOMAIN q
  /\ IF q.start <= q.end THEN h >= q.start /\ h < q.end ELSE h >= q.start \/ h < q.end

notify(n, hour, force, file, speak) ==
  /\ call[n] = None
  /\ LET c == getConfig IN
       call' = [call EXCEPT ![n] =
         [rung |-> 1, part |-> 1, ok |-> FALSE, force |-> force, file |-> file, speak |-> speak,
          quiet |-> ~force /\ inQuietHours(c.quiet, hour), policy |-> c, at |-> hour,
          lost |-> FALSE, via |-> 0]]
  /\ UNCHANGED <<conf, phone, chat, told, NotesVars, manager, changes, falters>>

\* What a rung sends: the file and the words to the device, nothing without a push sender, the
\* file or the words through the fallback.
Sends(j) ==
  CASE j.rung = 1 -> (IF j.file THEN <<"media">> ELSE <<>>)
                     \o (IF j.speak /\ ~j.quiet THEN <<"speak">> ELSE <<>>)
    [] j.rung = 3 /\ j.policy.fallback -> IF j.file THEN <<"attach", "text">> ELSE <<"text">>
    [] OTHER -> <<>>

\* After a part: the ladder ends at a rung something of which got through, else the next rung.
Climb_Past(j) == [j EXCEPT !.rung = @ + 1, !.part = 1, !.ok = FALSE, !.via = IF j.ok THEN j.rung ELSE @]
Climb(j) ==
  IF j.ok THEN [j EXCEPT !.rung = Len(Ladder) + 1, !.part = 1, !.via = j.rung]
  ELSE [j EXCEPT !.rung = @ + 1, !.part = 1]

After(j) == IF j.part < Len(Sends(j)) /\ ~(j.rung = 3 /\ j.ok)
            THEN [j EXCEPT !.part = @ + 1] ELSE Climb(j)

skip(n) ==
  /\ call[n] # None /\ call[n].rung <= Len(Ladder) /\ Sends(call[n]) = <<>>
  /\ call' = [call EXCEPT ![n] = Climb(@)]
  /\ UNCHANGED <<conf, phone, chat, told, NotesVars, manager, changes, falters>>

Sending(n) ==
  call[n] # None /\ call[n].rung <= Len(Ladder) /\ call[n].part <= Len(Sends(call[n]))
Kind(n) == Sends(call[n])[call[n].part]
Reachable(kind) ==
  IF kind \in {"media", "speak"} THEN phone ELSE chat
Heard(n, kind) == Append(told, [of |-> n, how |-> kind])

\* The manager resolves the instance, asks its /out, and answers what the connector said.
sent(n) ==
  /\ Sending(n) /\ manager # "down" /\ Reachable(Kind(n))
  /\ told' = Heard(n, Kind(n))
  /\ call' = [call EXCEPT ![n] = After([@ EXCEPT !.ok = TRUE])]
  /\ UNCHANGED <<conf, phone, chat, NotesVars, manager, changes, falters>>

\* No device, a connector that is down or refuses.  Only a refused attachment is sent as words.
notSent(n) ==
  /\ Sending(n) /\ manager # "down"
  /\ \/ ~Reachable(Kind(n)) /\ call' = [call EXCEPT ![n] = IF Kind(n) = "attach" THEN Climb(@) ELSE After(@)]
     \/ Kind(n) = "attach" /\ chat /\ call' = [call EXCEPT ![n] = After(@)]
  /\ UNCHANGED <<conf, phone, chat, told, NotesVars, manager, changes, falters>>

\* No manager: the fetch throws and the rung is given up, a part of it that got through with it.
throws(n) ==
  /\ Sending(n) /\ manager = "down"
  /\ call' = [call EXCEPT ![n] = Climb([@ EXCEPT !.ok = FALSE, !.lost = @ \/ call[n].ok])]
  /\ UNCHANGED <<conf, phone, chat, told, NotesVars, manager, changes, falters>>

\* It reached the user, and the answer is lost on the way back.
sentUnheard(n) ==
  /\ Sending(n) /\ manager # "down" /\ Reachable(Kind(n)) /\ Falter
  /\ told' = Heard(n, Kind(n))
  /\ LET j == [call[n] EXCEPT !.lost = TRUE] IN
       call' = [call EXCEPT ![n] = IF Kind(n) = "attach" THEN Climb(j) ELSE After(j)]
  /\ UNCHANGED <<conf, phone, chat, NotesVars, manager, changes>>

---------------------------------------------------------------------------
\* Queued in a file; one that does not parse is an empty queue.
announce(a) ==
  /\ manager # "down" /\ a \notin posted /\ posted' = posted \cup {a}
  /\ queue' = [list |-> Append(IF queue.whole THEN queue.list ELSE <<>>, a), whole |-> TRUE]
  /\ UNCHANGED <<CallVars, phone, chat, told, draining, tries, uncleared, manager, changes, falters>>

\* Twelve seconds after a boot: read, emptied on disk, then delivered one by one.
Cleared_After(q) == q
Cleared(q) == [list |-> <<>>, whole |-> TRUE]
drain ==
  /\ manager = "up" /\ manager' = "drained"
  /\ IF queue.whole THEN draining' = queue.list /\ queue' = Cleared(queue)
     ELSE UNCHANGED <<draining, queue>>
  /\ tries' = 0
  /\ UNCHANGED <<CallVars, phone, chat, told, posted, uncleared, changes, falters>>

\* The write that empties the file fails, and nobody hears of it: what is delivered stays in the file.
drainUncleared ==
  /\ manager = "up" /\ manager' = "drained"
  /\ queue.whole /\ queue.list # <<>> /\ draining' = queue.list /\ tries' = 0
  /\ Falter /\ uncleared' = uncleared \cup {queue.list[i] : i \in DOMAIN queue.list}
  /\ UNCHANGED <<CallVars, phone, chat, told, queue, posted, changes>>

NextNote == draining' = Tail(draining) /\ tries' = 0
GivenUp_OneMore == IF tries + 1 <= MaxTries THEN tries' = tries + 1 /\ UNCHANGED draining ELSE NextNote
GivenUp == IF tries + 1 < MaxTries THEN tries' = tries + 1 /\ UNCHANGED draining ELSE NextNote

noteSent ==
  /\ manager = "drained" /\ draining # <<>> /\ chat
  /\ told' = Append(told, [of |-> Head(draining), how |-> "text"]) /\ NextNote
  /\ UNCHANGED <<CallVars, phone, chat, queue, posted, uncleared, manager, changes, falters>>

noteFails ==
  /\ manager = "drained" /\ draining # <<>> /\ ~chat /\ GivenUp
  /\ UNCHANGED <<CallVars, phone, chat, told, queue, posted, uncleared, manager, changes, falters>>

noteUnheard ==
  /\ manager = "drained" /\ draining # <<>> /\ chat /\ Falter
  /\ told' = Append(told, [of |-> Head(draining), how |-> "unheard"]) /\ GivenUp
  /\ UNCHANGED <<CallVars, phone, chat, queue, posted, uncleared, manager, changes>>

\* The manager stops (a restart, a crash), perhaps in the middle of writing the queue.
managerStops ==
  /\ manager # "down" /\ Falter /\ manager' = "down" /\ draining' = <<>> /\ tries' = 0
  /\ queue' \in {queue, [list |-> <<>>, whole |-> FALSE]}
  /\ UNCHANGED <<CallVars, phone, chat, told, posted, uncleared, changes>>

managerBoots ==
  /\ manager = "down" /\ manager' = "up"
  /\ UNCHANGED <<CallVars, phone, chat, told, NotesVars, changes, falters>>

\* A device connects or leaves; the fallback's connector starts or stops.
Around ==
  /\ \/ phone' = ~phone /\ UNCHANGED chat
     \/ chat' = ~chat /\ UNCHANGED phone
  /\ UNCHANGED <<CallVars, told, NotesVars, manager, changes, falters>>

Next ==
  \/ setConfig \/ setConfigTorn
  \/ \E n \in Notices :
       \/ \E hour \in 0..(Hours - 1) : \E force, file, speak \in BOOLEAN : notify(n, hour, force, file, speak)
       \/ skip(n) \/ sent(n) \/ notSent(n) \/ throws(n) \/ sentUnheard(n)
  \/ \E a \in Notes : announce(a)
  \/ drain \/ drainUncleared \/ noteSent \/ noteFails \/ noteUnheard \/ managerStops \/ managerBoots
  \/ Around

Spec == Init /\ [][Next]_vars

---------------------------------------------------------------------------
Times(of, hows) == Cardinality({i \in DOMAIN told : told[i].of = of /\ told[i].how \in hows})
Finished(n) == call[n] # None /\ call[n].rung > Len(Ladder)

\* The hours from the start of the window to its end, walked on the clock face.
Window(q) == {h \in 0..(Hours - 1) : (h - q.start) % Hours < (q.end - q.start) % Hours}

\* Nothing is spoken that was asked for inside the quiet window, over midnight too, unless it was
\* forced.
QuietIsKept ==
  \A n \in Notices : Times(n, {"speak"}) > 0 =>
    call[n].force \/ ~("end" \in DOMAIN call[n].policy.quiet /\ call[n].at \in Window(call[n].policy.quiet))

\* The ladder stops at the first rung that reaches the user: a notice is told on two rungs, or twice on one, only
\* when an answer was lost, and what it reports is the rung that did reach the user.
OneRung ==
  \A n \in Notices : call[n] # None /\ ~call[n].lost =>
    /\ ~(Times(n, {"media", "speak"}) > 0 /\ Times(n, {"attach", "text"}) > 0)
    /\ Times(n, {"attach", "text"}) <= 1
    /\ (Finished(n) => (call[n].via = 1) = (Times(n, {"media", "speak"}) > 0))
    /\ (Finished(n) => (call[n].via = 3) = (Times(n, {"attach", "text"}) > 0))

\* An announcement whose delivery was answered is never delivered again, whatever crashes: the
\* queue is emptied before the first delivery, unless that very write failed.
Again(i, j) == i < j /\ told[i].of \in Notes /\ told[i].of = told[j].of /\ told[i].how # "unheard"
AnnouncedOnce == \A i, j \in DOMAIN told : Again(i, j) => told[i].of \in uncleared

\* ... and, that write failed or not, a manager that restarts does not say it again.
NeverSaidAgain == \A i, j \in DOMAIN told : ~Again(i, j)

\* (doc) During quiet hours "the message still travels the rest of the ladder as text"; with no
\* quieter step "it's held rather than spoken": a finished notice reached the user or waits.
HeldNotLost == \A n \in Notices : Finished(n) /\ call[n].quiet => call[n].via # 0

\* A notice reaches the user once.
ToldOnce ==
  \A n \in Notices : ~(Times(n, {"speak"}) > 0 /\ Times(n, {"attach", "text"}) > 0)

\* A queued announcement is still to be delivered, or has been.
NotesKept ==
  [][\A a \in Notes :
       (\E i \in DOMAIN queue.list : queue.list[i] = a) \/ (\E i \in DOMAIN draining : draining[i] = a)
         => \/ \E i \in DOMAIN queue'.list : queue'.list[i] = a
            \/ \E i \in DOMAIN draining' : draining'[i] = a
            \/ \E i \in DOMAIN told' : told'[i].of = a]_vars

\* The quiet hours that were set stay in force until they are changed.
QuietStaysOn == [][getConfig.quiet # getConfig'.quiet => changes' # changes]_vars
=============================================================================

------------------------------ MODULE RemoteDesktop ------------------------------
(***************************************************************************)
(* Remote desktop: the signalling broker, which knows the machines and the  *)
(* viewers that hold a stream to it, caches who a token is, and keeps the   *)
(* sessions it relays for; the viewer every surface shares, whose attempts  *)
(* to connect outlive each other; the revocation that core pokes in; and,   *)
(* apart from those, touch control (mobile/www/remote-desktop.js): fingers  *)
(* on the overlay become clicks, moves and scrolls on the control channel,  *)
(* told apart by flags that live across events, a timer, and a move queued  *)
(* for the next frame, while the connection ends, or loses its grant, under *)
(* the fingers.                                                             *)
(***************************************************************************)
EXTENDS Integers, FiniteSets

CONSTANTS
  Viewers,      \* devices that watch
  MaxAttempts,   \* bound: connections a viewer tries
  Fingers,
  None

VARIABLES
  scene,     \* the part at work, chosen at the start
  ownId,      \* the machine registers under its device id (else under a name of its own)
  revoked,    \* devices the registry has revoked
  poke, told, \* invalidations on their way to the broker, and heard
  asking,     \* each device's authentication in hand: not asked, or what the registry said
  known,      \* devices the broker's cache holds as good
  late,       \* history: told while one of its requests was in hand
  hosting,    \* the machine's stream is up
  holder,     \* each viewer: the attempt whose stream the broker writes to, or 0
  sessions,   \* the broker's sessions: viewer, attempt and control
  gen, last,  \* each viewer's generation: the attempt under way, 0 when disconnected; the latest
  attempt,    \* each attempt: off, waiting for its stream, asking, holding a grant, live, over
  stream,     \* attempts whose EventSource reconnects
  media,      \* attempts whose picture flows, peer to peer
  waker,       \* the attempt readyResolve wakes
  sess,        \* "off" (no viewer), "connecting", "watching", "control", "ended"
  ptrs,        \* the fingers being followed: how far from where they landed, for how long
  moved, lpFired, twoFinger, scrolled,
  lpTimer,     \* a long press is being timed
  pendingMove, \* the move that waits for the frame: "mine" this gesture's, "old" an earlier one's, or None
  kb,          \* the soft keyboard is open
  did          \* what the gesture in progress has sent: the clicks are counted

screenVars == <<ownId, revoked, poke, told, asking, known, late, hosting, holder, sessions, gen, last,
          attempt, stream, media, waker>>
registry == <<ownId, revoked, poke, told, late>>
client == <<gen, last, attempt, stream, media, waker>>

Machine == "machine"
Devices == Viewers \cup {Machine}
Attempts == 1..MaxAttempts
Grants == {"none", "view", "control"}

ScreenTypeOK ==
  /\ ownId \in BOOLEAN /\ hosting \in BOOLEAN
  /\ \A s \in {revoked, poke, told, known, late} : s \subseteq Devices
  /\ asking \in [Devices -> {"no", "good", "bad"}]
  /\ holder \in [Viewers -> 0..MaxAttempts]
  /\ sessions \subseteq [v : Viewers, k : Attempts, control : BOOLEAN]
  /\ gen \in [Viewers -> 0..MaxAttempts] /\ last \in [Viewers -> 0..MaxAttempts]
  /\ attempt \in [Viewers -> [Attempts -> {"off", "waiting", "asking", "view", "control", "live", "over"}]]
  /\ stream \in [Viewers -> SUBSET Attempts] /\ media \subseteq Viewers \X Attempts
  /\ waker \in [Viewers -> 0..MaxAttempts]

ScreenInit ==
  /\ ownId \in BOOLEAN /\ revoked = {} /\ poke = {} /\ told = {} /\ late = {}
  /\ asking = [d \in Devices |-> "no"] /\ known = {} /\ hosting = FALSE
  /\ holder = [v \in Viewers |-> 0] /\ sessions = {}
  /\ gen = [v \in Viewers |-> 0] /\ last = [v \in Viewers |-> 0]
  /\ attempt = [v \in Viewers |-> [k \in Attempts |-> "off"]]
  /\ stream = [v \in Viewers |-> {}] /\ media = {} /\ waker = [v \in Viewers |-> 0]

---------------------------------------------------------------------------
(* Who a token is.                                                          *)

\* A token the cache does not hold: the registry answers, and the answer travels back.
auth(d) ==
  /\ d \notin known /\ asking[d] = "no"
  /\ asking' = [asking EXCEPT ![d] = IF d \in revoked THEN "bad" ELSE "good"]
  /\ UNCHANGED <<registry, known, hosting, holder, sessions, client>>

\* The answer is cached whatever happened meanwhile; a refusal throws and is not.
Answered(d) ==
  /\ asking[d] # "no" /\ asking' = [asking EXCEPT ![d] = "no"]
  /\ known' = IF asking[d] = "good" THEN known \cup {d} ELSE known
  /\ UNCHANGED <<registry, hosting, holder, sessions, client>>

Expired(d) ==
  /\ d \in known /\ known' = known \ {d}
  /\ UNCHANGED <<registry, asking, hosting, holder, sessions, client>>

\* Revoked in the registry first; the broker is told after, at best effort.
revokeDevice(d) ==
  /\ d \notin revoked /\ revoked' = revoked \cup {d} /\ poke' = poke \cup {d}
  /\ UNCHANGED <<ownId, told, late, asking, known, hosting, holder, sessions, client>>

\* The device's sessions, as viewer or as the machine watched.
Theirs_Machine(d) == {s \in sessions : d = Machine /\ hosting}
Theirs(d) == {s \in sessions : s.v = d \/ (d = Machine /\ hosting)}

\* A live attempt hears 'bye' on its own stream, and is over; the machine, on its own.
Byes(gone) ==
  LET hit(v) == {k \in Attempts : /\ \E s \in gone : s.v = v /\ s.k = k
                                  /\ gen[v] = k /\ holder[v] = k /\ attempt[v][k] = "live"} IN
    /\ attempt' = [v \in Viewers |-> [k \in Attempts |-> IF k \in hit(v) THEN "over" ELSE attempt[v][k]]]
    /\ gen' = [v \in Viewers |-> IF hit(v) # {} THEN 0 ELSE gen[v]]
    /\ stream' = [v \in Viewers |-> stream[v] \ hit(v)]
    /\ media' = {m \in media : /\ m[2] \notin hit(m[1])
                              /\ ~(hosting /\ \E s \in gone : s.v = m[1] /\ s.k = m[2])}
    /\ UNCHANGED <<last, waker>>

invalidate(d) ==
  /\ d \in poke /\ poke' = poke \ {d} /\ told' = told \cup {d}
  /\ late' = IF asking[d] = "good" \/ (d \in Viewers /\ \E k \in Attempts : attempt[d][k] \in {"view", "control"})
             THEN late \cup {d} ELSE late
  /\ known' = known \ {d}
  /\ sessions' = sessions \ Theirs(d) /\ Byes(Theirs(d))
  /\ hosting' = (hosting /\ ~(d = Machine /\ ownId))
  /\ UNCHANGED <<ownId, revoked, asking, holder>>

\* An operator ends one session.
kill(s) ==
  /\ s \in sessions /\ sessions' = sessions \ {s} /\ Byes({s})
  /\ UNCHANGED <<registry, asking, known, hosting, holder>>

---------------------------------------------------------------------------
(* The machine's stream, and the viewers'.                                  *)

hostOnline ==
  /\ ~hosting /\ Machine \in known /\ hosting' = TRUE
  /\ UNCHANGED <<registry, asking, known, holder, sessions, client>>

hostGone ==
  /\ hosting /\ hosting' = FALSE
  /\ UNCHANGED <<registry, asking, known, holder, sessions, client>>

\* One stream per viewer: the newest displaces the one before, whose EventSource will try again.
\* Its 'ready' wakes whoever waits, when it is of the present generation.
rdStream(v, k) ==
  /\ k \in stream[v] /\ holder[v] # k /\ v \in known
  /\ holder' = [holder EXCEPT ![v] = k]
  /\ IF gen[v] = k /\ waker[v] # 0
     THEN /\ waker' = [waker EXCEPT ![v] = 0]
          /\ attempt' = [attempt EXCEPT ![v][waker[v]] = "asking"]
     ELSE UNCHANGED <<waker, attempt>>
  /\ UNCHANGED <<registry, asking, known, hosting, sessions, gen, last, stream, media>>

streamLost(v) ==
  /\ holder[v] # 0 /\ holder' = [holder EXCEPT ![v] = 0]
  /\ UNCHANGED <<registry, asking, known, hosting, sessions, client>>

---------------------------------------------------------------------------
(* The viewer.                                                              *)

\* The broker is told of the session that is over, and believes whom it knows.
bye(v, mine) == IF v \in known THEN {s \in sessions : ~(s.v = v /\ s.k \in mine)} ELSE sessions

\* disconnect: the session it has is closed, and the broker told; an attempt under way is not.
disconnect(v) ==
  /\ gen' = [gen EXCEPT ![v] = 0]
  /\ LET mine == {k \in Attempts : attempt[v][k] = "live"} IN
       /\ attempt' = [attempt EXCEPT ![v] = [k \in Attempts |-> IF k \in mine THEN "over" ELSE @[k]]]
       /\ stream' = [stream EXCEPT ![v] = @ \ mine]
       /\ holder' = [holder EXCEPT ![v] = IF @ \in mine THEN 0 ELSE @]
       /\ media' = {m \in media : m[1] # v}
       /\ sessions' = bye(v, mine)

close(v) ==
  /\ gen[v] # 0 /\ disconnect(v)
  /\ UNCHANGED <<registry, asking, known, hosting, last, waker>>

\* A tap, or a cast from elsewhere: whatever was there is torn down, and a stream opened.
connect(v) ==
  /\ last[v] < MaxAttempts
  /\ LET k == last[v] + 1
         mine == {i \in Attempts : attempt[v][i] = "live"} IN
       /\ last' = [last EXCEPT ![v] = k] /\ gen' = [gen EXCEPT ![v] = k] /\ waker' = [waker EXCEPT ![v] = k]
       /\ attempt' = [attempt EXCEPT ![v] = [i \in Attempts |-> IF i = k THEN "waiting"
                                                               ELSE IF i \in mine THEN "over" ELSE @[i]]]
       /\ stream' = [stream EXCEPT ![v] = (@ \ mine) \cup {k}]
       /\ holder' = [holder EXCEPT ![v] = IF @ \in mine THEN 0 ELSE @]
       /\ media' = {m \in media : m[1] # v}
       /\ sessions' = bye(v, mine)
  /\ UNCHANGED <<registry, asking, known, hosting>>

\* Pushed onto the device by someone who may control the machine: the same.
cast(v) == (\E c \in Viewers : c \in known) /\ connect(v)

\* Ten seconds without a 'ready': the attempt gives up, and with it whoever waits by now.
waitReady(v, k) ==
  /\ attempt[v][k] = "waiting" /\ waker' = [waker EXCEPT ![v] = 0]
  /\ attempt' = [attempt EXCEPT ![v][k] = "over"] /\ stream' = [stream EXCEPT ![v] = @ \ {k}]
  /\ holder' = [holder EXCEPT ![v] = IF @ = k THEN 0 ELSE @]
  /\ gen' = [gen EXCEPT ![v] = IF @ = k THEN 0 ELSE @]
  /\ UNCHANGED <<registry, asking, known, hosting, sessions, last, media>>

\* An attempt that finds itself superseded after an await closes its stream and returns.
Superseded_Never(v, k) == FALSE
Superseded(v, k) == gen[v] # k

Abandon(v, k) ==
  /\ attempt' = [attempt EXCEPT ![v][k] = "over"] /\ stream' = [stream EXCEPT ![v] = @ \ {k}]
  /\ holder' = [holder EXCEPT ![v] = IF @ = k THEN 0 ELSE @]

\* POST connect reaches the broker: the machine is there, and the grants are asked for.
grantsFor(v, k, g) ==
  /\ attempt[v][k] = "asking" /\ v \in known /\ hosting
  /\ \/ g # "none" /\ ~Superseded(v, k) /\ attempt' = [attempt EXCEPT ![v][k] = g] /\ UNCHANGED <<stream, gen, holder>>
     \/ (g = "none" \/ Superseded(v, k)) /\ Abandon(v, k) /\ gen' = [gen EXCEPT ![v] = IF @ = k THEN 0 ELSE @]
  /\ UNCHANGED <<registry, asking, known, hosting, sessions, last, media, waker>>

\* The grants arrive: a session, and the answer to the viewer, which is live if still wanted.
openSession(v, k) ==
  /\ attempt[v][k] \in {"view", "control"}
  /\ sessions' = sessions \cup {[v |-> v, k |-> k, control |-> attempt[v][k] = "control"]}
  /\ IF Superseded(v, k) THEN Abandon(v, k)
     ELSE attempt' = [attempt EXCEPT ![v][k] = "live"] /\ UNCHANGED <<stream, holder>>
  /\ UNCHANGED <<registry, asking, known, hosting, gen, last, media, waker>>

\* A frame from either peer of a session reaches the other, by its role: both are known, and connected.
Delivered(s) == s \in sessions /\ hosting /\ {Machine, s.v} \subseteq known /\ holder[s.v] = s.k

\* The machine's offer, the viewer's answer and their candidates, each relayed to the other
\* peer of the session: from here on the broker is out of the way.
relay(s) ==
  /\ Delivered(s) /\ gen[s.v] = s.k /\ attempt[s.v][s.k] = "live"
  /\ media' = media \cup {<<s.v, s.k>>}
  /\ UNCHANGED <<registry, asking, known, hosting, holder, sessions, gen, last, attempt, stream, waker>>

ScreenNext ==
  \/ \E d \in Devices : auth(d) \/ Answered(d) \/ Expired(d) \/ revokeDevice(d) \/ invalidate(d)
  \/ \E s \in sessions : kill(s) \/ relay(s)
  \/ hostOnline \/ hostGone
  \/ \E v \in Viewers : streamLost(v) \/ close(v) \/ connect(v) \/ cast(v)
  \/ \E v \in Viewers, k \in Attempts : rdStream(v, k) \/ waitReady(v, k) \/ openSession(v, k)
  \/ \E v \in Viewers, k \in Attempts, g \in Grants : grantsFor(v, k, g)

---------------------------------------------------------------------------
padVars == <<sess, ptrs, moved, lpFired, twoFinger, scrolled, lpTimer, pendingMove, kb, did>>

Flags == <<moved, lpFired, twoFinger, scrolled>>
Quick == 0   \* below TAP_MS
Slow == 1    \* below LONGPRESS_MS
Long == 2
Kinds == {"left", "right", "move", "scroll"}
Nothing == [k \in Kinds |-> 0]

PadTypeOK ==
  /\ sess \in {"off", "connecting", "watching", "control", "ended"}
  /\ DOMAIN ptrs \subseteq Fingers
  /\ \A f \in DOMAIN ptrs : ptrs[f].far \in BOOLEAN /\ ptrs[f].age \in Quick..Long
  /\ {moved, lpFired, twoFinger, scrolled, lpTimer, kb} \subseteq BOOLEAN /\ pendingMove \in {"mine", "old", None}
  /\ did \in [Kinds -> 0..2]

PadInit ==
  /\ sess = "off" /\ ptrs = [f \in {} |-> 0] /\ moved = FALSE /\ lpFired = FALSE /\ twoFinger = FALSE
  /\ scrolled = FALSE /\ lpTimer = FALSE /\ pendingMove = None /\ kb = FALSE /\ did = Nothing

\* The viewer drops what it has no grant for.  Moves, scrolls and keys are not counted.
Sent(what) ==
  IF sess # "control" THEN did
  ELSE [did EXCEPT ![what] = IF what \in {"left", "right"} THEN @ + 1 ELSE 1]

NoFlags == moved' = FALSE /\ lpFired' = FALSE /\ twoFinger' = FALSE /\ scrolled' = FALSE

\* A third finger changes nothing; one that lands without a grant is not followed.
pointerdown(f) ==
  /\ sess = "control" /\ f \notin DOMAIN ptrs
  /\ ptrs' = [g \in DOMAIN ptrs \cup {f} |-> IF g = f THEN [far |-> FALSE, age |-> Quick] ELSE ptrs[g]]
  /\ CASE DOMAIN ptrs = {} -> /\ NoFlags /\ lpTimer' = TRUE /\ did' = Nothing
                              /\ pendingMove' = IF pendingMove = None THEN None ELSE "old"
       [] Cardinality(DOMAIN ptrs) = 1 ->
            /\ lpTimer' = FALSE /\ twoFinger' = TRUE /\ UNCHANGED <<moved, lpFired, scrolled, did, pendingMove>>
       [] OTHER -> UNCHANGED <<Flags, lpTimer, did, pendingMove>>
  /\ UNCHANGED <<sess, kb>>

\* The long press: still one finger, and it has not moved.
longPress ==
  /\ lpTimer /\ \A f \in DOMAIN ptrs : ptrs[f].age = Long
  /\ lpTimer' = FALSE
  /\ IF Cardinality(DOMAIN ptrs) = 1 /\ ~moved
       THEN lpFired' = TRUE /\ did' = Sent("right")
       ELSE UNCHANGED <<lpFired, did>>
  /\ UNCHANGED <<sess, ptrs, moved, twoFinger, scrolled, pendingMove, kb>>

\* Two fingers scroll once their centre has moved; one moves the cursor once it has left its place,
\* also the one that a two-finger gesture leaves behind.
pointermove(f) ==
  /\ f \in DOMAIN ptrs
  /\ \E far \in BOOLEAN :
       /\ ptrs' = [ptrs EXCEPT ![f].far = far]
       /\ IF Cardinality(DOMAIN ptrs) >= 2
            THEN /\ \/ scrolled' = TRUE /\ did' = Sent("scroll")
                    \/ UNCHANGED <<scrolled, did>>
                 /\ UNCHANGED <<moved, lpTimer, pendingMove>>
            ELSE /\ moved' = (moved \/ far) /\ pendingMove' = IF moved' THEN "mine" ELSE pendingMove
                 /\ lpTimer' = (lpTimer /\ ~moved')
                 /\ UNCHANGED <<scrolled, did>>
  /\ UNCHANGED <<sess, lpFired, twoFinger, kb>>

\* The frame: the last of the queued moves.
queueMove ==
  /\ pendingMove # None /\ pendingMove' = None
  /\ did' = IF pendingMove = "mine" THEN Sent("move") ELSE did
  /\ UNCHANGED <<sess, ptrs, Flags, lpTimer, kb>>

Still_Distance(f) == ~ptrs[f].far
Still(f) == ~ptrs[f].far /\ ~moved
Quickly(f) == ptrs[f].age = Quick

\* A finger lifts, or the system takes the touch away: handled the same.
onUp(f) ==
  LET rest == DOMAIN ptrs \ {f} IN
  /\ f \in DOMAIN ptrs \/ sess # "off"
  /\ ptrs' = [g \in rest |-> ptrs[g]] /\ lpTimer' = FALSE
  /\ did' = IF f \notin DOMAIN ptrs \/ ~Quickly(f) THEN did
            ELSE IF twoFinger
                   THEN IF rest = {} /\ ~ptrs[f].far /\ ~scrolled THEN Sent("right") ELSE did
                   ELSE IF ~lpFired /\ Still(f) THEN Sent("left") ELSE did
  /\ IF rest = {} THEN NoFlags ELSE UNCHANGED Flags
  /\ UNCHANGED <<sess, pendingMove, kb>>

\* 350 and 550 ms pass for the fingers that are down.
TimePasses ==
  /\ \E f \in DOMAIN ptrs : ptrs[f].age < Long
  /\ ptrs' = [f \in DOMAIN ptrs |-> [ptrs[f] EXCEPT !.age = IF @ = Long THEN Long ELSE @ + 1]]
  /\ UNCHANGED <<sess, Flags, lpTimer, pendingMove, kb, did>>

\* The soft keyboard; each key it types is pressed and released at once.
toggleKeyboard ==
  /\ sess = "control" /\ kb' = ~kb
  /\ UNCHANGED <<sess, ptrs, Flags, lpTimer, pendingMove, did>>

---------------------------------------------------------------------------
cancelMoveFlush_FingersKept ==
  /\ pendingMove' = None /\ lpTimer' = FALSE /\ NoFlags /\ UNCHANGED ptrs
cancelMoveFlush ==
  /\ pendingMove' = None /\ ptrs' = [f \in {} |-> 0] /\ lpTimer' = FALSE /\ NoFlags

teardown == cancelMoveFlush /\ kb' = FALSE
connectHost ==
  /\ sess \in {"off", "ended"}
  /\ teardown /\ sess' = "connecting" /\ UNCHANGED did
disconnectPad ==
  /\ sess # "off" /\ teardown /\ sess' = "off" /\ UNCHANGED did

\* The viewer: the session opens, the grant comes and goes, the session ends; no finger is let go.
ViewerSays(s) ==
  /\ \/ sess = "connecting" /\ s \in {"watching", "control"}
     \/ sess \in {"watching", "control"} /\ s \in {"watching", "control", "ended"}
  /\ s # sess /\ sess' = s
  /\ UNCHANGED <<ptrs, Flags, lpTimer, pendingMove, kb, did>>

PadNext ==
  \/ longPress \/ queueMove \/ TimePasses \/ toggleKeyboard \/ connectHost \/ disconnectPad
  \/ \E f \in Fingers : pointerdown(f) \/ pointermove(f) \/ onUp(f)
  \/ \E s \in {"watching", "control", "ended"} : ViewerSays(s)

---------------------------------------------------------------------------
vars == <<scene, screenVars, padVars>>

TypeOK == scene \in {"screen", "pad"} /\ ScreenTypeOK /\ PadTypeOK

Init ==
  /\ scene \in {"screen", "pad"} /\ ScreenInit /\ PadInit
  /\ (scene = "pad" => ownId)

Next ==
  /\ UNCHANGED scene
  /\ \/ scene = "screen" /\ ScreenNext /\ UNCHANGED padVars
     \/ scene = "pad" /\ PadNext /\ UNCHANGED screenVars

Spec == Init /\ [][Next]_vars

---------------------------------------------------------------------------
\* A viewer never holds two connections: the live one is of its present generation.
OneLiveConnection == \A v \in Viewers, k \in Attempts : attempt[v][k] = "live" => gen[v] = k

\* A device whose revocation the broker heard, with no request of it in hand, is nobody to
\* it and in no session, as a viewer or, under its own id, as the machine watched.
RevokedIsOut ==
  \A d \in told \ late : /\ d \notin known /\ \A s \in sessions : s.v # d
                         /\ (d = Machine /\ ownId => ~hosting)

\* The same whatever was in hand and whatever the machine is called.
TornDown == \A d \in told : d \notin known /\ (d = Machine => ~hosting)

\* No picture flows to a device, or from a machine, once the broker heard of its revocation.
RevokedSeesNothing == \A m \in media : {m[1], Machine} \cap (told \ late) = {}

\* With nothing in hand, each session of the broker is a connection some viewer has.
NoOrphans ==
  (\A v \in Viewers, k \in Attempts : attempt[v][k] \notin {"waiting", "asking", "view", "control"})
    => \A s \in sessions : attempt[s.v][s.k] = "live"

\* A timeout only ends the attempt that waited.
TimeoutIsItsOwn ==
  [][\A v \in Viewers, k \in Attempts : waitReady(v, k) /\ gen[v] # k => waker' = waker]_vars

\* A left click is all its gesture does on the remote screen: no drag, scroll or long press ends in
\* one, whatever other fingers, timers and frames come between.
ClickIsAlone == did["left"] > 0 => did = [Nothing EXCEPT !["left"] = 1]

\* A connection starts with no finger, timer or move of the one before.
StartsClean ==
  sess \in {"off", "connecting"} =>
    DOMAIN ptrs = {} /\ ~lpTimer /\ pendingMove = None /\ ~kb /\ ~moved /\ ~lpFired /\ ~twoFinger

\* A gesture clicks once: a long press with a second finger's tap clicks twice.
OneClick == did["left"] + did["right"] <= 1
=============================================================================

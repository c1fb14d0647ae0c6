---------------------------- MODULE DiscordChannel ----------------------------
(***************************************************************************)
(* The Discord connector's text path in one channel (types/discord): who a  *)
(* message is for, the quiet window before a reply, the one turn a channel  *)
(* runs, steering it from further messages, the narration posted while it   *)
(* streams, the final post with its suppression of silence and of repeats,  *)
(* the commands and the settings file that quieten the assistant, and what  *)
(* the core posts here for other sessions.                                  *)
(***************************************************************************)
EXTENDS Integers, Sequences, FiniteSets

CONSTANTS
  Messages,  \* messages people and agents write
  Texts,     \* what the assistant may say
  MaxPosts,  \* bound: blocks it posts
  MaxChanges \* bound: changes of the settings

VARIABLES
  aim,       \* each message: a mention of the assistant, or not
  fate,      \* unsent, ignored, observed, waiting, in a turn, steering one, or dropped
  pending,   \* the quiet window: Absent, or the latest message, all of them, and whether forced
  turn,      \* the channel's turn: Absent, or where it is, its message, the open block, silence seen
  recent,    \* the last replies sent here
  posted,    \* what was posted in this life of the process: steps, final replies, what others sent
  silenced,  \* mention-only mode
  conf,      \* settings: the channel's own switch, the default of channels without one, all bots heard
  disk,      \* settings.json: those settings, a list of mutes from an older version, or nothing
  unsaved,   \* a write of it failed, and none was made since
  changes

vars == <<aim, fate, pending, turn, recent, posted, silenced, conf, disk, unsaved, changes>>
settings == <<conf, disk, unsaved, changes>>
modes == <<silenced, settings>>

Absent == <<>>
NoReply == "[[NO_REPLY]]"
Blocks == Texts \cup {NoReply}
\* What a message is: at the assistant, of interest to it, a bot's, or anything else.
Aims == {"mention", "interest", "bot", "room"}

\* A channel goes by its own switch, or else by the default.
Enabled(c) == IF c.own = "unset" THEN c.def ELSE c.own = "on"
Fresh == [own |-> "unset", def |-> TRUE, bots |-> FALSE]

\* What a start reads: an old list of mutes first, then the switches; what cannot be read is Fresh.
Loaded(d) ==
  CASE d.kind = "none" -> Fresh [] d.kind = "mutes" -> [Fresh EXCEPT !.own = "off"] [] OTHER -> d.conf

\* The file as a save leaves it: the mutes that came from the old list are switches in it.
OnDisk_NoDefault(c) == [kind |-> "settings", conf |-> [c EXCEPT !.def = TRUE]]
OnDisk(c) == [kind |-> "settings", conf |-> c]

TypeOK ==
  /\ aim \in [Messages -> {"none", "mention", "other"}]
  /\ fate \in [Messages -> {"unsent", "ignored", "observed", "waiting", "turn", "steering", "dropped"}]
  /\ pending # Absent => /\ pending.last \in pending.who /\ pending.who \subseteq Messages
                         /\ pending.forced \in BOOLEAN
  /\ turn # Absent => /\ turn.at \in {"read", "run", "post"} /\ turn.for \in Messages
                      /\ turn.open \in Blocks \cup {""} /\ turn.quiet \in BOOLEAN /\ turn.forced \in BOOLEAN
  /\ recent \in Seq(Texts) /\ Len(recent) <= 2
  /\ posted \in Seq([what : {"step", "final", "sent"}, text : Texts])
  /\ conf \in [own : {"on", "off", "unset"}, def : BOOLEAN, bots : BOOLEAN]
  /\ disk.kind \in {"none", "mutes", "settings"} /\ changes \in 0..MaxChanges
  /\ silenced \in BOOLEAN /\ unsaved \in BOOLEAN

Init ==
  /\ aim = [m \in Messages |-> "none"] /\ fate = [m \in Messages |-> "unsent"]
  /\ pending = Absent /\ turn = Absent /\ recent = <<>> /\ posted = <<>>
  /\ silenced = FALSE /\ disk \in {[kind |-> "none", conf |-> Fresh], [kind |-> "mutes", conf |-> Fresh]}
  /\ conf = Loaded(disk) /\ unsaved = FALSE /\ changes = 0

---------------------------------------------------------------------------
(* Receiving.                                                               *)

\* Forced, once in the window, is forced for the window.
Sticky_Latest(forced) == forced
Sticky(forced) == forced \/ (pending # Absent /\ pending.forced)

\* The latest message of the window is the one that is answered.
scheduleReply(m, forced) ==
  /\ pending' = [last |-> m, forced |-> Sticky(forced),
                 who |-> {m} \cup (IF pending = Absent THEN {} ELSE pending.who)]
  /\ fate' = [x \in Messages |-> IF x = m THEN "waiting"
                                 ELSE IF pending # Absent /\ x = pending.last THEN "dropped" ELSE fate[x]]

observe(m) == fate' = [fate EXCEPT ![m] = "observed"] /\ UNCHANGED pending

\* A bot that is on no list is heard when all are.
messageCreate(m, to) ==
  /\ fate[m] = "unsent" /\ aim' = [aim EXCEPT ![m] = IF to = "mention" THEN to ELSE "other"]
  /\ IF ~Enabled(conf) THEN fate' = [fate EXCEPT ![m] = "ignored"] /\ UNCHANGED pending
     ELSE IF to = "mention" THEN scheduleReply(m, silenced)
     ELSE IF ~silenced /\ to \in {"interest"} \cup (IF conf.bots THEN {"bot"} ELSE {}) THEN scheduleReply(m, FALSE)
     ELSE observe(m)
  /\ UNCHANGED <<turn, recent, posted, modes>>

\* The window passes.  With a turn running the message steers it when it is addressed to the
\* assistant (and the core takes it); otherwise it starts the channel's turn.
windowPasses ==
  /\ pending # Absent /\ pending' = Absent
  /\ LET m == pending.last IN
       IF turn = Absent
       THEN /\ fate' = [fate EXCEPT ![m] = "turn"]
            /\ turn' = [at |-> "read", for |-> m, open |-> "", quiet |-> FALSE, forced |-> pending.forced]
       ELSE /\ UNCHANGED turn
            /\ \E to \in (IF pending.forced \/ aim[m] = "mention" THEN {"steering", "dropped"} ELSE {"dropped"}) :
                 fate' = [fate EXCEPT ![m] = to]
  /\ UNCHANGED <<aim, recent, posted, modes>>

---------------------------------------------------------------------------
(* The turn.                                                                *)

Say(what, text) == Len(posted) < MaxPosts /\ posted' = Append(posted, [what |-> what, text |-> text])

\* Attachments are fetched and the envelope goes to the core, or an error ends the turn.
handleMessage ==
  /\ turn # Absent /\ turn.at = "read"
  /\ \/ turn' = [turn EXCEPT !.at = "run"] \/ turn' = Absent
  /\ UNCHANGED <<aim, fate, pending, recent, posted, modes>>

Addressed == turn.forced \/ aim[turn.for] = "mention"

\* The open block closes: it is posted as a step unless it is silence, or follows silence.
flushStep(next) ==
  LET t == [turn EXCEPT !.open = next] IN
    IF turn.open = NoReply THEN turn' = [t EXCEPT !.quiet = TRUE] /\ UNCHANGED posted
    ELSE IF turn.open = "" \/ turn.quiet THEN turn' = t /\ UNCHANGED posted
    ELSE turn' = t /\ Say("step", turn.open)

onSegment(b) ==
  /\ turn # Absent /\ turn.at = "run" /\ Addressed /\ flushStep(b)
  /\ UNCHANGED <<aim, fate, pending, recent, modes>>
onTool ==
  /\ turn # Absent /\ turn.at = "run" /\ Addressed /\ turn.open # "" /\ flushStep("")
  /\ UNCHANGED <<aim, fate, pending, recent, modes>>

\* The core answers: the block still open is the reply, or else the reply it returned.  An error
\* (an aborted turn among them) ends the turn without one.
Answered(b) ==
  /\ turn # Absent /\ turn.at = "run"
  /\ \/ turn' = [turn EXCEPT !.at = "post", !.open = IF Addressed /\ @ # "" THEN @ ELSE b]
     \/ turn' = Absent
  /\ UNCHANGED <<aim, fate, pending, recent, posted, modes>>

Remember_Nothing(text) == recent
Remember(text) ==
  LET r == Append(recent, text) IN IF Len(r) > 2 THEN Tail(r) ELSE r

\* Silence and a repeat of a recent reply are not sent; a reply is remembered before it is sent.
Post ==
  /\ turn # Absent /\ turn.at = "post" /\ turn' = Absent
  /\ IF turn.open = NoReply \/ \E i \in 1..Len(recent) : recent[i] = turn.open
     THEN UNCHANGED <<recent, posted>>
     ELSE recent' = Remember(turn.open) /\ (Say("final", turn.open) \/ UNCHANGED posted)
  /\ UNCHANGED <<aim, fate, pending, modes>>

---------------------------------------------------------------------------
(* Commands, and a restart.                                                 *)

silence(on) ==
  /\ silenced' = on /\ UNCHANGED <<aim, fate, pending, turn, recent, posted, settings>>

\* A change is in force at once and written at once; a write that fails is only logged.
saveSettings(c) ==
  /\ changes < MaxChanges /\ changes' = changes + 1 /\ conf' = c
  /\ \/ disk' = OnDisk(c) /\ unsaved' = FALSE
     \/ unsaved' = TRUE /\ UNCHANGED disk
  /\ UNCHANGED <<aim, fate, pending, turn, recent, posted, silenced>>

\* The owner's commands in the channel.
mute(on) == saveSettings([conf EXCEPT !.own = IF on THEN "on" ELSE "off"])
engageAll(on) == saveSettings([conf EXCEPT !.bots = on])

\* POST /channels: a switch, none, or the default.
postChannels ==
  \E own \in {conf.own, "on", "off", "unset"}, def \in BOOLEAN :
    saveSettings([conf EXCEPT !.own = own, !.def = def])

\* POST /out and /send-message: a message another session has posted here, to a disabled channel too.
out(b) ==
  /\ Say("sent", b) /\ UNCHANGED <<aim, fate, pending, turn, recent, modes>>

\* stop: the core aborts the channel's turn; without one nothing is done.
stop ==
  /\ turn # Absent /\ turn.at = "run"
  /\ turn' = Absent
  /\ UNCHANGED <<aim, fate, pending, recent, posted, modes>>

Restart ==
  /\ pending' = Absent /\ turn' = Absent /\ recent' = <<>> /\ silenced' = FALSE
  /\ conf' = Loaded(disk) /\ unsaved' = FALSE /\ posted' = <<>>
  /\ fate' = [m \in Messages |-> IF fate[m] = "waiting" THEN "dropped" ELSE fate[m]]
  /\ UNCHANGED <<aim, disk, changes>>

Next ==
  \/ \E m \in Messages, to \in Aims : messageCreate(m, to)
  \/ windowPasses \/ handleMessage \/ onTool \/ Post \/ stop \/ Restart
  \/ \E b \in Blocks : onSegment(b) \/ Answered(b)
  \/ \E on \in BOOLEAN : silence(on) \/ mute(on) \/ engageAll(on)
  \/ postChannels \/ \E b \in Texts : out(b)

Spec == Init /\ [][Next]_vars

---------------------------------------------------------------------------
\* A mention that arrived in mention-only mode forces the turn of its window, whatever was said
\* after it.
ForcedStaysForced ==
  [][ (pending # Absent /\ pending.forced /\ pending' # Absent) => pending'.forced ]_vars

\* A reply is not the one posted before it, in one life of the process.
NoRepeats ==
  \A i, j \in 1..Len(posted) :
    (i < j /\ posted[i].what = "final" /\ posted[j].what = "final"
       /\ \A k \in (i + 1)..(j - 1) : posted[k].what # "final") => posted[i].text # posted[j].text

\* Every message of an enabled channel reaches the session, to be answered or for awareness.
EverythingIngested == \A m \in Messages : fate[m] # "dropped"

\* What a restart would go by is what the channel goes by, unless a write failed: a channel that was
\* switched off, by its own switch or the default, stays off.
RestartKeepsTheSwitch == ~unsaved => Loaded(disk) = conf

\* A channel that its owner was told is disabled is not enabled by a restart.
DisabledStays == [][~Enabled(conf) /\ Enabled(conf') => changes' # changes]_vars

\* A disabled channel is ignored: nothing of the assistant's own is posted in it.
DisabledIsQuiet ==
  [][ ~Enabled(conf) => Len(posted') <= Len(posted) \/ posted'[Len(posted')].what = "sent" ]_vars
=============================================================================

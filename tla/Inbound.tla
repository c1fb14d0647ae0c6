------------------------------ MODULE Inbound ------------------------------
(***************************************************************************)
(* How messages come in. The Telegram connector                             *)
(* (connectors/types/telegram): the updates it polls (acknowledged as soon  *)
(* as they are handed to it), the files it downloads, the coalescer that    *)
(* makes one turn of an album's photos, the turns it runs, and the poll     *)
(* loop's death and its heartbeat. Apart from it, the mailbox watcher of    *)
(* the email connector (connectors/types/email): the IMAP link and its      *)
(* reconnects, the UID cursor that decides what is new, the fetch that      *)
(* answers one message after another, the probe that keeps the connector's  *)
(* heartbeat, and what goes out under the sending policy.                   *)
(***************************************************************************)
EXTENDS Integers, Sequences, FiniteSets

CONSTANTS
  Parts,     \* updates of one album
  Singles,   \* messages with one photo, on their own
  MaxImages, \* photos attached to one turn at most
  MaxFalls,   \* bound: restarts
  MaxMail,   \* bound: messages delivered to the mailbox
  MaxFaults  \* bound: links lost, locks refused, restarts

VARIABLES
  scene,     \* the part at work, chosen at the start
  update,    \* each message: not sent, at Telegram, downloading, in the album's buffer, in a turn,
             \* answered, refused by the core, or gone with the process
  group,     \* the album's buffer: Absent, or who is in it, photos attached, photos left out
  batch,     \* the album's turns: who was in each, photos attached and left out
  polling,   \* the poll loop: "live", "dead" (EFATAL), or no process
  lastUpdate, lastSeen, \* polls that came back (mod 4), and the one the last heartbeat was for
  falls,
  box,       \* messages delivered so far; a message's UID is its number
  policy,    \* approval_policy: shadow mode, or one that sends
  link,      \* "none", "connecting", "open", "half" (dead, unnoticed), "wait" (ten seconds)
  lastUid, base, \* the cursor, and where it began in this life
  fetch, upto, busy, \* the fetch in hand, the last UID the server listed for it, the flag
  tried,     \* UIDs handed to the core in this life, in order
  sentMail,  \* replies that left by SMTP: inline, or of an approved draft
  held,      \* drafts held at the core
  beatsFor,  \* what the last heartbeat vouched for
  faults

albumsVars == <<update, group, batch, polling, lastUpdate, lastSeen, falls>>

All == Parts \cup Singles
Absent == <<>>
Batch == [who : SUBSET Parts, attached : 0..MaxImages, dropped : 0..Cardinality(Parts)]

AlbumsTypeOK ==
  /\ update \in [All -> {"unsent", "sent", "downloading", "grouped", "turn", "answered", "refused", "lost"}]
  /\ group = Absent \/ group \in Batch
  /\ batch \in Seq(Batch) /\ polling \in {"live", "dead", "down"}
  /\ lastUpdate \in 0..3 /\ lastSeen \in 0..3 /\ falls \in 0..MaxFalls

AlbumsInit ==
  /\ update = [m \in All |-> "unsent"] /\ group = Absent /\ batch = <<>>
  /\ polling = "live" /\ lastUpdate = 0 /\ lastSeen = 0 /\ falls = 0

Sent(m) ==
  /\ update[m] = "unsent" /\ update' = [update EXCEPT ![m] = "sent"]
  /\ UNCHANGED <<group, batch, polling, lastUpdate, lastSeen, falls>>

\* A poll brings what is waiting, or nothing; the next one acknowledges it.  Each message's files
\* are downloaded at once, messages side by side.
getUpdates ==
  /\ polling = "live" /\ lastUpdate' = (lastUpdate + 1) % 4
  /\ update' = [m \in All |-> IF update[m] = "sent" THEN "downloading" ELSE update[m]]
  /\ UNCHANGED <<group, batch, polling, lastSeen, falls>>

\* A photo joins the buffer, attached while there is room.
Joined(g, m) ==
  [who |-> g.who \cup {m},
   attached |-> IF g.attached < MaxImages THEN g.attached + 1 ELSE g.attached,
   dropped |-> IF g.attached < MaxImages THEN g.dropped ELSE g.dropped + 1]

\* A part whose download failed brings a note and no photo.
JoinedNote(g, m) == [g EXCEPT !.who = @ \cup {m}]

add(m) ==
  /\ m \in Parts /\ update[m] = "downloading" /\ update' = [update EXCEPT ![m] = "grouped"]
  /\ LET g == IF group = Absent THEN [who |-> {}, attached |-> 0, dropped |-> 0] ELSE group IN
       group' \in {Joined(g, m), JoinedNote(g, m)}
  /\ UNCHANGED <<batch, polling, lastUpdate, lastSeen, falls>>

\* The window passes with nothing new: one turn of what is there.
Flushed_Kept == group
Flushed == Absent

flush ==
  /\ group # Absent /\ polling # "down" /\ Len(batch) < Cardinality(Parts) + 1
  /\ batch' = Append(batch, group) /\ group' = Flushed
  /\ update' = [m \in All |-> IF m \in group.who THEN "turn" ELSE update[m]]
  /\ UNCHANGED <<polling, lastUpdate, lastSeen, falls>>

\* A message on its own is a turn at once.
dispatch(m) ==
  /\ m \in Singles /\ update[m] = "downloading" /\ update' = [update EXCEPT ![m] = "turn"]
  /\ UNCHANGED <<group, batch, polling, lastUpdate, lastSeen, falls>>

\* The core's actions are sent, or its error is.
Answered(m) ==
  /\ update[m] = "turn" /\ \E how \in {"answered", "refused"} : update' = [update EXCEPT ![m] = how]
  /\ UNCHANGED <<group, batch, polling, lastUpdate, lastSeen, falls>>

\* A heartbeat is sent when a poll came back since the last one.
heartbeat ==
  /\ polling # "down" /\ lastUpdate # lastSeen /\ lastSeen' = lastUpdate
  /\ UNCHANGED <<update, group, batch, polling, lastUpdate, falls>>

pollingFatal ==
  /\ polling = "live" /\ falls < MaxFalls /\ polling' = "dead"
  /\ UNCHANGED <<update, group, batch, lastUpdate, lastSeen, falls>>

\* The process exits (after a fatal polling error, or a stop): buffers and turns in hand go with
\* it, and their updates have been acknowledged.
Exit ==
  /\ polling # "down" /\ falls < MaxFalls /\ falls' = falls + 1 /\ polling' = "down"
  /\ group' = Absent /\ lastUpdate' = 0 /\ lastSeen' = 0
  /\ update' = [m \in All |-> IF update[m] \in {"downloading", "grouped", "turn"} THEN "lost" ELSE update[m]]
  /\ UNCHANGED batch

start ==
  /\ polling = "down" /\ polling' = "live"
  /\ UNCHANGED <<update, group, batch, lastUpdate, lastSeen, falls>>

AlbumsNext ==
  \/ getUpdates \/ flush \/ heartbeat \/ pollingFatal \/ Exit \/ start
  \/ \E m \in All : Sent(m) \/ add(m) \/ dispatch(m) \/ Answered(m)

---------------------------------------------------------------------------
mailVars == <<box, policy, link, lastUid, base, fetch, upto, busy, tried, sentMail, held, beatsFor, faults>>
outbox == <<sentMail, held>>

Mail == 1..MaxMail

MailTypeOK ==
  /\ box \in 0..MaxMail /\ policy \in {"always_draft", "always_send"}
  /\ link \in {"none", "connecting", "open", "half", "wait"}
  /\ lastUid \in (-1)..MaxMail /\ base \in (-1)..MaxMail /\ upto \in 0..MaxMail
  /\ fetch \in {"none", "lock", "walk", "work"} /\ busy \in BOOLEAN /\ tried \in Seq(Mail)
  /\ sentMail \subseteq Mail \X {"inline", "approved"} /\ held \subseteq Mail
  /\ beatsFor \in {"nothing", "connected", "noop"} /\ faults \in 0..MaxFaults

MailInit ==
  /\ box \in 0..1 /\ policy \in {"always_draft", "always_send"} /\ link = "none"
  /\ lastUid = -1 /\ base = -1 /\ fetch = "none" /\ upto = 0 /\ busy = FALSE /\ tried = <<>>
  /\ sentMail = {} /\ held = {} /\ beatsFor = "nothing" /\ faults = 0

Fault == faults < MaxFaults /\ faults' = faults + 1

\* fetchNew: not without a usable link, and not while a fetch is in hand.
Begins == link = "open" /\ ~busy
fetchNew == IF Begins THEN fetch' = "lock" /\ busy' = TRUE ELSE UNCHANGED <<fetch, busy>>

\* A message arrives; an open link is told of it there and then.
Deliver ==
  /\ box < MaxMail /\ box' = box + 1 /\ fetchNew
  /\ UNCHANGED <<policy, link, lastUid, base, upto, tried, outbox, beatsFor, faults>>

connectImap ==
  /\ link \in {"none", "wait"} /\ link' = "connecting"
  /\ UNCHANGED <<box, policy, lastUid, base, fetch, upto, busy, tried, outbox, beatsFor, faults>>

\* The cursor starts at the mailbox's tip (or at 0 for the backlog), once, and is kept over
\* reconnects.
Baseline_Again(backlog) == IF backlog THEN 0 ELSE box
Baseline(backlog) == IF lastUid < 0 THEN (IF backlog THEN 0 ELSE box) ELSE lastUid

Connected(backlog) ==
  /\ link = "connecting" /\ link' = "open" /\ lastUid' = Baseline(backlog)
  /\ base' = (IF base < 0 THEN lastUid' ELSE base) /\ beatsFor' = "connected"
  /\ (IF busy THEN UNCHANGED <<fetch, busy>> ELSE fetch' = "lock" /\ busy' = TRUE)
  /\ UNCHANGED <<box, policy, upto, tried, outbox, faults>>

\* The mailbox lock is granted and the server lists what is past the cursor; or it is refused,
\* outside the try that would release the flag.
getMailboxLock ==
  /\ fetch = "lock"
  /\ \/ /\ link = "open" /\ fetch' = "walk" /\ upto' = box /\ UNCHANGED <<busy, faults>>
     \/ Fault /\ fetch' = "none" /\ UNCHANGED <<upto, busy>>
  /\ UNCHANGED <<box, policy, link, lastUid, base, tried, outbox, beatsFor>>

\* The next message of the list goes to the core; at the end of the list, or when the link is
\* gone, the lock and the flag are released.
FetchNext ==
  /\ fetch = "walk"
  /\ IF lastUid < upto /\ link = "open"
     THEN fetch' = "work" /\ tried' = Append(tried, lastUid + 1) /\ UNCHANGED busy
     ELSE fetch' = "none" /\ busy' = FALSE /\ UNCHANGED tried
  /\ UNCHANGED <<box, policy, link, lastUid, base, upto, outbox, beatsFor, faults>>

\* Automated senders are skipped, a failed turn is logged; otherwise the core answers with a
\* reply, a draft it holds, or nothing.  Shadow mode mails no inline reply.  The cursor moves on
\* in every case.
processMessage ==
  /\ fetch = "work" /\ fetch' = "walk" /\ lastUid' = lastUid + 1
  /\ \/ UNCHANGED outbox
     \/ held' = held \cup {lastUid + 1} /\ UNCHANGED sentMail
     \/ /\ policy # "always_draft" /\ sentMail' = sentMail \cup {<<lastUid + 1, "inline">>}
        /\ UNCHANGED held
  /\ UNCHANGED <<box, policy, link, base, upto, busy, tried, beatsFor, faults>>

\* An approved draft comes back to the connector and is mailed.
out(u) ==
  /\ u \in held /\ link # "none" /\ held' = held \ {u} /\ sentMail' = sentMail \cup {<<u, "approved">>}
  /\ UNCHANGED <<box, policy, link, lastUid, base, fetch, upto, busy, tried, beatsFor, faults>>

\* The link closes and is tried again ten seconds later, or dies without a word.
LinkLost ==
  /\ link = "open" /\ Fault /\ link' \in {"wait", "half"}
  /\ UNCHANGED <<box, policy, lastUid, base, fetch, upto, busy, tried, outbox, beatsFor>>

\* A NOOP that comes back is a heartbeat; one that does not closes the link.
probe ==
  /\ \/ link = "open" /\ beatsFor' = "noop" /\ UNCHANGED link
     \/ link = "half" /\ link' = "wait" /\ UNCHANGED beatsFor
  /\ UNCHANGED <<box, policy, lastUid, base, fetch, upto, busy, tried, outbox, faults>>

\* A connection refused while reconnecting is an unhandled rejection: the process dies, and the
\* supervisor starts another, with a cursor of its own.  A restart does the same.
Restart ==
  /\ link # "none" /\ Fault /\ link' = "none" /\ lastUid' = -1 /\ base' = -1 /\ fetch' = "none"
  /\ upto' = 0 /\ busy' = FALSE /\ tried' = <<>> /\ beatsFor' = "nothing"
  /\ UNCHANGED <<box, policy, outbox>>

MailNext ==
  \/ Deliver \/ connectImap \/ getMailboxLock \/ FetchNext \/ processMessage \/ LinkLost \/ probe
  \/ Restart
  \/ \E backlog \in BOOLEAN : Connected(backlog)
  \/ \E u \in Mail : out(u)

---------------------------------------------------------------------------
vars == <<scene, albumsVars, mailVars>>

TypeOK == scene \in {"albums", "mail"} /\ AlbumsTypeOK /\ MailTypeOK

Init ==
  /\ scene \in {"albums", "mail"} /\ AlbumsInit /\ MailInit
  /\ (scene = "albums" => box = 0 /\ policy = "always_send")

Next ==
  /\ UNCHANGED scene
  /\ \/ scene = "albums" /\ AlbumsNext /\ UNCHANGED mailVars
     \/ scene = "mail" /\ MailNext /\ UNCHANGED albumsVars

Spec == Init /\ [][Next]_vars

---------------------------------------------------------------------------
\* A photo is in one turn of its album at most, and a turn tells the model of every photo it
\* holds: those attached, no more than the limit, and those left out.
AlbumsAddUp ==
  /\ \A i, j \in 1..Len(batch) : i # j => batch[i].who \cap batch[j].who = {}
  /\ \A i \in 1..Len(batch) : batch[i].attached + batch[i].dropped <= Cardinality(batch[i].who)
  /\ \A m \in Parts : update[m] \in {"turn", "answered", "refused"} =>
       \E i \in 1..Len(batch) : m \in batch[i].who

\* An album is one turn.
OneTurnPerAlbum == Len(batch) <= 1

\* What Telegram was told is received gets a turn.
NothingAcknowledgedIsLost == \A m \in All : update[m] # "lost"

\* Within the life of the process every message past the baseline is handed to the core once,
\* in the order of arrival, over every reconnect.
HandedOverInOrder ==
  \A n \in 1..Len(tried) : tried[n] = base + n

\* With the link up and no fetch in hand, nothing new is left in the mailbox.
NothingSits == link = "open" /\ fetch = "none" => lastUid = box

\* A watcher whose heartbeat comes from its link can still fetch.
NotDeaf == link = "open" /\ busy => fetch # "none"
=============================================================================

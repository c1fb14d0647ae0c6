------------------------------ MODULE Terminal ------------------------------
(***************************************************************************)
(* The terminal client (cli/asmltr.js) and the sessions it launches         *)
(* (asmltr-engine.js, lib/claude-tailer.js, shared/mux.js).  Four things    *)
(* happen there, without shared state, so a behaviour is one scene:         *)
(*   takeover  attach claims a conversation in the core, resumes it in      *)
(*             tmux, and releases it; release ends a takeover;              *)
(*   launch    a CLI session in a multiplexer, its entry in the tracker     *)
(*             file, and the tailer that streams its transcript;            *)
(*   send      a message through the core, or the manager as a fallback;    *)
(*   line      the reading of a command line.                               *)
(* The multiplexer and the engine's CLI are external.                       *)
(***************************************************************************)
EXTENDS Integers, Sequences, FiniteSets, TLC

CONSTANTS
  Ttys,       \* terminals
  Keys,       \* conversation keys that have an engine session
  Twins,      \* keys whose tmux name comes out the same
  Launches,   \* CLI sessions that may be launched
  MaxPieces,  \* bound: writes to one transcript (two make a line)
  MaxTurns    \* bound: takeovers begun

Nothing == "none"

VARIABLES
  scene,
  \* takeover
  claimed,  \* keys the core holds back from their channel
  tmux,     \* by tmux name: the key whose engine session runs in it, or Nothing
  hands,    \* by terminal: where its command is
  leftWith, \* history: keys a terminal walked away from with a session of that name running
  begun,
  \* launch
  mux,      \* the multiplexer in use
  live,     \* launched sessions still running
  cli,      \* by launch: where its launcher is
  tail,     \* by launch: where its tailer is
  entries,  \* cli-sessions.json
  torn,     \* the file is truncated and not yet written
  pen,      \* by process: reading done or file opened, with the copy to be written
  grown,    \* by launch: pieces in its transcript
  recent,   \* by launch: the transcript written last since it was launched
  reading,  \* by launch: the transcript its tailer found, what was read, where the rest starts
  fed,      \* by launch: the lines handed to the collector
  \* send
  sending, posts,
  \* line
  did

takeover == <<claimed, tmux, hands, leftWith, begun>>
launch == <<mux, live, cli, tail, entries, torn, pen, grown, recent, reading, fed>>
others == <<sending, posts, did>>
vars == <<scene, claimed, tmux, hands, leftWith, begun, mux, live, cli, tail, entries, torn, pen,
          grown, recent, reading, fed, sending, posts, did>>

-----------------------------------------------------------------------------
(* Takeover.  The tmux name keeps letters and digits of the key and is cut. *)
tmuxName(k) == IF k \in Twins THEN Twins ELSE {k}
Names == {tmuxName(k) : k \in Keys}
Free == [at |-> "idle", key |-> Nothing]
At(t, step) == hands[t].at = step
tmuxHasSession(n) == tmux[n] # Nothing

Claim(t, k) ==
  /\ At(t, "idle") /\ begun < MaxTurns
  /\ begun' = begun + 1
  /\ claimed' = claimed \cup {k} /\ leftWith' = leftWith \ {k}
  /\ hands' = [hands EXCEPT ![t] = [at |-> "claimed", key |-> k]]
  /\ UNCHANGED tmux

\* Whether tmux has the session is asked first, then it is created: of two terminals the second
\* may find the name taken.
Look(t) ==
  /\ At(t, "claimed")
  /\ hands' = [hands EXCEPT ![t].at =
                 IF tmuxHasSession(tmuxName(hands[t].key)) THEN "attached" ELSE "creating"]
  /\ UNCHANGED <<claimed, tmux, leftWith, begun>>

CreateFails_Throws == "idle"
CreateFails == "releasing"
Create(t) ==
  LET n == tmuxName(hands[t].key) IN
  /\ At(t, "creating")
  /\ \/ ~tmuxHasSession(n) /\ tmux' = [tmux EXCEPT ![n] = hands[t].key]
        /\ hands' = [hands EXCEPT ![t].at = "attached"]
     \/ UNCHANGED tmux /\ hands' = [hands EXCEPT ![t].at = CreateFails]
  /\ UNCHANGED <<claimed, leftWith, begun>>

\* claude ends, wherever it is watched from.
Exits(n) ==
  /\ tmuxHasSession(n) /\ tmux' = [tmux EXCEPT ![n] = Nothing]
  /\ UNCHANGED <<claimed, hands, leftWith, begun>>

\* tmux attach returns, detached or because the session is gone; without a TTY the session is
\* just left.
Returns(t) ==
  LET k == hands[t].key IN
  /\ At(t, "attached")
  /\ \/ /\ tmuxHasSession(tmuxName(k))
        /\ leftWith' = leftWith \cup {k} /\ hands' = [hands EXCEPT ![t] = Free]
     \/ /\ ~tmuxHasSession(tmuxName(k))
        /\ UNCHANGED leftWith /\ hands' = [hands EXCEPT ![t].at = "releasing"]
  /\ UNCHANGED <<claimed, tmux, begun>>

cmdRelease(t, k) ==
  /\ At(t, "idle") /\ begun < MaxTurns
  /\ begun' = begun + 1
  /\ tmux' = [tmux EXCEPT ![tmuxName(k)] = Nothing]
  /\ hands' = [hands EXCEPT ![t] = [at |-> "releasing", key |-> k]]
  /\ UNCHANGED <<claimed, leftWith>>

Release(t) ==
  /\ At(t, "releasing")
  /\ claimed' = claimed \ {hands[t].key} /\ leftWith' = leftWith \ {hands[t].key}
  /\ hands' = [hands EXCEPT ![t] = Free]
  /\ UNCHANGED <<tmux, begun>>

TakeoverStep ==
  /\ scene = "takeover"
  /\ \/ \E t \in Ttys, k \in Keys : Claim(t, k) \/ cmdRelease(t, k)
     \/ \E t \in Ttys : Look(t) \/ Create(t) \/ Returns(t) \/ Release(t)
     \/ \E n \in Names : Exits(n)
  /\ UNCHANGED <<scene, launch, others>>

-----------------------------------------------------------------------------
(* Launch.  The launcher and the tailer of each session are processes that  *)
(* read the tracker, truncate it and write it back.                         *)
Processes == Launches \X {"cli", "tail"}
Resting == [at |-> "none", copy |-> <<>>]
readTracker == IF torn THEN <<>> ELSE entries

Spawn(l) ==
  /\ cli[l] = "new"
  /\ live' = live \cup {l}
  /\ cli' = [cli EXCEPT ![l] = "registering"]
  /\ UNCHANGED <<mux, tail, entries, torn, pen, grown, recent, reading, fed>>

upsert(l) ==
  /\ cli[l] = "registering" /\ pen[l, "cli"].at = "none"
  /\ pen' = [pen EXCEPT ![l, "cli"] = [at |-> "read", copy |-> (l :> "active") @@ readTracker]]
  /\ UNCHANGED <<mux, live, cli, tail, entries, torn, grown, recent, reading, fed>>

Truncate(p) ==
  /\ pen[p].at = "read"
  /\ torn' = TRUE /\ pen' = [pen EXCEPT ![p].at = "open"]
  /\ UNCHANGED <<mux, live, cli, tail, entries, grown, recent, reading, fed>>

\* What follows a write: the launcher has registered its session, starts the tailer and attaches.
writeTracker(p) ==
  LET l == p[1]
      registered == p[2] = "cli" /\ cli[l] = "registering" IN
  /\ pen[p].at = "open"
  /\ entries' = pen[p].copy /\ torn' = FALSE /\ pen' = [pen EXCEPT ![p] = Resting]
  /\ cli' = IF registered THEN [cli EXCEPT ![l] = "attached"] ELSE cli
  /\ tail' = IF registered THEN [tail EXCEPT ![l] = "looking"] ELSE tail
  /\ UNCHANGED <<mux, live, grown, recent, reading, fed>>

\* A read-modify-write of one's own entry, where there is one.
Marks(p, status) ==
  IF p[1] \in DOMAIN readTracker
  THEN pen' = [pen EXCEPT ![p] = [at |-> "read", copy |-> [readTracker EXCEPT ![p[1]] = status]]]
  ELSE UNCHANGED pen

Quit(l) ==
  /\ l \in live
  /\ live' = live \ {l}
  /\ UNCHANGED <<mux, cli, tail, entries, torn, pen, grown, recent, reading, fed>>

\* attach returns, and the launcher looks whether the session is still there.
Detached(l) ==
  /\ cli[l] = "attached" /\ cli' = [cli EXCEPT ![l] = "done"]
  /\ IF l \in live THEN UNCHANGED pen ELSE Marks(<<l, "cli">>, "ended")
  /\ UNCHANGED <<mux, live, tail, entries, torn, grown, recent, reading, fed>>

\* The engine writes to the transcript of its session, half a line at a time.
Writes(l) ==
  /\ l \in live /\ grown[l] < MaxPieces
  /\ grown' = [grown EXCEPT ![l] = @ + 1]
  /\ recent' = [m \in Launches |-> IF cli[m] = "new" THEN Nothing ELSE l]
  /\ UNCHANGED <<mux, live, cli, tail, entries, torn, pen, reading, fed>>

tmuxAlive(l) == mux = "tmux" /\ l \in live

findTranscript(l) ==
  /\ tail[l] = "looking" /\ recent[l] # Nothing
  /\ tail' = [tail EXCEPT ![l] = "tailing"]
  /\ reading' = [reading EXCEPT ![l].of = recent[l]]
  /\ UNCHANGED <<mux, live, cli, entries, torn, pen, grown, recent, fed>>

\* No transcript: the session is gone, or 45 s have passed without one.
NotFound(l) ==
  /\ tail[l] = "looking" /\ recent[l] = Nothing
  /\ tail' = [tail EXCEPT ![l] = "done"]
  /\ \/ ~tmuxAlive(l) /\ UNCHANGED pen
     \/ tmuxAlive(l) /\ Marks(<<l, "tail">>, "ended")
  /\ UNCHANGED <<mux, live, cli, entries, torn, grown, recent, reading, fed>>

\* The pieces up to n end with a line or with the part of one that is kept for the next read.
Rest_Dropped(n) == n
Rest(n) == 2 * (n \div 2)
Lines(from, n) == {i \div 2 : i \in {j \in (from + 2)..n : j % 2 = 0}}
Tails(l) ==
  LET r == reading[l]
      n == grown[r.of]
      lines == Lines(r.from, n) IN
  /\ tail[l] = "tailing" /\ n > r.upTo /\ pen[l, "tail"].at = "none"
  /\ reading' = [reading EXCEPT ![l].upTo = n, ![l].from = Rest(n)]
  /\ fed' = [fed EXCEPT ![l] = @ \cup lines]
  /\ IF lines # {} /\ l \in DOMAIN readTracker THEN Marks(<<l, "tail">>, readTracker[l])
                                               ELSE UNCHANGED pen
  /\ UNCHANGED <<mux, live, cli, tail, entries, torn, grown, recent>>

Ends(l) ==
  /\ tail[l] = "tailing" /\ ~tmuxAlive(l) /\ pen[l, "tail"].at = "none"
  /\ reading[l].upTo = grown[reading[l].of]
  /\ tail' = [tail EXCEPT ![l] = "done"]
  /\ Marks(<<l, "tail">>, "ended")
  /\ UNCHANGED <<mux, live, cli, entries, torn, grown, recent, reading, fed>>

LaunchStep ==
  /\ scene = "launch"
  /\ \/ \E l \in Launches : \/ Spawn(l) \/ upsert(l) \/ Quit(l) \/ Detached(l) \/ Writes(l)
                            \/ findTranscript(l) \/ NotFound(l) \/ Tails(l) \/ Ends(l)
     \/ \E p \in Processes : Truncate(p) \/ writeTracker(p)
  /\ UNCHANGED <<scene, takeover, others>>

-----------------------------------------------------------------------------
(* Send: the core first; when no answer comes, or it says that the manager  *)
(* cannot be reached, the manager itself.                                   *)
Core ==
  /\ sending = "core"
  /\ \/ posts' = posts + 1 /\ sending' \in {"sent", "manager"}
     \/ posts' = posts /\ sending' \in {"failed", "manager"}

Manager ==
  /\ sending = "manager"
  /\ \/ posts' = posts + 1 /\ sending' \in {"sent", "failed"}
     \/ posts' = posts /\ sending' = "failed"

SendStep == scene = "send" /\ (Core \/ Manager) /\ UNCHANGED <<scene, takeover, launch, did>>

-----------------------------------------------------------------------------
(* Line.  flags() gives every flag the token after it; the commands take as *)
(* positional what does not start with two dashes.                          *)
Boolean == {"--dry-run", "--forbid"}
Valued == {"--silo", "--transport"}
Words == {"work", "notes"}
IsFlag(w) == w \in Boolean \cup Valued
CommandLines == UNION {[1..n -> Boolean \cup Valued \cup Words] : n \in 0..3}

\* The positions flags() takes for flags: the ones no earlier flag consumed.
Flagged(argv) ==
  LET f[i \in 0..Len(argv)] == IF i = 0 THEN FALSE ELSE IsFlag(argv[i]) /\ ~f[i - 1] IN
  {i \in DOMAIN argv : f[i]}
\* The value read for a flag; <<>> is undefined.
Value(argv, w) ==
  LET at == {i \in Flagged(argv) : argv[i] = w} IN
  IF at = {} THEN <<>>
  ELSE LET i == CHOOSE j \in at : \A m \in at : m <= j IN
       IF i = Len(argv) THEN <<>> ELSE <<argv[i + 1]>>
Positional(argv) == SelectSeq(argv, LAMBDA w : ~IsFlag(w))
\* cmdDevice reads its own: a flag takes the next token unless it is one of the boolean ones.
DevicePositional(argv) ==
  LET f[i \in 0..Len(argv)] ==
        IF i = 0 THEN [skip |-> FALSE, kept |-> <<>>]
        ELSE IF f[i - 1].skip THEN [f[i - 1] EXCEPT !.skip = FALSE]
        ELSE IF IsFlag(argv[i]) THEN [f[i - 1] EXCEPT !.skip = argv[i] \notin Boolean]
        ELSE [f[i - 1] EXCEPT !.kept = Append(@, argv[i])] IN
  f[Len(argv)].kept
First(s) == IF s = <<>> THEN <<>> ELSE <<s[1]>>
Said(argv, w) == \E i \in DOMAIN argv : argv[i] = w

\* What the commands make of their line: whether backup restores for real, which silo and path
\* silo rm removes, and the device, transport and effect of a grant.
cmdBackup(argv) == Value(argv, "--dry-run") = <<>>
cmdSilo(argv) == <<Value(argv, "--silo"), First(Positional(argv))>>
cmdDevice(argv) ==
  <<First(DevicePositional(argv)), Value(argv, "--transport"), Said(argv, "--forbid")>>

Runs(argv) ==
  /\ did.argv = <<>> /\ argv # <<>>
  /\ did' = [argv |-> argv, restores |-> cmdBackup(argv), removes |-> cmdSilo(argv),
             grants |-> cmdDevice(argv)]

LineStep ==
  /\ scene = "line" /\ \E argv \in CommandLines : Runs(argv)
  /\ UNCHANGED <<scene, takeover, launch, sending, posts>>

-----------------------------------------------------------------------------
Init ==
  /\ scene \in {"takeover", "launch", "send", "line"}
  /\ claimed = {} /\ tmux = [n \in Names |-> Nothing]
  /\ hands = [t \in Ttys |-> Free] /\ leftWith = {} /\ begun = 0
  /\ mux \in {"tmux", "screen"} /\ (scene # "launch" => mux = "screen")
  /\ live = {} /\ cli = [l \in Launches |-> "new"] /\ tail = [l \in Launches |-> "off"]
  /\ entries = <<>> /\ torn = FALSE /\ pen = [p \in Processes |-> Resting]
  /\ grown = [l \in Launches |-> 0] /\ recent = [l \in Launches |-> Nothing]
  /\ reading = [l \in Launches |-> [of |-> Nothing, upTo |-> 0, from |-> 0]]
  /\ fed = [l \in Launches |-> {}]
  /\ sending = "core" /\ posts = 0
  /\ did = [argv |-> <<>>, restores |-> FALSE, removes |-> <<>>, grants |-> <<>>]

Next == TakeoverStep \/ LaunchStep \/ SendStep \/ LineStep

Spec == Init /\ [][Next]_vars

TypeOK ==
  /\ scene \in {"takeover", "launch", "send", "line"}
  /\ claimed \subseteq Keys /\ leftWith \subseteq Keys /\ begun \in 0..MaxTurns
  /\ tmux \in [Names -> Keys \cup {Nothing}]
  /\ \A t \in Ttys : /\ hands[t].key \in Keys \cup {Nothing}
                     /\ hands[t].at \in {"idle", "claimed", "creating", "attached", "releasing"}
  /\ mux \in {"tmux", "screen"} /\ live \subseteq Launches /\ torn \in BOOLEAN
  /\ cli \in [Launches -> {"new", "registering", "attached", "done"}]
  /\ tail \in [Launches -> {"off", "looking", "tailing", "done"}]
  /\ DOMAIN entries \subseteq Launches
  /\ \A l \in DOMAIN entries : entries[l] \in {"active", "ended"}
  /\ \A p \in Processes : pen[p].at \in {"none", "read", "open"}
  /\ grown \in [Launches -> 0..MaxPieces]
  /\ recent \in [Launches -> Launches \cup {Nothing}]
  /\ \A l \in Launches : reading[l].from <= reading[l].upTo /\ reading[l].upTo <= MaxPieces
  /\ sending \in {"core", "manager", "sent", "failed"} /\ posts \in 0..2

-----------------------------------------------------------------------------
\* A channel is paused only by a terminal that is on its way with it, or by one that walked away
\* with a session of that name running: whoever fails or sees the session end gives it back.
PausedBySomebody ==
  \A k \in claimed : k \in leftWith \/ \E t \in Ttys : hands[t].key = k

\* However the reads cut the transcript, every line of it that was read through is handed to the
\* collector.
LinesArriveWhole ==
  \A l \in Launches : fed[l] = 1..(reading[l].upTo \div 2)

-----------------------------------------------------------------------------
(* Promises the code does not keep. *)
\* "channel stays paused until you `asmltr release` or the session ends"
ChannelComesBack ==
  \A k \in claimed : (\E t \in Ttys : hands[t].key = k) \/ tmuxHasSession(tmuxName(k))
\* attach resumes the conversation it claimed.
OwnSession ==
  \A t \in Ttys : At(t, "attached") => tmux[tmuxName(hands[t].key)] \in {hands[t].key, Nothing}
\* While a takeover runs, its channel is paused.
PausedWhileTaken ==
  \A n \in Names : tmuxHasSession(n) /\ (\A t \in Ttys : ~At(t, "releasing")) => tmux[n] \in claimed
\* "so it is monitored in the asmltr dashboard"
MonitoredIsListed ==
  ~torn /\ (\A p \in Processes : pen[p].at = "none")
    => \A l \in live : cli[l] \in {"attached", "done"} => l \in DOMAIN entries
\* An ended session has ended.
EndedIsOver == \A l \in DOMAIN entries : entries[l] = "ended" => l \notin live
\* "discovers the session's ~/.claude/projects jsonl"
OwnTranscript == \A l \in Launches : reading[l].of \in {l, Nothing}
\* A message goes out once.
SentOnce == posts <= 1
\* restore --dry-run changes nothing.
DryRunIsDry == did.restores => ~Said(did.argv, "--dry-run")
\* silo rm removes the path it was given, not the name of the silo.
RemovesWhatItNames ==
  scene = "line" /\ did.argv # <<>> => did.removes[2] = First(DevicePositional(did.argv))
\* A prohibition for one transport stays with that transport.
GrantsAsAsked ==
  scene = "line" /\ Said(did.argv, "--forbid") /\ Said(did.argv, "--transport")
    /\ (\E i \in DOMAIN did.argv : did.argv[i] = "--transport" /\ i < Len(did.argv)
                                  /\ did.argv[i + 1] \in Words)
      => did.grants[2] # <<>>
=============================================================================

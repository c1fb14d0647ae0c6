------------------------------ MODULE DiscordVoice ------------------------------
(***************************************************************************)
(* The Discord connector in a voice channel of one server (types/discord):  *)
(* a spoken reply from the wake word to its last sentence, the stop, the    *)
(* barge-in and the mute that cut it, joining and leaving, and the stream   *)
(* that transcribes a speaker (voice.js). Apart from it, the streaming      *)
(* transcription of one speaker with the live model: the session of         *)
(* shared/speech/realtime-stt.js, the bursts of speech fed to it, the       *)
(* caption that grows while the speaker talks, and the gate that decides    *)
(* whether the finished utterance is for the assistant                      *)
(* (shared/speech/wake.js). A word stands for the audio frames it takes.    *)
(* The transcription service is external: it hears the audio it was sent in *)
(* order, reports the last words of what it heard so far, redressing their  *)
(* case and punctuation as it goes, and answers a commit with the whole     *)
(* transcript.                                                              *)
(***************************************************************************)
EXTENDS Integers, Sequences, FiniteSets

CONSTANTS
  Replies,   \* handlers of utterances that may be at work
  MaxGen,    \* bound: stops
  MaxStreams, \* bound: transcription streams opened for the speaker
  Name, Greeting, Words,  \* the assistant's name, "hey", and the other words
  Window,                 \* words in one report of the live model
  Backlog,                \* words the queue holds before the socket is open
  Sensitivities, Confidences, \* per cent and per mille
  MaxWords, MaxFaults     \* bounds: words spoken; sockets that fail

VARIABLES
  scene,     \* the part at work, chosen at the start
  joined, muted, busy, gen, \* connected, muted until told, a reply is in hand, its generation
  session,   \* the reply session a sentence needs: 0, or one is open
  reply,     \* each handler: where it is, its generation, sentences waiting to be spoken
  mouth, player, \* replies whose sentence is being heard, and the one a stop would cut
  drone,
  cur, open, heard, closing, \* transcription: the speaker's stream, those open, the one fed, idle timers
  said,      \* history: every word spoken
  burst,     \* words of the burst being spoken, or Silent
  sock,      \* the session: none, connecting, open, or dead
  queue,     \* audio captured before the socket is open
  api,       \* audio the service has, and has not answered a commit for
  seen,      \* how many of these words it has reported
  from,      \* the first word of its last report: a report drops words off the front as it advances
  committed, \* how many of these words a commit covers
  transcript,       \* the running transcript, as merged
  finals,    \* the utterances handed to handleVoiceUtterance
  given,     \* history: their words, one after another
  lost,      \* history: some audio was dropped
  caption,   \* the caption message of the turn: none, sending, or posted
  late,      \* caption messages still being sent for a turn that is over
  lines,     \* messages in the text channel: final ones, and captions left as they were
  faults

channelVars == <<joined, muted, busy, gen, session, reply, mouth, player, drone, cur, open, heard, closing>>
stt == <<cur, open, heard, closing>>
None == {}
Streams == 1..MaxStreams

ChannelTypeOK ==
  /\ joined \in BOOLEAN /\ muted \in BOOLEAN /\ busy \in BOOLEAN /\ drone \in BOOLEAN
  /\ gen \in 0..MaxGen /\ session \in {0, 1}
  /\ reply \in [Replies -> [at : {"off", "chime", "run", "drain"}, gen : 0..MaxGen, queue : 0..1]]
  /\ mouth \subseteq Replies /\ player \subseteq Replies /\ Cardinality(player) <= 1
  /\ cur \in 0..MaxStreams /\ open \subseteq Streams /\ heard \subseteq Streams /\ closing \subseteq Streams

ChannelInit ==
  /\ joined = FALSE /\ muted = FALSE /\ busy = FALSE /\ gen = 0 /\ session = 0 /\ drone = FALSE
  /\ reply = [r \in Replies |-> [at |-> "off", gen |-> 0, queue |-> 0]]
  /\ mouth = None /\ player = None /\ cur = 0 /\ open = None /\ heard = None /\ closing = None

\* A reply is live until the generation it began in is over.
Live_Session(r) == session = 1
Live(r) == reply[r].gen = gen

\* An utterance for the assistant (by name, or within the follow-up window): quiet while muted,
\* and not while another reply is in hand.
handleVoiceUtterance(r) ==
  /\ reply[r] = [reply[r] EXCEPT !.at = "off", !.queue = 0] /\ ~muted /\ ~busy
  /\ busy' = TRUE /\ session' = 1
  /\ reply' = [reply EXCEPT ![r] = [at |-> "chime", gen |-> gen, queue |-> 0]]
  /\ UNCHANGED <<joined, muted, gen, mouth, player, drone, stt>>

Chimed(r) ==
  /\ reply[r].at = "chime" /\ reply' = [reply EXCEPT ![r].at = "run"] /\ drone' = joined
  /\ UNCHANGED <<joined, muted, busy, gen, session, mouth, player, stt>>

\* A sentence is complete: it is synthesized and waits its turn, unless the reply was stopped.
speakSentence(r) ==
  /\ reply[r].at = "run" /\ reply[r].queue = 0 /\ Live(r) /\ reply' = [reply EXCEPT ![r].queue = 1]
  /\ UNCHANGED <<joined, muted, busy, gen, session, mouth, player, drone, stt>>

\* Its turn: dropped when the reply is not live, when there is no session, no connection or no
\* audio; heard otherwise.
speak(r) ==
  /\ reply[r].queue = 1 /\ r \notin mouth /\ reply' = [reply EXCEPT ![r].queue = 0]
  /\ \/ Live(r) /\ joined /\ session = 1 /\ mouth' = mouth \cup {r} /\ player' = {r} /\ drone' = FALSE
     \/ UNCHANGED <<mouth, player, drone>>
  /\ UNCHANGED <<joined, muted, busy, gen, session, stt>>

SpokenOut(r) ==
  /\ r \in mouth /\ mouth' = mouth \ {r} /\ player' = player \ {r}
  /\ UNCHANGED <<joined, muted, busy, gen, session, reply, drone, stt>>

\* The stream ends; the handler waits for what is left to be spoken.
StreamEnds(r) ==
  /\ reply[r].at = "run" /\ reply' = [reply EXCEPT ![r].at = "drain"]
  /\ UNCHANGED <<joined, muted, busy, gen, session, mouth, player, drone, stt>>

\* The end of the handler, or its failure, which leaves sentences waiting.
Finally(r) ==
  /\ \/ reply[r].at = "drain" /\ reply[r].queue = 0 /\ r \notin mouth
     \/ reply[r].at \in {"chime", "run"}
  /\ reply' = [reply EXCEPT ![r].at = "off"] /\ drone' = FALSE /\ session' = 0 /\ busy' = FALSE
  /\ UNCHANGED <<joined, muted, gen, mouth, player, stt>>

\* Playback, what is queued, the drone, the core's turn and the latch, all at once.
Stopped ==
  /\ gen < MaxGen /\ gen' = gen + 1 /\ session' = 0 /\ busy' = FALSE /\ drone' = FALSE
  /\ mouth' = (IF session = 1 THEN mouth \ player ELSE mouth)
  /\ player' = (IF session = 1 THEN None ELSE player)

\* Spoken, or the stop command of the text channel.
stopVoiceReply == Stopped /\ UNCHANGED <<joined, muted, reply, stt>>

\* Someone talks over the reply, past its first moments.
onBargeIn ==
  /\ joined /\ busy /\ session = 1 /\ Stopped /\ UNCHANGED <<joined, muted, reply, stt>>

\* Spoken while connected; by text, a reply is only stopped when connected.
mute ==
  /\ muted' = TRUE /\ UNCHANGED <<joined, reply, stt>>
  /\ IF joined THEN Stopped ELSE UNCHANGED <<gen, session, busy, drone, mouth, player>>

unmute == muted' = FALSE /\ UNCHANGED <<joined, busy, gen, session, reply, mouth, player, drone, stt>>

join ==
  /\ ~joined /\ joined' = TRUE
  /\ UNCHANGED <<muted, busy, gen, session, reply, mouth, player, drone, stt>>

\* The connection goes, with what is heard over it and the speaker's stream; the reply does not.
leave ==
  /\ joined /\ joined' = FALSE /\ muted' = FALSE /\ mouth' = None /\ player' = None
  /\ open' = open \ {cur} /\ closing' = closing \ {cur} /\ cur' = 0
  /\ UNCHANGED <<busy, gen, session, reply, drone, heard>>

---------------------------------------------------------------------------
(* Transcription of one speaker (realtimeSpeaking).                         *)

\* Speech starts: the speaker's stream, or a new one, is fed until the burst ends.
speakingStarts ==
  /\ joined
  /\ LET fresh == Cardinality(Streams \ (open \cup heard \cup closing)) IN
       \/ /\ cur # 0 /\ cur \notin heard /\ heard' = heard \cup {cur} /\ closing' = closing \ {cur}
          /\ UNCHANGED <<cur, open>>
       \/ /\ cur = 0 /\ fresh > 0
          /\ cur' = (CHOOSE s \in Streams \ (open \cup heard \cup closing) : TRUE)
          /\ open' = open \cup {cur'} /\ heard' = heard \cup {cur'} /\ UNCHANGED closing
  /\ UNCHANGED <<joined, muted, busy, gen, session, reply, mouth, player, drone>>

\* The burst ends: twenty-five seconds of silence will close the stream.
decoderEnds(s) ==
  /\ s \in heard /\ heard' = heard \ {s} /\ closing' = closing \cup {s}
  /\ UNCHANGED <<joined, muted, busy, gen, session, reply, mouth, player, drone, cur, open>>

\* They have passed: the stream is closed, and the speaker's entry is dropped.
idleTimer(s) ==
  /\ s \in closing /\ closing' = closing \ {s} /\ open' = open \ {s} /\ cur' = 0
  /\ UNCHANGED <<joined, muted, busy, gen, session, reply, mouth, player, drone, heard>>

ChannelNext ==
  \/ stopVoiceReply \/ onBargeIn \/ mute \/ unmute \/ join \/ leave \/ speakingStarts
  \/ \E r \in Replies : \/ handleVoiceUtterance(r) \/ Chimed(r) \/ speakSentence(r) \/ speak(r)
                        \/ SpokenOut(r) \/ StreamEnds(r) \/ Finally(r)
  \/ \E s \in Streams : decoderEnds(s) \/ idleTimer(s)

---------------------------------------------------------------------------
speechVars == <<said, burst, sock, queue, api, seen, from, committed, transcript, finals, given, lost, caption,
          late, lines, faults>>
chat == <<caption, late, lines>>

Silent == -1
Vocabulary == Words \cup {Name, Greeting}
Dressed == Vocabulary \X {0, 1}

SpeechTypeOK ==
  /\ said \in Seq(Vocabulary) /\ queue \in Seq(Vocabulary) /\ api \in Seq(Vocabulary)
  /\ burst \in Silent..MaxWords /\ Len(queue) <= Backlog
  /\ sock \in {"none", "connecting", "open", "dead"}
  /\ seen \in 0..Len(api) /\ from \in 1..(seen + 1) /\ committed \in 0..Len(api)
  /\ transcript \in Seq(Dressed) /\ finals \in Seq(Seq(Vocabulary)) /\ given \in Seq(Vocabulary)
  /\ caption \in {"none", "sending", "posted"} /\ late \in Nat
  /\ lines \in [final : Nat, partial : Nat]

SpeechInit ==
  /\ said = <<>> /\ burst = Silent /\ sock = "none" /\ queue = <<>> /\ api = <<>> /\ seen = 0 /\ from = 1
  /\ committed = 0 /\ transcript = <<>> /\ finals = <<>> /\ given = <<>> /\ lost = FALSE /\ caption = "none" /\ late = 0
  /\ lines = [final |-> 0, partial |-> 0] /\ faults = 0

-----------------------------------------------------------------------------
(* The running transcript. *)

norm_Exact(w) == w
\* Case and trailing punctuation do not tell words apart.
norm(w) == w[1]

\* Largest overlap of the end of what we have with the start of the window.
Overlap(full, window) ==
  CHOOSE k \in 0..Len(window) :
    LET fits(n) == n <= Len(full) /\
                   \A i \in 1..n : norm(full[Len(full) - n + i]) = norm(window[i])
    IN  fits(k) /\ \A n \in (k + 1)..Len(window) : ~fits(n)

mergeWindow(full, window) ==
  full \o SubSeq(window, Overlap(full, window) + 1, Len(window))

-----------------------------------------------------------------------------
(* The gate: shared/speech/wake.js. *)

addresses(t) ==
  \E i \in DOMAIN t :
    /\ t[i] = Name
    /\ \/ \A n \in 1..(i - 1) : t[n] = Greeting
       \/ i > 1 /\ t[i - 1] = Greeting
       \/ i = Len(t)
isBareName(t) == \A i \in DOMAIN t : t[i] \in {Name, Greeting}
risky(t) == isBareName(t) \/ Len(t) <= 2

Threshold_Flipped(sensitivity) == 250 + (55 * sensitivity) \div 10
\* minConfidenceForRisky: 0.80 when not sensitive, 0.25 when fully so.
Threshold(sensitivity) == 800 - (55 * sensitivity) \div 10

Unknown == -1
\* evaluate: a risky match needs confidence; without a signal only a bare name is refused.
evaluate(t, confidence, sensitivity) ==
  /\ addresses(t)
  /\ risky(t) => IF confidence = Unknown THEN ~(isBareName(t) /\ sensitivity < 60)
                                         ELSE confidence >= Threshold(sensitivity)
\* The live session reports every utterance as certain.
Passed == 1000
Fired(t, sensitivity) == evaluate(t, Passed, sensitivity)

-----------------------------------------------------------------------------
(* The session and the bursts. *)

\* speaking 'start': the speaker's session is opened, or used again.
burstStarts ==
  /\ burst = Silent /\ burst' = 0
  /\ sock' = IF sock = "none" THEN "connecting" ELSE sock
  /\ UNCHANGED <<said, queue, api, seen, from, committed, transcript, finals, given, lost, chat, faults>>

\* pushPcm24: sent when the socket is open, else queued while there is room.
pushPcm24(w) ==
  /\ burst # Silent /\ Len(said) < MaxWords
  /\ said' = Append(said, w) /\ burst' = burst + 1
  /\ \/ sock = "open" /\ api' = Append(api, w) /\ UNCHANGED <<queue, lost>>
     \/ sock # "open" /\ Len(queue) < Backlog /\ queue' = Append(queue, w)
        /\ UNCHANGED <<api, lost>>
     \/ sock # "open" /\ Len(queue) = Backlog /\ lost' = TRUE /\ UNCHANGED <<queue, api>>
  /\ UNCHANGED <<sock, seen, from, committed, transcript, finals, given, chat, faults>>

\* The burst ended: a commit, unless nothing much was said; and only an open socket takes one.
burstEnds ==
  /\ burst # Silent /\ burst' = Silent
  /\ committed' = IF burst > 0 /\ sock = "open" THEN Len(api) ELSE committed
  /\ UNCHANGED <<said, sock, queue, api, seen, from, transcript, finals, given, lost, chat, faults>>

Flushed_Newest(q) == IF q = <<>> THEN q ELSE <<q[Len(q)]>>
Flushed(q) == q
\* onopen: what was captured while connecting goes out first.
onopen ==
  /\ sock = "connecting" /\ sock' = "open"
  /\ api' = Flushed(queue) /\ queue' = <<>>
  /\ UNCHANGED <<said, burst, seen, from, committed, transcript, finals, given, lost, chat, faults>>

\* The token cannot be had, or the socket closes.
socketFails ==
  /\ sock \in {"connecting", "open"} /\ faults < MaxFaults /\ faults' = faults + 1
  /\ sock' = "dead" /\ api' = <<>> /\ seen' = 0 /\ from' = 1 /\ committed' = 0
  /\ lost' = (lost \/ api # <<>>)
  /\ UNCHANGED <<said, burst, queue, transcript, finals, given, chat>>

\* 25 s after a burst: the session is closed and forgotten.
sessionIdles ==
  /\ burst = Silent /\ sock # "none" /\ sock' = "none"
  /\ queue' = <<>> /\ api' = <<>> /\ seen' = 0 /\ from' = 1 /\ committed' = 0 /\ transcript' = <<>>
  /\ lost' = (lost \/ api # <<>> \/ queue # <<>>)
  /\ UNCHANGED <<said, burst, finals, given, chat, faults>>

\* A delta of the live model: the last words heard, merged into the caption's text.  The first
\* one of a turn posts the caption, the others edit it.
delta(n, dress) ==
  /\ sock = "open" /\ n \in (seen + 1)..(IF committed > 0 THEN committed ELSE Len(api))
  /\ LET k == Len(dress)
     IN  /\ k <= n /\ n - k <= seen /\ n - k + 1 >= from /\ from' = n - k + 1
         /\ transcript' = mergeWindow(transcript, [i \in 1..k |-> <<api[n - k + i], dress[i]>>])
  /\ seen' = n
  /\ caption' = IF caption = "none" THEN "sending" ELSE caption
  /\ UNCHANGED <<said, burst, sock, queue, api, committed, finals, given, lost, late, lines, faults>>

\* finalizeCaption, and the line handleVoiceUtterance posts when there was no caption to reuse.
FinalLine ==
  /\ lines' = [lines EXCEPT !.final = @ + 1]
  /\ late' = IF caption = "sending" THEN late + 1 ELSE late
  /\ caption' = "none"

\* The service answers the commit with the transcript of what it covers.
completed ==
  /\ sock = "open" /\ committed > 0
  /\ LET utterance == SubSeq(api, 1, committed) IN
       finals' = Append(finals, utterance) /\ given' = given \o utterance
  /\ api' = SubSeq(api, committed + 1, Len(api)) /\ seen' = 0 /\ from' = 1 /\ committed' = 0 /\ transcript' = <<>>
  /\ FinalLine
  /\ UNCHANGED <<said, burst, sock, queue, lost, faults>>

\* The caption's message is there; for a turn that is over nobody edits it again.
captionSent ==
  \/ /\ caption = "sending" /\ caption' = "posted" /\ UNCHANGED <<late, lines>>
     /\ UNCHANGED <<said, burst, sock, queue, api, seen, from, committed, transcript, finals, given, lost, faults>>
  \/ /\ late > 0 /\ late' = late - 1 /\ lines' = [lines EXCEPT !.partial = @ + 1]
     /\ UNCHANGED <<said, burst, sock, queue, api, seen, from, committed, transcript, finals, given, lost, caption, faults>>

SpeechNext ==
  \/ burstStarts \/ burstEnds \/ onopen \/ socketFails \/ sessionIdles \/ completed
  \/ captionSent
  \/ \E w \in Vocabulary : pushPcm24(w)
  \/ \E n \in 1..MaxWords, k \in 1..Window : \E dress \in [1..k -> {0, 1}] : delta(n, dress)

---------------------------------------------------------------------------
vars == <<scene, channelVars, speechVars>>

TypeOK == scene \in {"channel", "speech"} /\ ChannelTypeOK /\ SpeechTypeOK

Init ==
  /\ scene \in {"channel", "speech"} /\ ChannelInit /\ SpeechInit

Next ==
  /\ UNCHANGED scene
  /\ \/ scene = "channel" /\ ChannelNext /\ UNCHANGED speechVars
     \/ scene = "speech" /\ SpeechNext /\ UNCHANGED channelVars

Spec == Init /\ [][Next]_vars

---------------------------------------------------------------------------
\* No sentence begins of a reply that was stopped, though another has begun since.
StoppedNeverSpeaks ==
  [][\A r \in Replies : (r \in mouth' /\ r \notin mouth) => reply[r].gen = gen]_vars

\* One spoken reply at a time.
OneVoice == Cardinality(mouth) <= 1

\* Muted, the assistant begins no sentence.
MutedIsQuiet == [][muted => mouth' \subseteq mouth]_vars

\* A speaker is transcribed by one stream.
OneStream == Cardinality(open) <= 1

Spoken(c) == [i \in DOMAIN c |-> c[i][1]]
NoneTwice(s) == \A i, j \in DOMAIN s : s[i] = s[j] => i = j
\* s is what is left of t when some of its words are left out.
Selects(s, t) ==
  \E at \in [DOMAIN s -> DOMAIN t] : \A i, j \in DOMAIN s : (i < j => at[i] < at[j]) /\ s[i] = t[at[i]]
\* The caption follows the speaker: it ends with the words reported last, it doubles nothing and keeps
\* their order, and as long as no word was said twice nothing is missing, whatever windows the model
\* sends and however it redresses the words in them (mergeWindow).
CaptionFollows ==
  sock = "open" => /\ transcript # <<>> => transcript[Len(transcript)][1] = api[seen]
                   /\ Selects(Spoken(transcript), SubSeq(api, 1, seen))
                   /\ NoneTwice(SubSeq(api, 1, seen)) => Spoken(transcript) = SubSeq(api, 1, seen)

\* What is heard is what was said: as long as no audio was dropped, the utterances handed over,
\* what the service still has and what waits for the socket make up the speech, in order.
HeardAsSaid == ~lost => (given \o api) \o queue = said

\* A surer transcription, or a more sensitive setting, never silences an utterance that was
\* for the assistant (wake.js: the gate is a threshold).
GateIsMonotone ==
  \A i \in DOMAIN finals, c \in Confidences, d \in Confidences :
    \A s \in Sensitivities, r \in Sensitivities :
      c <= d /\ s <= r /\ evaluate(finals[i], c, s) => evaluate(finals[i], d, r)

-----------------------------------------------------------------------------
(* Claims of the code and its comments that do not hold (README, section 5). *)

\* mergeWindow "reconstruct[s] the full running transcript".
NothingSkipped == sock = "open" => Spoken(transcript) = SubSeq(api, 1, seen)
\* A turn that is over is handed over: nothing said waits for the next turn.
TurnsEnd == sock = "open" /\ burst = Silent => committed = Len(api)
\* Speech goes to a session that can still hear it.
NotDeaf == burst # Silent => sock # "dead"
\* One message per turn, not a duplicate line.
OneLinePerTurn == lines.partial = 0
\* wake.js: a bare name does not fire on a transcription that is not sure of it.
BareNameGated ==
  \A i \in DOMAIN finals, c \in Confidences, s \in Sensitivities :
    isBareName(finals[i]) /\ Fired(finals[i], s) => evaluate(finals[i], c, s)
=============================================================================

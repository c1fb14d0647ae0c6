------------------------------ MODULE PhoneVoice ------------------------------
(***************************************************************************)
(* The phone's hands-free loop: open the microphone, record, transcribe (live *)
(* over a peer connection or at the end), send the turn, have every sentence   *)
(* of the reply synthesized as it streams in, play the clips in order, listen  *)
(* again; and the presses, stops, mutes and read-aloud pushes that fall in      *)
(* between.                                                                  *)
(***************************************************************************)
EXTENDS Integers, Sequences, FiniteSets

CONSTANTS
  MaxRecs, MaxTurns, \* microphone openings and turns
  MaxClips,          \* sentences synthesized
  MaxActs,           \* presses, mutes and pushes
  Live               \* "Live transcription" is on

VARIABLES
  st,                \* what the big button shows: idle, rec or busy
  opened, opening,   \* startRec calls; those waiting for their microphone
  mics, cur, stops,  \* open microphones, the one in the globals, recorders whose stop event is due
  cancelled, dropped, \* cancelledRec; history: the recording it was meant for
  asking,            \* recordings being transcribed
  gen, tries, rtpc, peers, \* the live transcription's generation, attempts, global peer, open peers
  turns, sent, killed, \* turns sent; history: recordings sent, recordings stopped on the way
  srv, left,         \* turns the server has not finished, in order; sentences the first still streams
  tts, made, of,     \* the readout: queue and flags; sentences so far, the turn each belongs to (0: a push)
  synths, sounding, curAudio, \* sentences being synthesized; clips heard; the one in the global
  muted, suppress, acts

vars == <<st, opened, opening, mics, cur, stops, cancelled, dropped, asking, gen, tries, rtpc, peers,
          turns, sent, killed, srv, left, tts, made, of, synths, sounding, curAudio, muted, suppress, acts>>
mic == <<opened, opening, mics, cur, stops, cancelled, dropped>>
rt == <<gen, tries, rtpc, peers>>
talk == <<turns, sent, srv, left>>
voice == <<tts, made, of, synths, sounding, curAudio>>

Recs == 1..MaxRecs
Slots == 0..MaxClips
Absent == 0
NoClip == -1
Fresh == [seq |-> 0, next |-> 0, playing |-> FALSE, done |-> FALSE, clips |-> [i \in Slots |-> Absent]]

TypeOK ==
  /\ st \in {"idle", "rec", "busy"} /\ opened \in 0..MaxRecs /\ opening \subseteq Recs /\ mics \subseteq Recs
  /\ cur \in 0..MaxRecs /\ stops \in Seq(Recs) /\ cancelled \in BOOLEAN /\ dropped \subseteq Recs
  /\ asking \subseteq Recs /\ gen \in Nat /\ tries \subseteq [rec : Recs, gen : Nat, at : {"mint", "sdp"}]
  /\ rtpc \in 0..MaxRecs /\ peers \subseteq Recs /\ turns \in 0..MaxTurns /\ sent \subseteq Recs /\ killed \subseteq Recs
  /\ srv \in Seq(1..MaxTurns) /\ left \in 0..2 /\ made \in 0..MaxClips /\ of \in [1..MaxClips -> 0..MaxTurns]
  /\ tts \in [seq : Slots, next : Slots, playing : BOOLEAN, done : BOOLEAN, clips : [Slots -> (-1)..MaxClips]]
  /\ synths \subseteq [at : Slots, id : 1..MaxClips] /\ sounding \subseteq 1..MaxClips /\ curAudio \in 0..MaxClips
  /\ muted \in BOOLEAN /\ suppress \in BOOLEAN /\ acts \in 0..MaxActs

Init ==
  /\ st = "idle" /\ opened = 0 /\ opening = {} /\ mics = {} /\ cur = 0 /\ stops = <<>> /\ cancelled = FALSE
  /\ dropped = {} /\ asking = {} /\ gen = 0 /\ tries = {} /\ rtpc = 0 /\ peers = {} /\ turns = 0 /\ sent = {}
  /\ killed = {} /\ srv = <<>> /\ left = 0 /\ tts = Fresh /\ made = 0 /\ of = [i \in 1..MaxClips |-> 0]
  /\ synths = {} /\ sounding = {} /\ curAudio = 0 /\ muted = FALSE /\ suppress = FALSE /\ acts = 0

Act == acts < MaxActs /\ acts' = acts + 1

---------------------------------------------------------------------------
(* Live transcription.                                                      *)

\* Stopping takes a new generation, so that whatever is still being set up finds itself superseded.
Stopped_SameGen == gen
Stopped == gen + 1
stopRealtimeSTT == gen' = Stopped /\ rtpc' = 0 /\ peers' = peers \ {rtpc}

\* Starting stops what there is and asks for a token.
startRealtimeSTT(r) ==
  /\ gen' = Stopped + 1 /\ rtpc' = 0 /\ peers' = peers \ {rtpc}
  /\ tries' = tries \cup {[rec |-> r, gen |-> Stopped + 1, at |-> "mint"]}

\* Each await is followed by a look at the generation.
Superseded(x) == x.gen # gen
minted(x) ==
  /\ x \in tries /\ x.at = "mint"
  /\ IF Superseded(x) THEN tries' = tries \ {x} /\ UNCHANGED <<gen, rtpc, peers>>
     ELSE /\ tries' = (tries \ {x}) \cup {[x EXCEPT !.at = "sdp"]} /\ rtpc' = x.rec /\ peers' = peers \cup {x.rec}
          /\ UNCHANGED gen
  /\ UNCHANGED <<st, mic, asking, talk, killed, voice, muted, suppress, acts>>
connected(x) ==
  /\ x \in tries /\ x.at = "sdp" /\ tries' = tries \ {x}
  /\ peers' = IF Superseded(x) THEN peers \ {x.rec} ELSE peers
  /\ UNCHANGED <<gen, rtpc, st, mic, asking, talk, killed, voice, muted, suppress, acts>>
failed(x) ==
  /\ x \in tries /\ tries' = tries \ {x}
  /\ IF Superseded(x) THEN UNCHANGED <<gen, rtpc, peers>> ELSE stopRealtimeSTT
  /\ UNCHANGED <<st, mic, asking, talk, killed, voice, muted, suppress, acts>>

---------------------------------------------------------------------------
(* Recording.                                                               *)

\* Only the button's state is looked at, and it changes when the microphone is open.
startRec ==
  /\ st = "idle" /\ opened < MaxRecs /\ opened' = opened + 1 /\ opening' = opening \cup {opened + 1}
  /\ UNCHANGED <<st, mics, cur, stops, cancelled, dropped, asking, rt, talk, killed, voice, muted, suppress, acts>>

micOpens(r) ==
  /\ r \in opening /\ opening' = opening \ {r} /\ mics' = mics \cup {r} /\ cur' = r /\ st' = "rec"
  /\ IF Live THEN startRealtimeSTT(r) ELSE UNCHANGED rt
  /\ UNCHANGED <<opened, stops, cancelled, dropped, asking, talk, killed, voice, muted, suppress, acts>>
micRefused(r) ==
  /\ r \in opening /\ opening' = opening \ {r} /\ st' = "idle"
  /\ UNCHANGED <<opened, mics, cur, stops, cancelled, dropped, asking, rt, talk, killed, voice, muted, suppress, acts>>

Recording == cur \in mics /\ ~\E i \in DOMAIN stops : stops[i] = cur
stopRec == stops' = IF Recording THEN Append(stops, cur) ELSE stops

\* Silence, or nothing said at all.
startVAD ==
  /\ Recording /\ stopRec
  /\ UNCHANGED <<st, opened, opening, mics, cur, cancelled, dropped, asking, rt, talk, killed, voice, muted, suppress, acts>>

\* A press while it records: the button sends what there is, the assist gesture throws it away.
pressRec(drop) ==
  /\ Act /\ st = "rec" /\ stopRec /\ cancelled' = (cancelled \/ drop)
  /\ dropped' = IF drop /\ cur \in mics THEN dropped \cup {cur} ELSE dropped
  /\ UNCHANGED <<st, opened, opening, mics, cur, asking, rt, talk, killed, voice, muted, suppress>>

\* The turn goes out, unless one is at work.
Sends(r) ==
  IF turns < MaxTurns
  THEN /\ turns' = turns + 1 /\ srv' = Append(srv, turns + 1) /\ left' = IF srv = <<>> THEN 2 ELSE left
       /\ st' = "busy" /\ suppress' = FALSE /\ tts' = Fresh /\ sent' = IF r = 0 THEN sent ELSE sent \cup {r}
  ELSE st' = "idle" /\ UNCHANGED <<talk, suppress, tts>>

\* The recorder has stopped: whatever microphone is in the global is closed, the live transcription
\* with it, and the recording is dropped, sent as transcribed live, or transcribed.
Dropped_Ignored == FALSE
Dropped == cancelled
onRecStop ==
  /\ stops # <<>> /\ stopRealtimeSTT /\ UNCHANGED tries /\ mics' = mics \ {cur}
  /\ LET r == Head(stops) IN
     /\ stops' = Tail(stops) \o (IF cur # r /\ cur \in mics /\ ~\E i \in DOMAIN stops : stops[i] = cur THEN <<cur>> ELSE <<>>)
     /\ cancelled' = FALSE
     /\ \/ /\ Dropped /\ suppress' = TRUE /\ st' = "idle" /\ UNCHANGED <<asking, talk, tts>>
        \/ /\ ~Dropped /\ st' = "idle" /\ UNCHANGED <<asking, talk, suppress, tts>>
        \/ /\ ~Dropped /\ peers # {} /\ Sends(r) /\ UNCHANGED asking
        \/ /\ ~Dropped /\ st' = "busy" /\ asking' = asking \cup {r} /\ UNCHANGED <<talk, suppress, tts>>
  /\ UNCHANGED <<opened, opening, cur, dropped, killed, made, of, synths, sounding, curAudio, muted, acts>>

\* Words to send; a stop phrase; nothing, or an error.
transcribed(r) ==
  /\ r \in asking /\ asking' = asking \ {r}
  /\ \/ Sends(r)
     \/ st' = "idle" /\ suppress' = TRUE /\ UNCHANGED <<talk, tts>>
     \/ st' = "idle" /\ UNCHANGED <<talk, suppress, tts>>
  /\ UNCHANGED <<mic, rt, killed, made, of, synths, sounding, curAudio, muted, acts>>

sendTurn ==
  /\ Act /\ st # "busy" /\ turns < MaxTurns /\ Sends(0)
  /\ UNCHANGED <<mic, rt, asking, killed, made, of, synths, sounding, curAudio, muted>>

---------------------------------------------------------------------------
(* The readout.                                                             *)

\* Clips are played in order, those that failed skipped; when all is said the button is idle.
FirstDue(t) == CHOOSE n \in Slots : /\ n >= t.next /\ t.clips[n] # NoClip
                                   /\ \A k \in Slots : t.next <= k /\ k < n => t.clips[k] = NoClip
drainTTS(t, s, snd, ca) ==
  IF t.playing \/ ~\E n \in Slots : n >= t.next /\ t.clips[n] # NoClip
  THEN tts' = t /\ st' = s /\ sounding' = snd /\ curAudio' = ca
  ELSE LET n == FirstDue(t) IN
       IF t.clips[n] # Absent
       THEN /\ tts' = [t EXCEPT !.next = n + 1, !.clips[n] = Absent, !.playing = TRUE] /\ st' = s
            /\ sounding' = snd \cup {t.clips[n]} /\ curAudio' = t.clips[n]
       ELSE IF t.done /\ n >= t.seq THEN tts' = Fresh /\ st' = "idle" /\ sounding' = snd /\ curAudio' = ca
       ELSE tts' = [t EXCEPT !.next = n] /\ st' = s /\ sounding' = snd /\ curAudio' = ca

\* A sentence takes the next place in the queue of the readout it was spoken in.
Synth(t, owner) ==
  /\ made < MaxClips /\ made' = made + 1 /\ of' = [of EXCEPT ![made + 1] = owner]
  /\ synths' = synths \cup {[at |-> t.seq, id |-> made + 1]}

\* A piece of the reply.
delta ==
  /\ srv # <<>> /\ left > 0 /\ left' = left - 1
  /\ IF muted THEN UNCHANGED <<tts, made, of, synths>>
     ELSE Synth(tts, Head(srv)) /\ tts' = [tts EXCEPT !.seq = @ + 1]
  /\ UNCHANGED <<st, mic, rt, asking, turns, sent, killed, srv, sounding, curAudio, muted, suppress, acts>>
\* Its end; or an error, or a stream that was down when it ended: nothing then says so.
done ==
  /\ srv # <<>> /\ left = 0 /\ srv' = Tail(srv) /\ left' = IF Len(srv) > 1 THEN 2 ELSE 0
  /\ IF muted THEN tts' = Fresh /\ st' = "idle" /\ UNCHANGED <<sounding, curAudio>>
              ELSE drainTTS([tts EXCEPT !.done = TRUE], st, sounding, curAudio)
  /\ UNCHANGED <<mic, rt, asking, turns, sent, killed, made, of, synths, muted, suppress, acts>>
error ==
  /\ srv # <<>> /\ srv' = Tail(srv) /\ tts' = Fresh /\ st' = "idle"
  /\ left' = IF Len(srv) > 1 THEN 2 ELSE 0
  /\ UNCHANGED <<mic, rt, asking, turns, sent, killed, made, of, synths, sounding, curAudio, muted, suppress, acts>>

\* Something to read aloud: the queue is reset, what is being heard is not stopped.
speak ==
  /\ Act /\ ~muted /\ Synth(Fresh, 0) /\ tts' = [Fresh EXCEPT !.seq = 1, !.done = TRUE]
  /\ UNCHANGED <<st, mic, rt, asking, talk, killed, sounding, curAudio, muted, suppress>>

\* The clip goes to the place the sentence took, of whatever readout that place is now.
synthSentence(x) ==
  /\ x \in synths /\ synths' = synths \ {x}
  /\ \E clip \in {NoClip, x.id} :
       /\ suppress => clip = NoClip
       /\ drainTTS([tts EXCEPT !.clips[x.at] = clip], st, sounding, curAudio)
  /\ UNCHANGED <<mic, rt, asking, talk, killed, made, of, muted, suppress, acts>>

ended(c) ==
  /\ c \in sounding
  /\ drainTTS([tts EXCEPT !.playing = FALSE], st, sounding \ {c}, IF curAudio = c THEN 0 ELSE curAudio)
  /\ UNCHANGED <<mic, rt, asking, talk, killed, made, of, synths, muted, suppress, acts>>

---------------------------------------------------------------------------
(* Stopping and muting.                                                     *)

stopAudio == sounding' = sounding \ {curAudio} /\ curAudio' = 0

\* The button while it is busy, the second assist press, the card's close, a new session: the server
\* is asked to abort what runs.
stopEverything ==
  /\ Act /\ suppress' = TRUE /\ stopAudio /\ tts' = Fresh /\ stopRealtimeSTT /\ st' = "idle"
  /\ killed' = killed \cup asking /\ left' \in {0, left}
  /\ UNCHANGED <<mic, asking, tries, turns, sent, srv, made, of, synths, muted>>

setMuted ==
  /\ Act /\ muted' = ~muted
  /\ IF muted THEN UNCHANGED <<sounding, curAudio>> ELSE stopAudio
  /\ UNCHANGED <<st, mic, rt, asking, talk, killed, tts, made, of, synths, suppress>>

Next ==
  \/ startRec \/ startVAD \/ onRecStop \/ sendTurn \/ delta \/ done \/ error \/ speak \/ stopEverything \/ setMuted
  \/ \E r \in Recs : micOpens(r) \/ micRefused(r) \/ transcribed(r)
  \/ \E d \in BOOLEAN : pressRec(d)
  \/ \E x \in tries : minted(x) \/ connected(x) \/ failed(x)
  \/ \E x \in synths : synthSentence(x)
  \/ \E c \in 1..MaxClips : ended(c)

Spec == Init /\ [][Next]_vars

---------------------------------------------------------------------------
\* However short the utterance and whenever it was stopped, no live transcription stays open without
\* a microphone in hand, and never two.
CaptionsNeedTheMic ==
  /\ Cardinality(peers) <= 1 /\ peers \subseteq {rtpc}
  /\ \A x \in tries : x.gen = gen => mics # {} \/ stops # <<>>
  /\ peers # {} => mics # {}

\* What the code says of itself and does not do; none of these holds.

\* What a second press abandons is never sent.
AbandonedStaysUnsent == dropped \cap (sent \cup asking) = {}
\* Listening opens one microphone.
OneMic == Cardinality(mics) <= 1
\* A stop drops the turn, one still being transcribed too.
StopDropsTheTurn == killed \cap sent = {}
\* One voice at a time.
OneVoice == Cardinality(sounding) <= 1
\* What is heard of a reply was said in the turn that is being answered or read out.
OwnWords == \A c \in sounding : of[c] \in {0, turns}
\* Muted, nothing starts to sound.
MutedIsQuiet == [][muted => sounding' \subseteq sounding]_vars
\* With nothing going on the button is not stuck on Stop.
NeverStuck == st = "busy" => srv # <<>> \/ asking # {} \/ synths # {} \/ sounding # {} \/ ~tts.done
=============================================================================

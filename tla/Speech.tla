------------------------------ MODULE Speech ------------------------------
(***************************************************************************)
(* Speech on record and spoken. One recording from upload to enrichment:    *)
(* its directory (shared/recordings.js: meta.json, the audio,               *)
(* transcript.txt), the background jobs that work on it at the same time    *)
(* (the core's processRecording, a diarized re-transcription, an AI         *)
(* summary), and the user who edits, files or deletes it meanwhile.         *)
(* Recordings share no state. A long recording is transcribed chunk by      *)
(* chunk (shared/speech/transcribe-long.js), every chunk a call that may    *)
(* fail. A core restart ends every job and leaves the directory as it is.   *)
(* Apart from it, spoken replies: POST /v2/speak of core/src/server.js with *)
(* the pipeline that cuts the token stream into sentences and speaks them   *)
(* in order (shared/speech/speaker.js), the acknowledgment and the drone    *)
(* that cover the wait (voice.js), and the settings all of it reads: the    *)
(* live voice configuration (tts.js, stt.js) and the engine bound to each   *)
(* voice role (voice-engines.js), changed from the dashboard at any time.   *)
(* The speech provider is external: it answers or fails, and refuses a      *)
(* voice that is not its own.                                               *)
(***************************************************************************)
EXTENDS Integers, Sequences, FiniteSets

CONSTANTS
  Chunks,     \* the chunks ffmpeg cuts the audio into, numbered from 0
  Speakers,     \* the people heard on it
  Diars,      \* POST .../diarize requests, each made once
  Asks,       \* POST .../enrich requests, each made once
  MaxFaults,   \* bound: calls that fail, and restarts
  MaxSentences, \* bound: sentences of a reply
  MaxReplies,   \* bound: replies, one after the other
  MaxChanges    \* bound: changes of the settings

VARIABLES
  scene,     \* the part at work, chosen at the start
  meta,      \* meta.json, or Absent
  text,      \* transcript.txt: which transcription wrote it, and the chunks in it
  process,   \* processRecording: its step, and what transcribeLong has so far
  diar,      \* per diarize request: its step, and what it has so far
  asked,     \* per enrich request: its step
  filed,     \* events appended to the stream it is filed in
  edited,    \* history: the fields the user edited
  removed,   \* history: it was deleted
  faults,
  at,       \* the request: idle, ack, running, finishing, failing
  partial,  \* text is waiting for the end of its sentence
  clips,    \* the sentences queued for speech
  audio,    \* the clips sent to the client
  drone,    \* the client is told to play the ambient bed
  charged,  \* usage records: sentences per provider
  owed,     \* history: sentences synthesized per provider
  acks,     \* the cached acknowledgment: the voice it was made with, or none
  heardAck, \* history: voices of acknowledgments played, and of the settings at that time
  tts,      \* the persisted provider and voice; "env" where nothing is persisted
  sttModel, \* the persisted transcription model
  bound,    \* voice-engines.json: the engine bound to each role
  replies, changes

tapeVars == <<meta, text, process, diar, asked, filed, edited, removed, faults>>

Absent == <<>>
NoText == [by |-> "none", chunks |-> <<>>]
Fields == {"title", "description"}
Idle == [step |-> "idle", chunk |-> 0, tried |-> 0, failed |-> 0, got |-> <<>>,
         segs |-> <<>>, known |-> {}]
Statuses == {"uploaded", "transcribing", "transcribed", "diarizing", "enriched", "error"}
Running == {"chunks", "summary"}

TapeTypeOK ==
  /\ meta # Absent =>
       /\ meta.status \in Statuses
       /\ meta.title \in {"none", "given", "ai", "user"}
       /\ meta.description \in {"none", "ai", "user"}
       /\ meta.ai_locked \subseteq Fields
       /\ meta.diarized \in BOOLEAN
  /\ text.by \in {"none", "plain", "diarized"}
  /\ process.step \in {"idle", "ended"} \cup Running
  /\ \A d \in Diars : diar[d].step \in {"idle", "chunks", "ended"}
  /\ asked \in [Asks -> {"idle", "summary", "ended"}]
  /\ edited \subseteq Fields /\ removed \in BOOLEAN

TapeInit ==
  /\ meta = Absent /\ text = NoText /\ process = Idle
  /\ diar = [d \in Diars |-> Idle] /\ asked = [a \in Asks |-> "idle"]
  /\ filed = 0 /\ edited = {} /\ removed = FALSE /\ faults = 0

Fault == faults < MaxFaults /\ faults' = faults + 1

-----------------------------------------------------------------------------
(* The store. *)

Locks_Replaced(m, ai_locked) == ai_locked
\* The locks of a patch are added to the ones the record has.
Locks(m, ai_locked) == m.ai_locked \cup ai_locked

Blank == [status |-> "uploaded", title |-> "none", description |-> "none", ai_locked |-> {},
          diarized |-> FALSE, summarised |-> FALSE, segs |-> <<>>]

\* recordings.update: a patch f of the record, its locks merged; nothing when there is none.
Patched(f(_), ai_locked) ==
  IF meta = Absent THEN Absent ELSE [f(meta) EXCEPT !.ai_locked = Locks(meta, ai_locked)]
Status(m, status) == [m EXCEPT !.status = status]
Update(f(_)) == meta' = Patched(f, {})

SetTranscript_Unchecked(by, chunks) == text' = [by |-> by, chunks |-> chunks]
\* recordings.setTranscript: nothing when the record is gone.
SetTranscript(by, chunks) ==
  text' = IF meta = Absent THEN text ELSE [by |-> by, chunks |-> chunks]

-----------------------------------------------------------------------------
(* processRecording and transcribeLong. *)

\* POST /v2/recordings: create, then processRecording up to its first await.
upload(title) ==
  /\ meta = Absent /\ ~removed
  /\ meta' = [Blank EXCEPT !.title = title, !.status = "transcribing"]
  /\ process' = [Idle EXCEPT !.step = "chunks"]
  /\ UNCHANGED <<text, diar, asked, filed, edited, removed, faults>>

Said(j, spoken) == IF spoken THEN Append(j.got, j.chunk) ELSE j.got

\* One chunk answered, with words in it or none; after the last one the transcript and the
\* status are written, and the summary is asked for unless the transcript is blank.
chunkDone(spoken) ==
  /\ process.step = "chunks"
  /\ LET got == Said(process, spoken)
     IN  IF process.chunk + 1 < Chunks
         THEN process' = [process EXCEPT !.chunk = @ + 1, !.got = got] /\ UNCHANGED <<meta, text>>
         ELSE /\ SetTranscript("plain", got)
              /\ Update(LAMBDA m : Status(m, "transcribed"))
              /\ process' = [process EXCEPT !.chunk = @ + 1, !.got = got,
                                          !.step = IF got = <<>> THEN "ended" ELSE "summary"]
  /\ UNCHANGED <<diar, asked, filed, edited, removed, faults>>

\* A chunk's call, or the summary's, throws: both end in the same catch.
processFails ==
  /\ process.step \in Running /\ Fault
  /\ Update(LAMBDA m : Status(m, "error"))
  /\ process' = [process EXCEPT !.step = "ended"]
  /\ UNCHANGED <<text, diar, asked, filed, edited, removed>>

Locked_Ignored(m, f) == FALSE
\* enrichRecording reads the locks after the summary was awaited.
Locked(m, f) == f \in m.ai_locked

Enriched(m) ==
  [m EXCEPT !.status = "enriched", !.summarised = TRUE,
            !.title = IF Locked(m, "title") THEN @ ELSE "ai",
            !.description = IF Locked(m, "description") THEN @ ELSE "ai"]

summaryDone ==
  /\ process.step = "summary"
  /\ Update(Enriched)
  /\ process' = [process EXCEPT !.step = "ended"]
  /\ UNCHANGED <<text, diar, asked, filed, edited, removed, faults>>

-----------------------------------------------------------------------------
(* POST .../diarize and transcribeLongDiarized. *)

diarize(d) ==
  /\ meta # Absent /\ diar[d] = Idle
  /\ diar' = [diar EXCEPT ![d].step = "chunks"]
  /\ Update(LAMBDA m : Status(m, "diarizing"))
  /\ UNCHANGED <<text, process, asked, filed, edited, removed, faults>>

Offset_Kept(j) == j.chunk - j.failed
\* Segment times are moved by the chunk's index, failed chunks included.
Offset(j) == j.chunk

\* The label of a voice: the one of the first chunk when its reference clip is sent along,
\* otherwise one of this chunk's own numbering.
Label(j, v) == IF v \in j.known THEN <<0, v>> ELSE <<j.chunk, v>>
Heard(j, vs) == {[voice |-> v, in |-> j.chunk, at |-> Offset(j), label |-> Label(j, v)] : v \in vs}

\* The references come from chunk 0 and from no other.
Seeded(j, vs) == IF j.chunk = 0 /\ Chunks > 1 THEN vs ELSE j.known

\* After the last chunk: all failed is an error, otherwise transcript and segments are stored.
Finish(d, j) ==
  IF j.chunk < Chunks
  THEN diar' = [diar EXCEPT ![d] = j] /\ UNCHANGED <<meta, text>>
  ELSE /\ diar' = [diar EXCEPT ![d] = [j EXCEPT !.step = "ended"]]
       /\ IF j.failed = Chunks
          THEN Update(LAMBDA m : Status(m, "error")) /\ UNCHANGED text
          ELSE /\ SetTranscript("diarized", j.got)
               /\ Update(LAMBDA m : [m EXCEPT !.status = "enriched", !.diarized = TRUE,
                                              !.segs = j.segs])

\* stt.transcribeDiarized answered for the next chunk: the voices vs speak in it.
diarized(d, vs) ==
  LET j == diar[d]
  IN  /\ j.step = "chunks"
      /\ Finish(d, [j EXCEPT !.chunk = @ + 1, !.tried = 0, !.got = Said(j, vs # {}),
                             !.segs = Append(@, Heard(j, vs)), !.known = Seeded(j, vs)])
      /\ UNCHANGED <<process, asked, filed, edited, removed, faults>>

\* The call failed or timed out: once more, then the chunk is left out.
diarizeFails(d) ==
  LET j == diar[d]
  IN  /\ j.step = "chunks" /\ Fault
      /\ IF j.tried = 0
         THEN diar' = [diar EXCEPT ![d].tried = 1] /\ UNCHANGED <<meta, text>>
         ELSE Finish(d, [j EXCEPT !.chunk = @ + 1, !.tried = 0, !.failed = @ + 1])
      /\ UNCHANGED <<process, asked, filed, edited, removed>>

-----------------------------------------------------------------------------
(* What the user does meanwhile. *)

\* POST .../enrich, with a transcript to summarise.
enrich(a) ==
  /\ meta # Absent /\ asked[a] = "idle" /\ text.chunks # <<>>
  /\ asked' = [asked EXCEPT ![a] = "summary"]
  /\ UNCHANGED <<meta, text, process, diar, filed, edited, removed, faults>>

enrichDone(a) ==
  /\ asked[a] = "summary"
  /\ Update(Enriched)
  /\ asked' = [asked EXCEPT ![a] = "ended"]
  /\ UNCHANGED <<text, process, diar, filed, edited, removed, faults>>

\* Its failure is answered with a 500 and changes nothing.
enrichFails(a) ==
  /\ asked[a] = "summary" /\ Fault
  /\ asked' = [asked EXCEPT ![a] = "ended"]
  /\ UNCHANGED <<meta, text, process, diar, filed, edited, removed>>

\* PATCH: an edited field is the user's, and locked.
edit(fs) ==
  /\ meta # Absent /\ fs # {}
  /\ meta' = Patched(LAMBDA m : [m EXCEPT !.title = IF "title" \in fs THEN "user" ELSE @,
                                          !.description = IF "description" \in fs THEN "user" ELSE @],
                     fs)
  /\ edited' = edited \cup fs
  /\ UNCHANGED <<text, process, diar, asked, filed, removed, faults>>

\* POST .../to-stream: one event, the transcript as it is now.
toStream ==
  /\ meta # Absent /\ filed < 1
  /\ filed' = filed + 1
  /\ UNCHANGED <<meta, text, process, diar, asked, edited, removed, faults>>

\* DELETE: the directory goes, whatever runs on it.
remove ==
  /\ meta # Absent
  /\ meta' = Absent /\ text' = NoText /\ removed' = TRUE
  /\ UNCHANGED <<process, diar, asked, filed, edited, faults>>

\* The core restarts: nothing resumes a job.
restart ==
  /\ Fault
  /\ process' = IF process.step \in Running THEN [process EXCEPT !.step = "ended"] ELSE process
  /\ diar' = [d \in Diars |-> IF diar[d].step = "chunks" THEN [diar[d] EXCEPT !.step = "ended"]
                                                         ELSE diar[d]]
  /\ asked' = [a \in Asks |-> IF asked[a] = "summary" THEN "ended" ELSE asked[a]]
  /\ UNCHANGED <<meta, text, filed, edited, removed>>

TapeNext ==
  \/ \E title \in {"none", "given"} : upload(title)
  \/ \E spoken \in BOOLEAN : chunkDone(spoken)
  \/ processFails \/ summaryDone
  \/ \E d \in Diars : diarize(d) \/ diarizeFails(d)
  \/ \E d \in Diars, vs \in SUBSET Speakers : diarized(d, vs)
  \/ \E a \in Asks : enrich(a) \/ enrichDone(a) \/ enrichFails(a)
  \/ \E fs \in SUBSET Fields : edit(fs)
  \/ toStream \/ remove \/ restart

---------------------------------------------------------------------------
voiceVars == <<at, partial, clips, audio, drone, charged, owed, acks, heardAck, tts, sttModel, bound,
          replies, changes>>
speech == <<at, partial, clips, audio, drone, charged, owed, acks, heardAck, replies>>
settings == <<tts, sttModel, bound, changes>>

Providers == {"openai", "elevenlabs"}
\* A voice is known by the provider it belongs to.
Voices == Providers
Synthesizers == [e \in {"openai-tts", "elevenlabs"} |-> IF e = "elevenlabs" THEN e ELSE "openai"]
Transcribers == {"openai-transcribe", "openai-transcribe-diarize", "deepgram", "local-whisper"}
Implemented == {"openai-tts", "elevenlabs", "openai-transcribe", "openai-transcribe-diarize"}

VoiceTypeOK ==
  /\ at \in {"idle", "ack", "running", "finishing", "failing"}
  /\ partial \in BOOLEAN /\ drone \in BOOLEAN
  /\ clips \in Seq([st : {"making", "made", "failed"}, by : Providers, voice : Voices])
  /\ \A i \in DOMAIN audio : audio[i] \in DOMAIN clips
  /\ charged \in [Providers -> Nat] /\ owed \in [Providers -> Nat]
  /\ acks \in Voices \cup {"none"} /\ heardAck \subseteq Voices \X Voices
  /\ tts \in [provider : Providers \cup {"env"}, voice : Voices \cup {"env"}]
  /\ sttModel \in Transcribers
  /\ bound \in [synthesize : DOMAIN Synthesizers \cup {"none"}, transcribe : Transcribers \cup {"none"}]

Zero == [p \in Providers |-> 0]

VoiceInit ==
  /\ at = "idle" /\ partial = FALSE /\ clips = <<>> /\ audio = <<>> /\ drone = FALSE
  /\ charged = Zero /\ owed = Zero /\ acks = "none" /\ heardAck = {}
  /\ tts = [provider |-> "env", voice |-> "env"] /\ sttModel = "openai-transcribe"
  /\ bound = [synthesize |-> "openai-tts", transcribe |-> "openai-transcribe"]
  /\ replies = 0 /\ changes = 0

-----------------------------------------------------------------------------
(* The voice in use. *)

\* tts.config: persisted, else the environment, here the provider's own defaults.
Provider == IF tts.provider = "env" THEN "openai" ELSE tts.provider
Voice == IF tts.voice = "env" THEN Provider ELSE tts.voice

\* voice-engines resolve: the engine bound to the role, else the first that fills it.
Resolved == IF bound.synthesize = "none" THEN "openai-tts" ELSE bound.synthesize

\* POST /v2/voice/engines/bind: the binding, and the live settings where its adapter exists.
bindSynthesize(e) ==
  /\ changes < MaxChanges /\ changes' = changes + 1
  /\ bound' = [bound EXCEPT !.synthesize = e]
  /\ tts' = IF e = "none" THEN tts ELSE [tts EXCEPT !.provider = Synthesizers[e]]
  /\ UNCHANGED <<sttModel, speech>>

bindTranscribe(e) ==
  /\ changes < MaxChanges /\ changes' = changes + 1
  /\ bound' = [bound EXCEPT !.transcribe = e]
  /\ sttModel' = IF e \in Implemented THEN e ELSE sttModel
  /\ UNCHANGED <<tts, speech>>

\* POST /v2/voice/config: the live settings, not the bindings.
setConfig(provider, voice) ==
  /\ changes < MaxChanges /\ changes' = changes + 1
  /\ tts' = [provider |-> provider, voice |-> voice]
  /\ UNCHANGED <<sttModel, bound, speech>>

-----------------------------------------------------------------------------
(* speaker.js. *)

\* A sentence is queued and its synthesis begins, under the settings of the moment.
Enqueued == Append(clips, [st |-> "making", by |-> Provider, voice |-> Voice])
Owe == owed' = [owed EXCEPT ![Provider] = @ + 1]

\* A delta: it leaves text waiting, completes a sentence, or completes one with nothing
\* speakable in it.
pushDelta(kind) ==
  /\ at = "running"
  /\ partial' = (kind = "waiting")
  /\ IF kind = "sentence" THEN Len(clips) < MaxSentences /\ clips' = Enqueued /\ Owe
                          ELSE UNCHANGED <<clips, owed>>
  /\ UNCHANGED <<at, audio, drone, charged, acks, heardAck, replies, settings>>

\* The provider answered for clip i, or failed; it fails for another provider's voice.
synthesized(i, st) ==
  /\ i \in DOMAIN clips /\ clips[i].st = "making" /\ st # "making"
  /\ st = "made" => clips[i].voice = clips[i].by
  /\ clips' = [clips EXCEPT ![i].st = st]
  /\ UNCHANGED <<at, partial, audio, drone, charged, owed, acks, heardAck, replies, settings>>

Due_AnyReady == {i \in DOMAIN clips : clips[i].st # "making" /\ \A n \in DOMAIN audio : audio[n] # i}
\* The emit chain: the clip whose turn it is, once it is there.
Due == {i \in {Len(audio) + 1} \cap DOMAIN clips : clips[i].st # "making"}

StopDrone_OnAudio == drone
StopDrone == FALSE

\* onAudio: an audio frame, or an audio-error; the first one stops the drone.
emitted(i) ==
  /\ i \in Due /\ audio' = Append(audio, i) /\ drone' = FALSE
  /\ UNCHANGED <<at, partial, clips, charged, owed, acks, heardAck, replies, settings>>

-----------------------------------------------------------------------------
(* POST /v2/speak. *)

\* The cues go out at once; an acknowledgment, when it is wanted, is waited for.
speak(ack) ==
  /\ at = "idle" /\ replies < MaxReplies /\ replies' = replies + 1
  /\ at' = IF ack THEN "ack" ELSE "running"
  /\ drone' = TRUE /\ partial' = FALSE /\ clips' = <<>> /\ audio' = <<>>
  /\ charged' = Zero /\ owed' = Zero
  /\ UNCHANGED <<acks, heardAck, settings>>

\* getAckClip: from the cache, or made now and kept; a failure is only logged.
acknowledged(ok) ==
  /\ at = "ack" /\ at' = "running"
  /\ LET voice == IF acks # "none" THEN acks ELSE Voice
     IN  IF ok /\ (acks # "none" \/ Voice = Provider)
         THEN acks' = voice /\ heardAck' = heardAck \cup {<<voice, Voice>>}
         ELSE UNCHANGED <<acks, heardAck>>
  /\ UNCHANGED <<partial, clips, audio, drone, charged, owed, replies, settings>>

\* finish: the text still waiting is spoken as well.
Rest == IF partial THEN clips' = Enqueued /\ Owe ELSE UNCHANGED <<clips, owed>>

\* emitSpeakUsage: every character so far, priced for the provider configured now.
Charge == charged' = [charged EXCEPT ![Provider] = @ + Len(clips)]

dispatched ==
  /\ at = "running" /\ at' = "finishing" /\ partial' = FALSE
  /\ Rest
  /\ UNCHANGED <<audio, drone, charged, acks, heardAck, replies, settings>>

\* The turn failed: what was synthesized so far is charged, then the rest is spoken.
dispatchFails ==
  /\ at = "running" /\ at' = "failing" /\ partial' = FALSE
  /\ Charge /\ Rest
  /\ UNCHANGED <<audio, drone, acks, heardAck, replies, settings>>

Flushed == Len(audio) = Len(clips)
\* Every clip is out: the done frame, or the error frame, ends the response.
ends ==
  /\ at \in {"finishing", "failing"} /\ Flushed
  /\ at' = "idle" /\ drone' = StopDrone
  /\ IF at = "finishing" THEN Charge ELSE UNCHANGED charged
  /\ UNCHANGED <<partial, clips, audio, owed, acks, heardAck, replies, settings>>

VoiceNext ==
  \/ \E e \in DOMAIN Synthesizers \cup {"none"} : bindSynthesize(e)
  \/ \E e \in Transcribers \cup {"none"} : bindTranscribe(e)
  \/ \E p \in Providers \cup {"env"}, v \in Voices \cup {"env"} : setConfig(p, v)
  \/ \E ack \in BOOLEAN : speak(ack) \/ acknowledged(ack)
  \/ \E kind \in {"waiting", "sentence", "unspeakable"} : pushDelta(kind)
  \/ \E i \in 1..(MaxSentences + 1), st \in {"made", "failed"} : synthesized(i, st)
  \/ \E i \in 1..(MaxSentences + 1) : emitted(i)
  \/ dispatched \/ dispatchFails \/ ends

---------------------------------------------------------------------------
vars == <<scene, tapeVars, voiceVars>>

TypeOK == scene \in {"tape", "voice"} /\ TapeTypeOK /\ VoiceTypeOK

Init ==
  /\ scene \in {"tape", "voice"} /\ TapeInit /\ VoiceInit

Next ==
  /\ UNCHANGED scene
  /\ \/ scene = "tape" /\ TapeNext /\ UNCHANGED voiceVars
     \/ scene = "voice" /\ VoiceNext /\ UNCHANGED tapeVars

Spec == Init /\ [][Next]_vars

---------------------------------------------------------------------------
\* A title or description the user edited is never replaced by the AI's, however the edits,
\* the background summaries and the re-runs interleave (enrichRecording's ai_locked, and the
\* merge of locks in recordings.update).
EditedStays == meta # Absent => \A f \in edited : meta[f] = "user"

\* A deleted recording stays deleted: no job that outlives it writes its directory again.
RemovedStaysRemoved == removed => meta = Absent /\ text = NoText

\* Every stored segment carries the time of the chunk it was heard in, chunks that were
\* skipped before it included (transcribeLongDiarized's offsets).
SegmentsInPlace ==
  meta # Absent => \A n \in DOMAIN meta.segs : \A s \in meta.segs[n] : s.at = s.in

-----------------------------------------------------------------------------
(* Claims of the code and its comments that do not hold (README, section 5). *)

\* server.js: status moves uploaded, transcribing, transcribed, enriched or error: a
\* recording said to be worked on has a job working on it.
WorkedOn ==
  /\ meta # Absent /\ meta.status = "transcribing" => process.step = "chunks"
  /\ meta # Absent /\ meta.status = "diarizing" => \E d \in Diars : diar[d].step = "chunks"
\* Only an enriched recording says so.
EnrichedMeansIt == meta # Absent /\ meta.status = "enriched" => meta.summarised
\* The transcript of a diarized recording is the diarized one.
TextMatchesSegments == meta # Absent /\ meta.diarized => text.by = "diarized"
\* A recording with a complete transcript is not one that failed.
FailedHasNoText == meta # Absent /\ meta.status = "error" => text = NoText
\* transcribe-long.js: a voice keeps one label across the whole file.
OneLabel ==
  meta # Absent =>
    \A m, n \in DOMAIN meta.segs : \A s \in meta.segs[m], t \in meta.segs[n] :
      s.voice = t.voice => s.label = t.label

\* The sentences are heard in the order they were written, each one once, although they are
\* synthesized at the same time; and the response ends only after the last of them, with the
\* drone stopped even when nothing was said (speaker.js, POST /v2/speak).
SpokenInOrder ==
  /\ \A i \in DOMAIN audio : audio[i] = i
  /\ at = "idle" => Len(audio) = Len(clips) /\ ~drone

\* A reply that succeeded is charged for every sentence it synthesized, no more and no fewer.
Sum(f) == f["openai"] + f["elevenlabs"]
ChargedOnce ==
  [][at = "finishing" /\ at' = "idle" => Sum(charged') = Sum(owed)]_vars

-----------------------------------------------------------------------------
(* Claims of the code and its comments that do not hold (README, section 5). *)

\* The characters synthesized are priced for the provider that synthesized them.
ChargedRight == [][at # "idle" /\ at' = "idle" => charged' = owed]_vars
\* "Applies to the next clip, no restart."
AckIsCurrent == \A p \in heardAck : p[1] = p[2]
\* stt.js, tts.js "read the binding": the voice in use is the one of the bound engine.
BindingIsLive == Provider = Synthesizers[Resolved]
\* Switching the provider never leaves a setting behind that it refuses.
VoiceFits == Voice = Provider
\* The diarizing model needs its own request; the transcription that is live is a plain one.
TranscribeWorks == sttModel # "openai-transcribe-diarize"
=============================================================================

------------------------------- MODULE Uploads -------------------------------
(***************************************************************************)
(* Chunked uploads: the dashboard's uploader (services/api.js), the routes  *)
(* of core/src/upload-routes.js and the store behind them                   *)
(* (shared/uploads.js).  Requests may be lost or arrive late, answers may   *)
(* be lost, a chunk's write may be cut short, the core may die between any  *)
(* two file operations of a finish, and a sweep removes old staging.        *)
(***************************************************************************)
EXTENDS Integers, FiniteSets, TLAPS

CONSTANTS
  Files,        \* files being uploaded, which are also upload ids
  Chunks,       \* chunks per file
  Attempts,     \* tries of one chunk
  MaxFaults     \* bound: requests and answers lost, writes cut short, crashes

ASSUME Bounds == Chunks \in Nat \ {0} /\ Attempts \in Nat \ {0} /\ MaxFaults \in Nat

VARIABLES
  uploader,   \* the browser's upload(): what it waits for
  requests,   \* requests on their way
  answers,    \* answers on their way
  staging,    \* per upload: the staged parts, or Gone
  begun,      \* uploads whose id was minted
  old,        \* staging directories last changed before the sweep's cutoff
  stored,     \* files at their final place: the parts they were made of
  manifest,   \* files whose line of the manifest reads
  torn,       \* the manifest ends in the middle of a line
  appended,   \* files whose line was written whole
  faults

vars == <<uploader, requests, answers, staging, begun, old, stored, manifest, torn, appended, faults>>
index == <<manifest, torn, appended>>

Waiting == [on : {"put"}, i : 1..Chunks, try : 1..Attempts]
             \cup [on : {"finish", "delete"}, i : {0}, try : {1}]
At(on) == [on |-> on, i |-> 0, try |-> 1]
Put(i, try) == [on |-> "put", i |-> i, try |-> try]
Idle == At("idle")
Ok == At("ok")
Failed == At("failed")
Request == [of : Files, what : Waiting]
Answer == [of : Files, what : Waiting, status : {200, 404, 409, 422, 500}]

PartStates == {"missing", "short", "whole"}
NoParts == [i \in 1..Chunks |-> "missing"]
WholeParts == [i \in 1..Chunks |-> "whole"]
Gone == <<>>  \* no such file or directory

TypeOK ==
  /\ uploader \in [Files -> Waiting \cup {Idle, Ok, Failed}]
  /\ requests \subseteq Request /\ answers \subseteq Answer
  /\ staging \in [Files -> [1..Chunks -> PartStates] \cup {Gone}]
  /\ stored \in [Files -> [1..Chunks -> PartStates] \cup {Gone}]
  /\ begun \subseteq Files /\ old \subseteq begun /\ manifest \subseteq begun /\ torn \in BOOLEAN
  /\ appended \subseteq begun /\ faults \in 0..MaxFaults

Init ==
  /\ uploader = [f \in Files |-> Idle]
  /\ requests = {} /\ answers = {}
  /\ staging = [f \in Files |-> Gone] /\ begun = {} /\ old = {}
  /\ stored = [f \in Files |-> Gone] /\ manifest = {} /\ torn = FALSE /\ appended = {}
  /\ faults = 0

Fault == faults < MaxFaults /\ faults' = faults + 1

---------------------------------------------------------------------------
(* The browser.  It makes one request at a time, and forgets an answer that *)
(* comes after it gave up waiting.                                          *)

Ask(f, what) ==
  /\ uploader' = [uploader EXCEPT ![f] = what]
  /\ requests' = requests \cup {[of |-> f, what |-> what]}

beginChunked_SameId(f) ==
  /\ uploader[f] \in {Idle, Failed}
  /\ staging' = [staging EXCEPT ![f] = NoParts]
  /\ begun' = begun \cup {f}
  /\ Ask(f, Put(1, 1))
  /\ UNCHANGED <<answers, old, stored, index, faults>>

\* POST /v2/upload/init, whose answer carries the id: nothing can be done without it.
beginChunked(f) ==
  /\ uploader[f] = Idle
  /\ staging' = [staging EXCEPT ![f] = NoParts]
  /\ begun' = begun \cup {f}
  /\ Ask(f, Put(1, 1))
  /\ UNCHANGED <<answers, old, stored, index, faults>>

withRetry_OneMore(f, what, refused) ==
  IF ~refused /\ what.on = "put" /\ what.try <= Attempts
  THEN Ask(f, Put(what.i, what.try + 1))
  ELSE Ask(f, At("delete"))

\* withRetry: give up at once on a refusal, else try the chunk again while tries are left;
\* upload's catch gives the staging back.
withRetry(f, what, refused) ==
  IF ~refused /\ what.on = "put" /\ what.try < Attempts
  THEN Ask(f, Put(what.i, what.try + 1))
  ELSE Ask(f, At("delete"))

\* upload(), resumed by the answer it waits for.
upload(f) ==
  \E a \in answers :
    /\ a.of = f /\ a.what = uploader[f]
    /\ answers' = answers \ {a}
    /\ \/ /\ a.what.on = "put" /\ a.status = 200
          /\ Ask(f, IF a.what.i < Chunks THEN Put(a.what.i + 1, 1) ELSE At("finish"))
       \/ /\ a.what.on \in {"put", "finish"} /\ a.status # 200
          /\ withRetry(f, a.what, a.status < 500)
       \/ /\ a.what = At("finish") /\ a.status = 200
          /\ uploader' = [uploader EXCEPT ![f] = Ok] /\ UNCHANGED requests
       \/ /\ a.what = At("delete")
          /\ uploader' = [uploader EXCEPT ![f] = Failed] /\ UNCHANGED requests
    /\ UNCHANGED <<staging, begun, old, stored, index, faults>>

\* putChunk's timeout, or a network error: the request may still arrive.
timesOut(f) ==
  /\ uploader[f] \in Waiting /\ Fault
  /\ IF uploader[f] = At("delete")
     THEN uploader' = [uploader EXCEPT ![f] = Failed] /\ UNCHANGED requests
     ELSE withRetry(f, uploader[f], FALSE)
  /\ UNCHANGED <<answers, staging, begun, old, stored, index>>

\* The tab is closed.
leaves(f) ==
  /\ uploader[f] \in Waiting /\ Fault
  /\ uploader' = [uploader EXCEPT ![f] = Failed]
  /\ UNCHANGED <<requests, answers, staging, begun, old, stored, index>>

---------------------------------------------------------------------------
(* The core: each handler is synchronous.                                   *)

Reply(m, status) ==
  /\ requests' = requests \ {m}
  /\ answers' = answers \cup {[of |-> m.of, what |-> m.what, status |-> status]}

\* readMeta: no staging directory, or no id of ours, is an upload nobody knows.
Known(f) == staging[f] # Gone
receivedIndices(f) == {i \in 1..Chunks : staging[f][i] # "missing"}

\* PUT /v2/upload/:id/:index: a new file in the directory makes it young again; overwriting
\* one does not.  The write may fail half-way.
putChunk(m) ==
  LET f == m.of
      i == m.what.i IN
    /\ m \in requests /\ m.what.on = "put"
    /\ IF ~Known(f)
       THEN Reply(m, 404) /\ UNCHANGED <<staging, old, faults>>
       ELSE /\ old' = IF i \notin receivedIndices(f) THEN old \ {f} ELSE old
            /\ \/ /\ staging' = [staging EXCEPT ![f][i] = "whole"]
                  /\ Reply(m, 200) /\ UNCHANGED faults
               \/ /\ staging' = [staging EXCEPT ![f][i] = "short"]
                  /\ Reply(m, 500) /\ Fault
    /\ UNCHANGED <<uploader, begun, stored, index>>

discard(f) == staging' = [staging EXCEPT ![f] = Gone] /\ old' = old \ {f}

SizeMatches_Unchecked(f) == TRUE
SizeMatches(f) == staging[f] = WholeParts

\* readManifest skips what does not parse: a line appended to a torn one is lost with it.
readManifest(f) == IF torn THEN manifest ELSE manifest \cup {f}

\* saveFrom and register: rename into place, then append to the manifest, which may fail,
\* half-way or at once, without failing the upload.
saveFrom(f) ==
  /\ stored' = [stored EXCEPT ![f] = staging[f]]
  /\ \/ manifest' = readManifest(f) /\ torn' = FALSE /\ appended' = appended \cup {f}
        /\ UNCHANGED faults
     \/ UNCHANGED <<manifest, appended>> /\ torn' \in {torn, TRUE} /\ Fault

\* POST /v2/upload/:id/finish.
finishChunked(m) ==
  LET f == m.of IN
    /\ m \in requests /\ m.what.on = "finish"
    /\ \/ /\ ~Known(f) /\ Reply(m, 404)
          /\ UNCHANGED <<staging, old, stored, index, faults>>
       \/ /\ Known(f) /\ receivedIndices(f) # 1..Chunks
          /\ Reply(m, 409) /\ UNCHANGED <<staging, old, stored, index, faults>>
       \/ /\ Known(f) /\ receivedIndices(f) = 1..Chunks
          /\ IF SizeMatches(f)
             THEN saveFrom(f) /\ Reply(m, 200)
             ELSE Reply(m, 422) /\ UNCHANGED <<stored, index, faults>>
          /\ discard(f)
    /\ UNCHANGED <<uploader, begun>>

\* DELETE /v2/upload/:id.
abortChunked(m) ==
  /\ m \in requests /\ m.what.on = "delete"
  /\ Reply(m, 200) /\ discard(m.of)
  /\ UNCHANGED <<uploader, begun, stored, index, faults>>

\* The core dies: while it writes a chunk or finishes an upload (after the rename, or after
\* the manifest's line), or in between requests.  The requests it had are lost.
crash ==
  /\ Fault
  /\ \/ UNCHANGED <<staging, stored, index>>
     \/ \E m \in requests : /\ m.what.on = "put" /\ staging[m.of] # Gone
                            /\ staging' = [staging EXCEPT ![m.of][m.what.i] = "short"]
                            /\ UNCHANGED <<stored, index>>
     \/ \E m \in requests : /\ m.what.on = "finish" /\ staging[m.of] # Gone
                            /\ SizeMatches(m.of)
                            /\ stored' = [stored EXCEPT ![m.of] = staging[m.of]]
                            /\ \/ manifest' = readManifest(m.of) /\ torn' = FALSE
                                  /\ appended' = appended \cup {m.of}
                               \/ UNCHANGED <<manifest, appended>> /\ torn' \in {torn, TRUE}
                            /\ UNCHANGED staging
  /\ requests' = {}
  /\ UNCHANGED <<uploader, answers, begun, old>>

\* A day passes for a staging directory, and the sweep removes it.
ages(f) ==
  /\ staging[f] # Gone /\ f \notin old /\ old' = old \cup {f}
  /\ UNCHANGED <<uploader, requests, answers, staging, begun, stored, index, faults>>
sweepPartials(f) ==
  /\ f \in old /\ discard(f)
  /\ UNCHANGED <<uploader, requests, answers, begun, stored, index, faults>>

\* A request or an answer is lost.
lose ==
  /\ Fault
  /\ \/ \E m \in requests : requests' = requests \ {m} /\ UNCHANGED answers
     \/ \E a \in answers : answers' = answers \ {a} /\ UNCHANGED requests
  /\ UNCHANGED <<uploader, staging, begun, old, stored, index>>

Next ==
  \/ \E f \in Files : beginChunked(f) \/ upload(f) \/ timesOut(f) \/ leaves(f)
                        \/ ages(f) \/ sweepPartials(f)
  \/ \E m \in requests : putChunk(m) \/ finishChunked(m) \/ abortChunked(m)
  \/ crash \/ lose

Spec == Init /\ [][Next]_vars

---------------------------------------------------------------------------
\* The manifest never lists a half-written file, and a user who was told the upload worked
\* has the whole file, whatever was lost, retried or cut short.
OnlyWholeFiles ==
  \A f \in Files : f \in manifest \/ uploader[f] = Ok => stored[f] = WholeParts

\* What was given back stays away: a chunk that arrives after the upload was finished,
\* deleted or swept does not bring its staging back.
DiscardIsFinal ==
  [][\A f \in begun : staging[f] = Gone => staging'[f] = Gone]_vars

\* A file whose line was written can be found by list, get and the session's summary.
AppendedIsFound == appended \subseteq manifest

\* A user who is told that the upload failed can send the file again without doubling it.
FailedIsNotKept == \A f \in Files : uploader[f] = Failed => f \notin manifest

---------------------------------------------------------------------------
(* Proofs, for any number of files, chunks, tries and faults: the inductive  *)
(* invariant.                                                                *)

\* What was renamed into place is whole, and the manifest lists nothing else.
WholeInv == \A f \in Files : stored[f] \in {Gone, WholeParts} /\ (f \in manifest => stored[f] = WholeParts)

\* The core says that an upload is finished, and the browser believes it, only when the file
\* is there.
ToldInv ==
  /\ \A a \in answers : a.what = At("finish") /\ a.status = 200 => stored[a.of] = WholeParts
  /\ \A f \in Files : uploader[f] = Ok => stored[f] = WholeParts

\* An id is minted once, and there is staging only for an id that was minted.
BegunInv == \A f \in Files : (staging[f] # Gone => f \in begun) /\ (f \in begun => uploader[f] # Idle)

IInv == TypeOK /\ WholeInv /\ ToldInv /\ BegunInv

---------------------------------------------------------------------------
(* What the browser may wait for.                                           *)

LEMMA Kinds ==
  /\ At("finish") \in Waiting /\ At("delete") \in Waiting
  /\ \A i \in 1..Chunks, try \in 1..Attempts : Put(i, try) \in Waiting
  /\ \A w \in Waiting : w # Idle /\ w # Ok /\ w # Failed
  /\ \A w \in Waiting : w.on = "put" => w.i \in 1..Chunks /\ w.try \in 1..Attempts
  /\ Ok # Failed /\ Ok # Idle /\ Failed # Idle
  BY DEF Waiting, At, Put, Idle, Ok, Failed

\* A whole file is a file: it is one of the things a final place may hold, and not nothing.
LEMMA Parts ==
  /\ WholeParts \in [1..Chunks -> PartStates] /\ NoParts \in [1..Chunks -> PartStates]
  /\ \A s \in [1..Chunks -> PartStates] : s # Gone
  <1>1. 1 \in 1..Chunks
    BY Bounds
  <1>2. ASSUME NEW s \in [1..Chunks -> PartStates] PROVE s # Gone
    <2>1. DOMAIN s # {} /\ DOMAIN Gone = {}
      BY <1>1 DEF Gone
    <2>. QED BY <2>1
  <1>. QED BY <1>2 DEF WholeParts, NoParts, PartStates

\* A step of the browser: it asks for something, or it is done.
LEMMA AskKeeps ==
  ASSUME IInv, NEW f \in Files, NEW w \in Waiting, Ask(f, w), answers' \subseteq answers,
         UNCHANGED <<staging, begun, old, stored, index>>, faults' \in 0..MaxFaults
  PROVE  IInv'
  <1>1. /\ uploader' = [uploader EXCEPT ![f] = w] /\ requests' = requests \cup {[of |-> f, what |-> w]}
        /\ staging' = staging /\ begun' = begun /\ old' = old /\ stored' = stored
        /\ manifest' = manifest /\ torn' = torn /\ appended' = appended
    BY DEF Ask, index
  <1>2. w # Ok /\ w # Idle
    BY Kinds
  <1>3. TypeOK'
    BY <1>1 DEF IInv, TypeOK, Request
  <1>4. WholeInv' /\ ToldInv' /\ BegunInv'
    BY <1>1, <1>2 DEF IInv, TypeOK, WholeInv, ToldInv, BegunInv
  <1>. QED BY <1>3, <1>4 DEF IInv

LEMMA EndKeeps ==
  ASSUME IInv, NEW f \in Files, NEW w \in {Ok, Failed}, uploader' = [uploader EXCEPT ![f] = w],
         w = Ok => stored[f] = WholeParts, requests' = requests, answers' \subseteq answers,
         UNCHANGED <<staging, begun, old, stored, index>>, faults' \in 0..MaxFaults
  PROVE  IInv'
  <1>1. /\ staging' = staging /\ begun' = begun /\ old' = old /\ stored' = stored
        /\ manifest' = manifest /\ torn' = torn /\ appended' = appended
    BY DEF index
  <1>2. w # Idle
    BY Kinds
  <1>3. TypeOK'
    BY <1>1 DEF IInv, TypeOK
  <1>4. WholeInv' /\ ToldInv' /\ BegunInv'
    BY <1>1, <1>2 DEF IInv, TypeOK, WholeInv, ToldInv, BegunInv
  <1>. QED BY <1>3, <1>4 DEF IInv

\* A fault is one more of a bounded number.
LEMMA Faulty == ASSUME TypeOK, Fault PROVE faults' \in 0..MaxFaults
  BY Bounds DEF TypeOK, Fault

LEMMA Retried ==
  ASSUME IInv, NEW f \in Files, NEW w \in Waiting, NEW b \in BOOLEAN, withRetry(f, w, b), answers' \subseteq answers,
         UNCHANGED <<staging, begun, old, stored, index>>, faults' \in 0..MaxFaults
  PROVE  IInv'
  <1>1. CASE ~b /\ w.on = "put" /\ w.try < Attempts
    <2>1. Put(w.i, w.try + 1) \in Waiting
      <3>1. w.i \in 1..Chunks /\ w.try \in 1..Attempts /\ w.try + 1 \in 1..Attempts
        BY <1>1, Kinds, Bounds
      <3>. QED BY <3>1, Kinds
    <2>2. Ask(f, Put(w.i, w.try + 1))
      BY <1>1 DEF withRetry
    <2>. QED BY <2>1, <2>2, AskKeeps
  <1>2. CASE ~(~b /\ w.on = "put" /\ w.try < Attempts)
    BY <1>2, AskKeeps, Kinds DEF withRetry
  <1>. QED BY <1>1, <1>2

---------------------------------------------------------------------------
(* The steps of the browser.                                                *)

LEMMA Begins == ASSUME IInv, NEW f \in Files, beginChunked(f) PROVE IInv'
  <1>1. /\ uploader' = [uploader EXCEPT ![f] = Put(1, 1)] /\ requests' = requests \cup {[of |-> f, what |-> Put(1, 1)]}
        /\ staging' = [staging EXCEPT ![f] = NoParts] /\ begun' = begun \cup {f}
        /\ answers' = answers /\ old' = old /\ stored' = stored
        /\ manifest' = manifest /\ torn' = torn /\ appended' = appended /\ faults' = faults
    BY DEF beginChunked, Ask, index
  <1>2. Put(1, 1) \in Waiting /\ Put(1, 1) # Ok /\ Put(1, 1) # Idle
    <2>1. 1 \in 1..Chunks /\ 1 \in 1..Attempts
      BY Bounds
    <2>. QED BY <2>1, Kinds
  <1>3. TypeOK'
    BY <1>1, <1>2, Parts DEF IInv, TypeOK, Request
  <1>4. WholeInv' /\ ToldInv' /\ BegunInv'
    BY <1>1, <1>2 DEF IInv, TypeOK, WholeInv, ToldInv, BegunInv
  <1>. QED BY <1>3, <1>4 DEF IInv

LEMMA Resumes == ASSUME IInv, NEW f \in Files, upload(f) PROVE IInv'
  <1>1. PICK a \in answers :
          /\ a.of = f /\ a.what = uploader[f]
          /\ answers' = answers \ {a}
          /\ \/ /\ a.what.on = "put" /\ a.status = 200
                /\ Ask(f, IF a.what.i < Chunks THEN Put(a.what.i + 1, 1) ELSE At("finish"))
             \/ /\ a.what.on \in {"put", "finish"} /\ a.status # 200
                /\ withRetry(f, a.what, a.status < 500)
             \/ /\ a.what = At("finish") /\ a.status = 200
                /\ uploader' = [uploader EXCEPT ![f] = Ok] /\ UNCHANGED requests
             \/ /\ a.what = At("delete")
                /\ uploader' = [uploader EXCEPT ![f] = Failed] /\ UNCHANGED requests
          /\ UNCHANGED <<staging, begun, old, stored, index, faults>>
    BY DEF upload
  <1>2. /\ a.what \in Waiting /\ answers' \subseteq answers /\ faults' \in 0..MaxFaults
        /\ UNCHANGED <<staging, begun, old, stored, index>>
    BY <1>1 DEF IInv, TypeOK, Answer
  <1>3. CASE a.what.on = "put" /\ a.status = 200 /\ Ask(f, IF a.what.i < Chunks THEN Put(a.what.i + 1, 1) ELSE At("finish"))
    <2>1. (IF a.what.i < Chunks THEN Put(a.what.i + 1, 1) ELSE At("finish")) \in Waiting
      <3>1. CASE a.what.i < Chunks
        <4>1. a.what.i \in 1..Chunks
          BY <1>2, <1>3, Kinds
        <4>2. a.what.i + 1 \in 1..Chunks /\ 1 \in 1..Attempts
          BY <3>1, <4>1, Bounds
        <4>. QED BY <3>1, <4>2, Kinds
      <3>2. CASE ~(a.what.i < Chunks)
        BY <3>2, Kinds
      <3>. QED BY <3>1, <3>2
    <2>. QED BY <1>2, <1>3, <2>1, AskKeeps
  <1>4. CASE withRetry(f, a.what, a.status < 500)
    <2>1. (a.status < 500) \in BOOLEAN
      OBVIOUS
    <2>. QED BY <1>2, <1>4, <2>1, Retried
  <1>5. CASE a.what = At("finish") /\ a.status = 200 /\ uploader' = [uploader EXCEPT ![f] = Ok] /\ UNCHANGED requests
    <2>1. stored[f] = WholeParts
      BY <1>1, <1>5 DEF IInv, ToldInv
    <2>. QED BY <1>2, <1>5, <2>1, EndKeeps
  <1>6. CASE uploader' = [uploader EXCEPT ![f] = Failed] /\ UNCHANGED requests
    BY <1>2, <1>6, EndKeeps, Kinds
  <1>. QED BY <1>1, <1>3, <1>4, <1>5, <1>6

LEMMA TimesOut == ASSUME IInv, NEW f \in Files, timesOut(f) PROVE IInv'
  <1>1. /\ uploader[f] \in Waiting /\ answers' \subseteq answers /\ faults' \in 0..MaxFaults
        /\ UNCHANGED <<staging, begun, old, stored, index>>
    BY Faulty DEF timesOut, IInv
  <1>2. CASE uploader[f] = At("delete")
    BY <1>1, <1>2, EndKeeps, Kinds DEF timesOut
  <1>3. CASE uploader[f] # At("delete")
    BY <1>1, <1>3, Retried DEF timesOut
  <1>. QED BY <1>2, <1>3

LEMMA Leaves == ASSUME IInv, NEW f \in Files, leaves(f) PROVE IInv'
  <1>1. /\ answers' \subseteq answers /\ faults' \in 0..MaxFaults /\ requests' = requests
        /\ UNCHANGED <<staging, begun, old, stored, index>> /\ uploader' = [uploader EXCEPT ![f] = Failed]
    BY Faulty DEF leaves, IInv
  <1>. QED BY <1>1, EndKeeps, Kinds

---------------------------------------------------------------------------
(* The steps of the core.                                                   *)

\* An answer says what was asked.
LEMMA Replied ==
  ASSUME TypeOK, NEW m \in requests, NEW status \in {200, 404, 409, 422, 500}, Reply(m, status)
  PROVE  /\ m.of \in Files /\ m.what \in Waiting
         /\ requests' \subseteq Request /\ answers' \subseteq Answer
         /\ \A a \in answers' : \/ a \in answers
                                \/ a.of = m.of /\ a.what = m.what /\ a.status = status
  BY DEF TypeOK, Request, Answer, Reply

\* Staging changes where there is some, or goes; what was stored and said stays.
LEMMA StagingKeeps ==
  ASSUME IInv, requests' \subseteq Request, answers' \subseteq Answer,
         \A a \in answers' : a \in answers \/ ~(a.what = At("finish") /\ a.status = 200),
         staging' \in [Files -> [1..Chunks -> PartStates] \cup {Gone}],
         \A f \in Files : staging[f] = Gone => staging'[f] = Gone,
         old' \subseteq begun, faults' \in 0..MaxFaults, UNCHANGED <<uploader, begun, stored, index>>
  PROVE  IInv'
  <1>1. TypeOK'
    BY DEF IInv, TypeOK, index
  <1>2. WholeInv' /\ ToldInv' /\ BegunInv'
    BY DEF IInv, WholeInv, ToldInv, BegunInv, index
  <1>. QED BY <1>1, <1>2 DEF IInv

LEMMA Puts == ASSUME IInv, NEW m \in requests, putChunk(m) PROVE IInv'
  <1> DEFINE f == m.of
             i == m.what.i
  <1>0. TypeOK /\ BegunInv
    BY DEF IInv
  <1>1. UNCHANGED <<uploader, begun, stored, index>> /\ m.what.on = "put"
    BY DEF putChunk
  <1>2. m.what # At("finish")
    BY <1>1 DEF At
  <1>3. m.of \in Files /\ m.what \in Waiting /\ m.what.i \in 1..Chunks
    BY <1>0, <1>1, Kinds DEF TypeOK, Request
  <1>4. CASE ~Known(f)
    <2>1. Reply(m, 404) /\ staging' = staging /\ old' = old /\ faults' = faults
      BY <1>4 DEF putChunk
    <2>2. requests' \subseteq Request /\ answers' \subseteq Answer
          /\ \A a \in answers' : a \in answers \/ ~(a.what = At("finish") /\ a.status = 200)
      BY <1>0, <1>2, <2>1, Replied
    <2>. QED BY <1>0, <1>1, <2>1, <2>2, StagingKeeps DEF TypeOK
  <1>5. CASE Known(f)
    <2>1. old' \subseteq begun
      BY <1>0, <1>5 DEF putChunk, TypeOK
    <2>2. PICK part \in {"whole", "short"} :
            staging' = [staging EXCEPT ![f][i] = part] /\ (Reply(m, 200) \/ Reply(m, 500))
      BY <1>5 DEF putChunk
    <2>3. faults' \in 0..MaxFaults
      BY <1>0, <1>5, Faulty DEF putChunk, TypeOK
    <2>4. requests' \subseteq Request /\ answers' \subseteq Answer
          /\ \A a \in answers' : a \in answers \/ ~(a.what = At("finish") /\ a.status = 200)
      BY <1>0, <1>2, <2>2, Replied
    <2>5. staging[f] \in [1..Chunks -> PartStates]
      BY <1>0, <1>3, <1>5 DEF TypeOK, Known
    <2>6. [staging[f] EXCEPT ![i] = part] \in [1..Chunks -> PartStates]
      BY <1>3, <2>5 DEF PartStates
    <2>7. staging' = [staging EXCEPT ![f] = [staging[f] EXCEPT ![i] = part]]
      BY <2>2
    <2>8. /\ staging' \in [Files -> [1..Chunks -> PartStates] \cup {Gone}]
          /\ \A g \in Files : staging[g] = Gone => staging'[g] = Gone
      BY <1>0, <1>3, <1>5, <2>6, <2>7 DEF TypeOK, Known
    <2>. QED BY <1>1, <2>1, <2>3, <2>4, <2>8, StagingKeeps
  <1>. QED BY <1>4, <1>5

LEMMA Aborts == ASSUME IInv, NEW m \in requests, abortChunked(m) PROVE IInv'
  <1>0. TypeOK
    BY DEF IInv
  <1>1. /\ UNCHANGED <<uploader, begun, stored, index>> /\ m.what.on = "delete" /\ faults' = faults
        /\ Reply(m, 200) /\ staging' = [staging EXCEPT ![m.of] = Gone] /\ old' = old \ {m.of}
    BY DEF abortChunked, discard
  <1>2. m.what # At("finish")
    BY <1>1 DEF At
  <1>3. requests' \subseteq Request /\ answers' \subseteq Answer
        /\ \A a \in answers' : a \in answers \/ ~(a.what = At("finish") /\ a.status = 200)
    BY <1>0, <1>1, <1>2, Replied
  <1>4. /\ staging' \in [Files -> [1..Chunks -> PartStates] \cup {Gone}]
        /\ \A g \in Files : staging[g] = Gone => staging'[g] = Gone
        /\ old' \subseteq begun /\ faults' \in 0..MaxFaults
    BY <1>0, <1>1 DEF TypeOK
  <1>. QED BY <1>1, <1>3, <1>4, StagingKeeps

\* A finish stores a file that is whole, before anyone is told and before its line is written.
LEMMA StoredKeeps ==
  ASSUME IInv, NEW f \in Files, staging[f] = WholeParts, stored' = [stored EXCEPT ![f] = staging[f]],
         manifest' \subseteq manifest \cup {f}, appended' \subseteq appended \cup {f}, torn' \in BOOLEAN,
         requests' \subseteq Request, answers' \subseteq Answer,
         \A a \in answers' : a \in answers \/ a.of = f,
         staging' \in [Files -> [1..Chunks -> PartStates] \cup {Gone}],
         \A g \in Files : staging[g] = Gone => staging'[g] = Gone,
         old' \subseteq begun, faults' \in 0..MaxFaults, UNCHANGED <<uploader, begun>>
  PROVE  IInv'
  <1>1. f \in begun
    BY Parts DEF IInv, BegunInv
  <1>2. stored' \in [Files -> [1..Chunks -> PartStates] \cup {Gone}] /\ stored'[f] = WholeParts
        /\ \A g \in Files : stored'[g] = stored[g] \/ stored'[g] = WholeParts
    BY Parts DEF IInv, TypeOK
  <1>3. TypeOK'
    BY <1>1, <1>2 DEF IInv, TypeOK
  <1>4. WholeInv'
    BY <1>2 DEF IInv, WholeInv
  <1>5. ToldInv' /\ BegunInv'
    <2>1. \A a \in answers : a.of \in Files
      BY DEF IInv, TypeOK, Answer
    <2>. QED BY <1>2, <2>1 DEF IInv, ToldInv, BegunInv
  <1>. QED BY <1>3, <1>4, <1>5 DEF IInv

LEMMA Finishes == ASSUME IInv, NEW m \in requests, finishChunked(m) PROVE IInv'
  <1> DEFINE f == m.of
  <1>0. TypeOK
    BY DEF IInv
  <1>1. m.of \in Files /\ m.what \in Waiting /\ uploader' = uploader /\ begun' = begun
    BY <1>0 DEF TypeOK, Request, finishChunked
  <1>2. ASSUME NEW status \in {404, 409, 422}, Reply(m, status)
        PROVE  requests' \subseteq Request /\ answers' \subseteq Answer
               /\ \A a \in answers' : a \in answers \/ ~(a.what = At("finish") /\ a.status = 200)
    BY <1>0, <1>2, Replied
  <1>3. CASE (Reply(m, 404) \/ Reply(m, 409)) /\ UNCHANGED <<staging, old, stored, index, faults>>
    <2>1. requests' \subseteq Request /\ answers' \subseteq Answer
          /\ \A a \in answers' : a \in answers \/ ~(a.what = At("finish") /\ a.status = 200)
      BY <1>2, <1>3
    <2>. QED BY <1>0, <1>1, <1>3, <2>1, StagingKeeps DEF TypeOK
  <1>4. ASSUME discard(f)
        PROVE  /\ staging' \in [Files -> [1..Chunks -> PartStates] \cup {Gone}]
               /\ \A g \in Files : staging[g] = Gone => staging'[g] = Gone
               /\ old' \subseteq begun
    BY <1>0, <1>1, <1>4 DEF TypeOK, discard
  <1>5. CASE discard(f) /\ Reply(m, 422) /\ UNCHANGED <<stored, index, faults>>
    <2>1. faults' \in 0..MaxFaults
      BY <1>0, <1>5 DEF TypeOK
    <2>2. requests' \subseteq Request /\ answers' \subseteq Answer
          /\ \A a \in answers' : a \in answers \/ ~(a.what = At("finish") /\ a.status = 200)
      BY <1>2, <1>5
    <2>. QED BY <1>1, <1>4, <1>5, <2>1, <2>2, StagingKeeps
  <1>6. CASE discard(f) /\ SizeMatches(f) /\ saveFrom(f) /\ Reply(m, 200)
    <2>1. /\ staging[f] = WholeParts /\ stored' = [stored EXCEPT ![f] = staging[f]]
          /\ manifest' \subseteq manifest \cup {f} /\ appended' \subseteq appended \cup {f} /\ torn' \in BOOLEAN
      BY <1>0, <1>6 DEF SizeMatches, saveFrom, readManifest, TypeOK
    <2>2. faults' \in 0..MaxFaults
      BY <1>0, <1>6, Faulty DEF saveFrom, TypeOK
    <2>3. requests' \subseteq Request /\ answers' \subseteq Answer /\ \A a \in answers' : a \in answers \/ a.of = f
      BY <1>0, <1>6, Replied
    <2>. QED BY <1>1, <1>4, <1>6, <2>1, <2>2, <2>3, StoredKeeps
  <1>. QED BY <1>3, <1>5, <1>6 DEF finishChunked

LEMMA Crashes == ASSUME IInv, crash PROVE IInv'
  <1>0. TypeOK
    BY DEF IInv
  <1>1. /\ faults' \in 0..MaxFaults /\ requests' = {} /\ UNCHANGED <<uploader, answers, begun, old>>
        /\ requests' \subseteq Request /\ answers' \subseteq Answer /\ old' \subseteq begun
    BY <1>0, Faulty DEF crash, TypeOK
  <1>2. CASE UNCHANGED <<staging, stored, index>>
    BY <1>0, <1>1, <1>2, StagingKeeps DEF TypeOK
  <1>3. CASE \E m \in requests : /\ m.what.on = "put" /\ staging[m.of] # Gone
                                 /\ staging' = [staging EXCEPT ![m.of][m.what.i] = "short"]
                                 /\ UNCHANGED <<stored, index>>
    <2>1. PICK m \in requests : /\ m.what.on = "put" /\ staging[m.of] # Gone
                                /\ staging' = [staging EXCEPT ![m.of][m.what.i] = "short"]
                                /\ UNCHANGED <<stored, index>>
      BY <1>3
    <2>2. m.of \in Files /\ m.what.i \in 1..Chunks
      BY <1>0, <2>1, Kinds DEF TypeOK, Request
    <2>3. [staging[m.of] EXCEPT ![m.what.i] = "short"] \in [1..Chunks -> PartStates]
      BY <1>0, <2>1, <2>2 DEF TypeOK, PartStates
    <2>4. staging' = [staging EXCEPT ![m.of] = [staging[m.of] EXCEPT ![m.what.i] = "short"]]
      BY <2>1
    <2>5. /\ staging' \in [Files -> [1..Chunks -> PartStates] \cup {Gone}]
          /\ \A g \in Files : staging[g] = Gone => staging'[g] = Gone
      BY <1>0, <2>1, <2>2, <2>3, <2>4 DEF TypeOK
    <2>. QED BY <1>1, <2>1, <2>5, StagingKeeps
  <1>4. CASE \E m \in requests : /\ m.what.on = "finish" /\ staging[m.of] # Gone
                                 /\ SizeMatches(m.of)
                                 /\ stored' = [stored EXCEPT ![m.of] = staging[m.of]]
                                 /\ \/ manifest' = readManifest(m.of) /\ torn' = FALSE
                                       /\ appended' = appended \cup {m.of}
                                    \/ UNCHANGED <<manifest, appended>> /\ torn' \in {torn, TRUE}
                                 /\ UNCHANGED staging
    <2>1. PICK m \in requests : /\ SizeMatches(m.of) /\ UNCHANGED staging
                                /\ stored' = [stored EXCEPT ![m.of] = staging[m.of]]
                                /\ \/ manifest' = readManifest(m.of) /\ torn' = FALSE
                                      /\ appended' = appended \cup {m.of}
                                   \/ UNCHANGED <<manifest, appended>> /\ torn' \in {torn, TRUE}
      BY <1>4
    <2>2. m.of \in Files /\ staging[m.of] = WholeParts
      BY <1>0, <2>1 DEF TypeOK, Request, SizeMatches
    <2>3. manifest' \subseteq manifest \cup {m.of} /\ appended' \subseteq appended \cup {m.of} /\ torn' \in BOOLEAN
      BY <1>0, <2>1 DEF TypeOK, readManifest
    <2>4. staging' \in [Files -> [1..Chunks -> PartStates] \cup {Gone}] /\ \A g \in Files : staging[g] = Gone => staging'[g] = Gone
      BY <1>0, <2>1 DEF TypeOK
    <2>. QED BY <1>1, <2>1, <2>2, <2>3, <2>4, StoredKeeps
  <1>. QED BY <1>2, <1>3, <1>4 DEF crash

LEMMA Sweeps == ASSUME IInv, NEW f \in Files, ages(f) \/ sweepPartials(f) PROVE IInv'
  <1>0. TypeOK /\ BegunInv
    BY DEF IInv
  <1>1. /\ requests' = requests /\ answers' = answers /\ faults' = faults
        /\ UNCHANGED <<uploader, begun, stored, index>>
    BY DEF ages, sweepPartials
  <1>2. /\ staging' \in [Files -> [1..Chunks -> PartStates] \cup {Gone}]
        /\ \A g \in Files : staging[g] = Gone => staging'[g] = Gone
        /\ old' \subseteq begun
    BY <1>0 DEF TypeOK, BegunInv, ages, sweepPartials, discard
  <1>. QED BY <1>0, <1>1, <1>2, StagingKeeps DEF TypeOK

LEMMA Loses == ASSUME IInv, lose PROVE IInv'
  <1>0. TypeOK
    BY DEF IInv
  <1>1. faults' \in 0..MaxFaults /\ requests' \subseteq requests /\ answers' \subseteq answers
        /\ UNCHANGED <<uploader, staging, begun, old, stored, index>>
    BY <1>0, Faulty DEF lose
  <1>. QED BY <1>0, <1>1, StagingKeeps DEF TypeOK

---------------------------------------------------------------------------
(* The theorems.                                                            *)

LEMMA Inductive == ASSUME IInv, [Next]_vars PROVE IInv'
  <1>1. CASE UNCHANGED vars
    BY <1>1, StagingKeeps DEF vars, index, IInv, TypeOK
  <1>2. CASE Next
    BY <1>2, Begins, Resumes, TimesOut, Leaves, Sweeps, Puts, Finishes, Aborts, Crashes, Loses DEF Next
  <1>. QED BY <1>1, <1>2

LEMMA Invariant == Spec => []IInv
  <1>1. Init => IInv
    <2> SUFFICES ASSUME Init PROVE IInv
      OBVIOUS
    <2>1. 0 \in 0..MaxFaults
      BY Bounds
    <2>2. TypeOK
      BY <2>1 DEF Init, TypeOK
    <2>3. WholeInv /\ ToldInv /\ BegunInv
      BY Kinds DEF Init, WholeInv, ToldInv, BegunInv
    <2>. QED BY <2>2, <2>3 DEF IInv
  <1>. QED BY <1>1, Inductive, PTL DEF Spec

\* Staging, final places and the manifest keep their shape whatever is lost or cut short.
THEOREM TypeCorrect == Spec => []TypeOK
  <1>1. IInv => TypeOK
    BY DEF IInv
  <1>. QED BY <1>1, Invariant, PTL

\* A file that the manifest lists, or that its user was told is there, is whole.
THEOREM WholeFiles == Spec => []OnlyWholeFiles
  <1>1. IInv => OnlyWholeFiles
    BY DEF IInv, WholeInv, ToldInv, OnlyWholeFiles
  <1>. QED BY <1>1, Invariant, PTL

\* A late chunk brings back no staging that was finished, deleted or swept.
THEOREM Discarded == Spec => DiscardIsFinal
  <1>1. ASSUME IInv, [Next]_vars, NEW f \in begun, staging[f] = Gone PROVE staging'[f] = Gone
    <2>0. f \in Files /\ uploader[f] # Idle /\ staging \in [Files -> [1..Chunks -> PartStates] \cup {Gone}]
      BY <1>1 DEF IInv, TypeOK, BegunInv
    <2>1. ASSUME NEW g \in Files, beginChunked(g) PROVE staging'[f] = Gone
      <3>1. g # f /\ staging' = [staging EXCEPT ![g] = NoParts]
        BY <2>0, <2>1 DEF beginChunked
      <3>. QED BY <1>1, <2>0, <3>1
    <2>2. ASSUME NEW m \in requests, putChunk(m) PROVE staging'[f] = Gone
      <3>1. CASE m.of = f
        BY <1>1, <2>2, <3>1 DEF putChunk, Known
      <3>2. CASE m.of # f
        BY <1>1, <2>0, <2>2, <3>2 DEF putChunk
      <3>. QED BY <3>1, <3>2
    <2>3. ASSUME NEW m \in requests, finishChunked(m) \/ abortChunked(m) PROVE staging'[f] = Gone
      BY <1>1, <2>0, <2>3 DEF finishChunked, abortChunked, discard
    <2>4. ASSUME crash PROVE staging'[f] = Gone
      BY <1>1, <2>0, <2>4 DEF crash
    <2>5. ASSUME NEW g \in Files, sweepPartials(g) PROVE staging'[f] = Gone
      BY <1>1, <2>0, <2>5 DEF sweepPartials, discard
    <2>6. ASSUME NEW g \in Files, upload(g) \/ timesOut(g) \/ leaves(g) \/ ages(g) PROVE staging' = staging
      BY <2>6 DEF upload, timesOut, leaves, ages
    <2>7. ASSUME lose \/ UNCHANGED vars PROVE staging' = staging
      BY <2>7 DEF lose, vars
    <2>. QED BY <1>1, <2>1, <2>2, <2>3, <2>4, <2>5, <2>6, <2>7 DEF Next
  <1>2. ASSUME IInv, [Next]_vars PROVE [\A f \in begun : staging[f] = Gone => staging'[f] = Gone]_vars
    BY <1>1, <1>2
  <1>. QED BY <1>2, Invariant, PTL DEF Spec, DiscardIsFinal
=============================================================================

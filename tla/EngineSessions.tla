--------------------------- MODULE EngineSessions ---------------------------
(***************************************************************************)
(* One conversation's engine session across engines (handle() and inject in *)
(* core/src/server.js, core/src/sessions.js, core/src/prompt-parts.js and   *)
(* the adapters in core/src/engines/).  The row remembers the id the last   *)
(* run reported and which stable prompt block it was last sent, on which    *)
(* engine; a run resumes that id on whatever engine is current, and leaves  *)
(* the stable block out when the engine's own history should already hold   *)
(* it.  Engines lose sessions on their own, the default engine changes, and *)
(* runs fail, are stopped, or die with the core.                            *)
(***************************************************************************)
EXTENDS FiniteSets

CONSTANTS
  Runs,       \* engine runs, each made once; a fresh session is named after its run
  Injects,    \* the runs that are operator steers
  Hashes,     \* stable prompt blocks
  NoSession   \* no engine session, no stable block

Engines == {"claude", "gemini", "codex"}

VARIABLES
  engine,   \* the default engine (engines.json)
  session,  \* the conversation's row: engine id, and the stable block's marker
  has,      \* the sessions each engine can resume
  heard,    \* the stable blocks in each codex thread's history
  run       \* per run: its phase and what the engine was called with

vars == <<engine, session, has, heard, run>>

NoMarker == [hash |-> NoSession, engine |-> NoSession]
Fresh == [id |-> NoSession, marker |-> NoMarker]
Blank == [phase |-> "idle", engine |-> "claude", resume |-> NoSession, hash |-> NoSession, stable |-> FALSE]
Over == [Blank EXCEPT !.phase = "over"]
Marker == {NoMarker} \cup [hash : Hashes, engine : Engines]

TypeOK ==
  /\ engine \in Engines
  /\ session \in [id : Runs \cup {NoSession}, marker : Marker]
  /\ has \in [Engines -> SUBSET Runs]
  /\ heard \in [Runs -> SUBSET Hashes]
  /\ run \in [Runs -> [phase : {"idle", "running", "over", "lost"}, engine : Engines,
                       resume : Runs \cup {NoSession}, hash : Hashes \cup {NoSession},
                       stable : BOOLEAN]]

Init ==
  /\ engine \in Engines
  /\ session = Fresh
  /\ has = [e \in Engines |-> {}]
  /\ heard = [r \in Runs |-> {}]
  /\ run = [r \in Runs |-> Blank]

LockFree == \A r \in Runs : run[r].phase # "running"

---------------------------------------------------------------------------
\* The capability flag an adapter exports; only codex does.
historyReplaysSystemPrompt(e) == e = "codex"

\* prompt-parts.shouldReuseStable, as handle() calls it.
shouldReuseStable(e, h) ==
  /\ historyReplaysSystemPrompt(e)
  /\ session.id # NoSession
  /\ session.marker = [hash |-> h, engine |-> e]

\* handle() resolves the session and calls the engine, which it fixes for the whole turn.
StartTurn(r) ==
  /\ r \notin Injects /\ run[r].phase = "idle" /\ LockFree
  /\ \E h \in Hashes :
       run' = [run EXCEPT ![r] = [phase |-> "running", engine |-> engine,
                 resume |-> session.id, hash |-> h, stable |-> ~shouldReuseStable(engine, h)]]
  /\ UNCHANGED <<engine, session, has, heard>>

\* A steer resumes the session with the bare text: no stable block and no marker.
StartInject(r) ==
  /\ r \in Injects /\ run[r].phase = "idle" /\ LockFree
  /\ run' = [run EXCEPT ![r].phase = "running", ![r].engine = engine, ![r].resume = session.id]
  /\ UNCHANGED <<engine, session, has, heard>>

\* claude and codex know the sessions they made; gemini takes the id it is given.
CanResume(r) ==
  run[r].resume \in has[run[r].engine] \cup {NoSession} \/ run[r].engine = "gemini"

\* The id an adapter returns: the one it resumed, or the new one.
engineSessionId(r) == IF run[r].resume = NoSession THEN r ELSE run[r].resume

\* sessions.recordEngineId, then recordStable on success: UPDATEs of the row.
Record(r, id, ok) ==
  session' = [id |-> id, marker |->
                IF ok /\ historyReplaysSystemPrompt(run[r].engine) /\ r \notin Injects
                THEN [hash |-> run[r].hash, engine |-> run[r].engine] ELSE session.marker]

\* The run ends with a result.  A failed run may have delivered its prompt or not.
Returns(r, ok) ==
  /\ run[r].phase = "running" /\ CanResume(r)
  /\ LET id == engineSessionId(r) IN
       /\ has' = [has EXCEPT ![run[r].engine] = @ \cup {id}]
       /\ \E delivered \in {ok, TRUE} :
            heard' = IF delivered /\ run[r].stable /\ run[r].engine = "codex"
                     THEN [heard EXCEPT ![id] = @ \cup {run[r].hash}] ELSE heard
       /\ Record(r, id, ok)
  /\ run' = [run EXCEPT ![r] = Over]
  /\ UNCHANGED engine

\* codex asked for a thread it does not have: the adapter reports an error result that
\* still carries the id it was given.
ReturnsMissing(r) ==
  /\ run[r].phase = "running" /\ ~CanResume(r) /\ run[r].engine = "codex"
  /\ Record(r, run[r].resume, FALSE)
  /\ run' = [run EXCEPT ![r].phase = "lost"]
  /\ UNCHANGED <<engine, has, heard>>

clearEngineId_KeepMarker == session' = [session EXCEPT !.id = NoSession]
clearEngineId == session' = Fresh

\* claude throws for a vanished session: drop the id and run again, fresh and with the
\* full prompt.  A turn keeps its engine, a steer takes the present default.
ThrowsMissing(r) ==
  /\ run[r].phase = "running" /\ ~CanResume(r) /\ run[r].engine = "claude"
  /\ clearEngineId
  /\ run' = [run EXCEPT ![r].resume = NoSession, ![r].stable = r \notin Injects,
                        ![r].engine = IF r \in Injects THEN engine ELSE @]
  /\ UNCHANGED <<engine, has, heard>>

\* The run throws anything else, is stopped, or dies with the core: nothing is recorded.
Ends(r) ==
  /\ run[r].phase = "running"
  /\ run' = [run EXCEPT ![r] = Over]
  /\ UNCHANGED <<engine, session, has, heard>>

---------------------------------------------------------------------------
\* POST /v2/engines/default.
setDefault(e) ==
  /\ e # engine /\ engine' = e
  /\ UNCHANGED <<session, has, heard, run>>

\* External: an engine prunes a session it has kept long enough.
Prune(e, id) ==
  /\ e # "gemini" /\ id \in has[e]
  /\ has' = [has EXCEPT ![e] = @ \ {id}]
  /\ heard' = IF e = "codex" THEN [heard EXCEPT ![id] = {}] ELSE heard
  /\ UNCHANGED <<engine, session, run>>

\* POST /v2/session/forget between turns; the next turn makes a new row.
Forget ==
  /\ LockFree /\ session # Fresh
  /\ session' = Fresh
  /\ UNCHANGED <<engine, has, heard, run>>

Next ==
  \/ \E r \in Runs : StartTurn(r) \/ StartInject(r) \/ ReturnsMissing(r) \/ ThrowsMissing(r)
                       \/ Ends(r) \/ (\E ok \in BOOLEAN : Returns(r, ok))
  \/ \E e \in Engines : setDefault(e) \/ (\E id \in Runs : Prune(e, id))
  \/ Forget

Spec == Init /\ [][Next]_vars

---------------------------------------------------------------------------
\* Inject-once never costs the engine its instructions: a turn that leaves the stable block
\* out resumes a session whose history holds that very block, whatever engines ran, failed,
\* were switched or steered in between (unless the engine itself has lost the session).
HistoryHasStable ==
  \A r \in Runs :
    run[r].phase = "running" /\ ~run[r].stable /\ r \notin Injects /\ CanResume(r)
      => run[r].hash \in heard[run[r].resume]

\* core/src/engines/index.js says a vanished session must not wedge its conversation: no two
\* runs are told by the same engine that the session they resumed is gone.
LossHealed ==
  \A r, s \in Runs :
    r # s /\ run[r].phase = "lost" /\ run[s].phase = "lost"
      => <<run[r].engine, run[r].resume>> # <<run[s].engine, run[s].resume>>
=============================================================================

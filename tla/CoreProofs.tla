----------------------------- MODULE CoreProofs ------------------------------
(* Proofs about the parts of MCCore, for every value of its constants.       *)
EXTENDS MCCore, FiniteSetTheorems, WellFoundedInduction, TLAPS

---------------------------------------------------------------------------
(* A behaviour of the group is a behaviour of each of its parts.            *)

\* A step of the group is a step of a part or leaves its variables alone.
LEMMA Steps ==
  [Next]_vars =>
    /\ [Hold!Next]_holdVars /\ [Brain!Next]_brainVars /\ [Access!Next]_accessVars
    /\ [Check!Next]_checkVars /\ [Runtime!Next]_runtimeVars /\ [Cadence!Next]_cadenceVars
    /\ [Topics!Next]_topicsVars /\ [Gate!Next]_gateVars /\ [Mcp!Next]_mcpVars
    /\ [Vault!Next]_keysVars /\ [Silos!Next]_silosVars
  BY Zenon DEF Next, vars

\* Whatever is proved of a draft, an engine session, the trust store, the moderation of a message,
\* a connector's requests, a topic stream, a job's schedule, the forward-auth gate, ... on their own holds
\* where they are run together.
THEOREM EachOnItsOwn ==
  Spec => /\ Hold!Spec /\ Brain!Spec /\ Access!Spec /\ Check!Spec
          /\ Runtime!Init /\ [][Runtime!Next]_runtimeVars /\ Cadence!Spec /\ Topics!Spec
          /\ Gate!Init /\ [][Gate!Next]_gateVars /\ Mcp!Init /\ [][Mcp!Next]_mcpVars
          /\ Vault!Init /\ [][Vault!Next]_keysVars /\ Silos!Init /\ [][Silos!Next]_silosVars
  <1>1. Init => /\ Hold!Init /\ Brain!Init /\ Access!Init /\ Check!Init /\ Runtime!Init /\ Cadence!Init
                /\ Topics!Init /\ Gate!Init /\ Mcp!Init /\ Vault!Init /\ Silos!Init
    BY Zenon DEF Init
  <1> QED
    BY <1>1, Steps, PTL DEF Spec, Hold!Spec, Brain!Spec, Access!Spec, Check!Spec, Cadence!Spec,
       Topics!Spec, Hold!vars, Brain!vars, Access!vars, Check!vars, Cadence!vars, Topics!vars,
       holdVars, brainVars, accessVars, checkVars, cadenceVars, topicsVars

---------------------------------------------------------------------------
(* Drafts.                                                                  *)

\* What an approval has sent has gone out, and somebody had approved it.
SentInv ==
  \A a \in Approvers : approval[a] # Hold!Idle =>
    /\ approval[a].of \in wasApproved
    /\ \A p \in 1..approval[a].sent : delivered[approval[a].of][p] > 0

HoldInv == Hold!TypeOK /\ wasApproved \subseteq Replies /\ SentInv /\ Hold!SentIsWhole

LEMMA HoldInit == Hold!Init => HoldInv
  BY PartsAssumption DEF Hold!Init, HoldInv, SentInv, Hold!TypeOK, Hold!SentIsWhole, Hold!Idle, Hold!Statuses

LEMMA HoldStep == HoldInv /\ [Hold!Next]_holdVars => HoldInv'
  <1> SUFFICES ASSUME HoldInv, [Hold!Next]_holdVars PROVE HoldInv'
    OBVIOUS
  <1> USE PartsAssumption DEF HoldInv, SentInv, Hold!TypeOK, Hold!SentIsWhole, Hold!Statuses
  <1>1. ASSUME NEW r \in Replies, Hold!Gate(r) PROVE HoldInv'
    BY <1>1 DEF Hold!Gate
  <1>2. ASSUME NEW r \in Replies, Hold!Discard(r) PROVE HoldInv'
    BY <1>2 DEF Hold!Discard, Hold!SetStatus
  <1>3. ASSUME NEW a \in Approvers, NEW r \in Replies, Hold!Approve(a, r) PROVE HoldInv'
    BY <1>3 DEF Hold!Approve, Hold!Idle
  <1>4. ASSUME NEW a \in Approvers, Hold!SendPart(a) PROVE HoldInv'
    <2> DEFINE r == approval[a].of   n == approval[a].sent
    <2>1. r \in wasApproved /\ r \in Replies /\ n \in 0..Parts /\ n # Parts
      BY <1>4 DEF Hold!SendPart, Hold!AllSent
    <2>2. n + 1 \in 1..Parts
      BY <2>1
    <2>3. approval' = [approval EXCEPT ![a].sent = n + 1] /\ approval[a].of = r
      BY <1>4 DEF Hold!SendPart
    <2>4. delivered' = [delivered EXCEPT ![r][n + 1] = @ + 1]
      BY <1>4 DEF Hold!SendPart
    <2> HIDE DEF r, n
    <2>5. delivered' \in [Replies -> [1..Parts -> Nat]]
      BY <2>1, <2>2, <2>4
    <2>6. \A q \in Replies, p \in 1..Parts : delivered[q][p] > 0 => delivered'[q][p] > 0
      <3>1. delivered[r][n + 1] \in Nat
        BY <2>1, <2>2
      <3> QED
        BY <2>1, <2>2, <2>4, <3>1
    <2>7. delivered'[r][n + 1] > 0
      BY <2>1, <2>2, <2>4
    <2>8. \A q \in Replies \ {r} : delivered'[q] = delivered[q]
      BY <2>1, <2>4
    <2>9. UNCHANGED <<draft, returned, wasApproved, failures>>
      BY <1>4 DEF Hold!SendPart
    <2>10. Hold!TypeOK'
      <3>1. [approval[a] EXCEPT !.sent = n + 1] \in [of : Replies \cup {"none"}, sent : 0..Parts]
        BY <2>2
      <3> QED
        BY <2>3, <2>5, <2>9, <3>1
    <2>11. SentInv'
      <3> SUFFICES ASSUME NEW b \in Approvers, approval'[b] # Hold!Idle
                   PROVE  /\ approval'[b].of \in wasApproved
                          /\ \A p \in 1..approval'[b].sent : delivered'[approval'[b].of][p] > 0
        BY <2>9
      <3>1. CASE b = a
        <4>1. approval'[b].of = r /\ approval'[b].sent = n + 1
          BY <2>3, <3>1
        <4>2. \A p \in 1..n : delivered[r][p] > 0
          BY <1>4 DEF Hold!SendPart, r, n
        <4> QED
          BY <2>1, <2>2, <2>6, <2>7, <4>1, <4>2
      <3>2. CASE b # a
        <4>1. approval'[b] = approval[b]
          BY <2>3, <3>2
        <4>2. approval[b].sent \in 0..Parts /\ approval[b].of \in Replies
          BY <4>1
        <4> QED
          BY <2>6, <4>1, <4>2
      <3> QED
        BY <3>1, <3>2
    <2>12. Hold!SentIsWhole'
      BY <2>1, <2>6, <2>8, <2>9
    <2> QED
      BY <2>9, <2>10, <2>11, <2>12
  <1>5. ASSUME NEW a \in Approvers, Hold!SendFails(a) PROVE HoldInv'
    BY <1>5 DEF Hold!SendFails, Hold!Idle
  <1>6. ASSUME NEW a \in Approvers, Hold!Settle(a) PROVE HoldInv'
    BY <1>6 DEF Hold!Settle, Hold!AllSent, Hold!SetStatus, Hold!Idle
  <1>7. CASE Hold!Restart
    BY <1>7 DEF Hold!Restart, Hold!Idle
  <1>8. CASE UNCHANGED holdVars
    BY <1>8 DEF holdVars
  <1> QED
    BY <1>1, <1>2, <1>3, <1>4, <1>5, <1>6, <1>7, <1>8 DEF Hold!Next

\* A draft marked sent went out whole and was approved, whichever sends failed and however
\* approvals, discards and restarts crossed.
THEOREM DraftsWhole == Spec => [](Hold!TypeOK /\ Hold!SentIsWhole)
  <1>1. HoldInv => Hold!TypeOK /\ Hold!SentIsWhole
    BY DEF HoldInv
  <1> QED
    BY <1>1, HoldInit, HoldStep, EachOnItsOwn, PTL DEF Hold!Spec, Hold!vars, holdVars

---------------------------------------------------------------------------
(* The engine session of a conversation and its stable prompt block.        *)

Running(r) == run[r].phase = "running"

\* The marker of the row names a block that the session's thread has heard, for as long as codex
\* has the thread.
MarkerInv ==
  /\ session.id = NoSession => session.marker = Brain!NoMarker
  /\ \A h \in Hashes :
       /\ session.marker = [hash |-> h, engine |-> "codex"]
       /\ session.id \in has["codex"]
       => h \in heard[session.id]

\* What is under way resumes the session of the row, and was told to leave the block out only
\* because of the marker that is still there.
RunningInv ==
  \A r \in EngineRuns : Running(r) =>
    /\ run[r].resume = session.id
    /\ \A q \in EngineRuns : Running(q) => q = r
    /\ r \notin Injects => run[r].hash \in Hashes
    /\ r \notin Injects /\ ~run[r].stable =>
         /\ run[r].engine = "codex" /\ run[r].resume # NoSession
         /\ session.marker = [hash |-> run[r].hash, engine |-> "codex"]

\* A steer brings no stable block.
SteersBare == \A r \in EngineRuns : r \in Injects => ~run[r].stable

BrainInv == Brain!TypeOK /\ MarkerInv /\ RunningInv /\ SteersBare

LEMMA BrainHistory == BrainInv => Brain!HistoryHasStable
  BY DEF BrainInv, MarkerInv, RunningInv, Running, Brain!HistoryHasStable, Brain!CanResume

LEMMA BrainInit == Brain!Init => BrainInv
  BY DEF BrainInv, MarkerInv, RunningInv, SteersBare, Running, Brain!Init, Brain!TypeOK, Brain!Fresh, Brain!Blank,
         Brain!NoMarker, Brain!Marker, Brain!Engines

\* The row is as before and so are the sessions: a run begins, or one ends without a record.
LEMMA BrainQuiet ==
  ASSUME BrainInv, UNCHANGED <<session, has, heard>>, engine' \in Brain!Engines,
         Brain!TypeOK', SteersBare',
         \A r \in EngineRuns : Running(r)' => Running(r) /\ run'[r] = run[r]
  PROVE  BrainInv'
  BY DEF BrainInv, MarkerInv, RunningInv, Running

LEMMA BrainStep == BrainInv /\ [Brain!Next]_brainVars => BrainInv'
  <1> SUFFICES ASSUME BrainInv, [Brain!Next]_brainVars PROVE BrainInv'
    OBVIOUS
  <1> USE Nulls DEF BrainInv, Brain!TypeOK, Brain!Engines, Brain!Marker
  <1>1. ASSUME NEW r \in EngineRuns, Brain!StartTurn(r) PROVE BrainInv'
    <2>1. PICK h \in Hashes :
            run' = [run EXCEPT ![r] = [phase |-> "running", engine |-> engine, resume |-> session.id,
                                       hash |-> h, stable |-> ~Brain!shouldReuseStable(engine, h)]]
      BY <1>1 DEF Brain!StartTurn
    <2>2. /\ UNCHANGED <<engine, session, has, heard>> /\ r \notin Injects
          /\ \A q \in EngineRuns : ~Running(q)
      BY <1>1 DEF Brain!StartTurn, Brain!LockFree, Running
    <2>3. Brain!TypeOK' /\ MarkerInv' /\ SteersBare'
      BY <2>1, <2>2 DEF MarkerInv, SteersBare, Brain!shouldReuseStable
    <2>4. RunningInv'
      BY <2>1, <2>2 DEF RunningInv, Running, Brain!shouldReuseStable, Brain!historyReplaysSystemPrompt
    <2> QED
      BY <2>3, <2>4
  <1>2. ASSUME NEW r \in EngineRuns, Brain!StartInject(r) PROVE BrainInv'
    <2>1. /\ UNCHANGED <<engine, session, has, heard>> /\ r \in Injects
          /\ \A q \in EngineRuns : ~Running(q)
      BY <1>2 DEF Brain!StartInject, Brain!LockFree, Running
    <2>2. run' = [run EXCEPT ![r].phase = "running", ![r].engine = engine, ![r].resume = session.id]
      BY <1>2 DEF Brain!StartInject
    <2>3. /\ run'[r] = [run[r] EXCEPT !.phase = "running", !.engine = engine, !.resume = session.id]
          /\ \A q \in EngineRuns \ {r} : run'[q] = run[q]
      BY <2>2
    <2>4. run[r] \in [phase : {"idle", "running", "over", "lost"}, engine : Brain!Engines,
                      resume : EngineRuns \cup {NoSession}, hash : Hashes \cup {NoSession},
                      stable : BOOLEAN]
      OBVIOUS
    <2>5. /\ run'[r].resume = session.id /\ run'[r].stable = run[r].stable
          /\ run'[r] \in [phase : {"idle", "running", "over", "lost"}, engine : Brain!Engines,
                          resume : EngineRuns \cup {NoSession}, hash : Hashes \cup {NoSession},
                          stable : BOOLEAN]
      BY <2>3, <2>4
    <2>6. Brain!TypeOK' /\ MarkerInv'
      BY <2>1, <2>2, <2>5 DEF MarkerInv
    <2>7. SteersBare'
      BY <2>3, <2>5 DEF SteersBare
    <2>8. \A q \in EngineRuns : Running(q)' => q = r
      BY <2>1, <2>3 DEF Running
    <2>9. RunningInv'
      BY <2>1, <2>5, <2>8 DEF RunningInv
    <2> QED
      BY <2>6, <2>7, <2>9
  <1>3. ASSUME NEW r \in EngineRuns, Brain!ReturnsMissing(r) PROVE BrainInv'
    <2>1. /\ Running(r) /\ UNCHANGED <<engine, has, heard>>
          /\ session' = [id |-> run[r].resume, marker |-> session.marker]
          /\ run' = [run EXCEPT ![r].phase = "lost"]
      BY <1>3 DEF Brain!ReturnsMissing, Brain!Record, Running
    <2>2. session' = session
      BY <2>1 DEF RunningInv
    <2>3. Brain!TypeOK' /\ SteersBare'
      BY <2>1, <2>2 DEF SteersBare
    <2>4. \A q \in EngineRuns : Running(q)' => Running(q) /\ run'[q] = run[q]
      BY <2>1 DEF Running
    <2> QED
      BY <2>1, <2>2, <2>3, <2>4, BrainQuiet
  <1>4. ASSUME NEW r \in EngineRuns, Brain!ThrowsMissing(r) PROVE BrainInv'
    <2> DEFINE e == IF r \in Injects THEN engine ELSE run[r].engine
    <2>1. /\ Running(r) /\ UNCHANGED <<engine, has, heard>> /\ session' = Brain!Fresh
          /\ run' = [run EXCEPT ![r].resume = NoSession, ![r].stable = r \notin Injects, ![r].engine = e]
      BY <1>4 DEF Brain!ThrowsMissing, Brain!clearEngineId, Running
    <2>2. e \in Brain!Engines
      OBVIOUS
    <2> HIDE DEF e
    <2>3. /\ run'[r] = [run[r] EXCEPT !.resume = NoSession, !.stable = r \notin Injects, !.engine = e]
          /\ \A q \in EngineRuns \ {r} : run'[q] = run[q]
      BY <2>1
    <2>4. /\ run'[r].resume = NoSession /\ run'[r].stable = (r \notin Injects)
          /\ run'[r].phase = run[r].phase /\ run'[r].hash = run[r].hash
      BY <2>3
    <2>5. run'[r] \in [phase : {"idle", "running", "over", "lost"}, engine : Brain!Engines,
                       resume : EngineRuns \cup {NoSession}, hash : Hashes \cup {NoSession},
                       stable : BOOLEAN]
      BY <2>2, <2>3
    <2>6. Brain!TypeOK' /\ MarkerInv' /\ SteersBare'
      BY <2>1, <2>3, <2>4, <2>5 DEF MarkerInv, SteersBare, Brain!Fresh, Brain!NoMarker
    <2>7. RunningInv'
      BY <2>1, <2>3, <2>4 DEF RunningInv, Running, Brain!Fresh
    <2> QED
      BY <2>6, <2>7
  <1>5. ASSUME NEW r \in EngineRuns, Brain!Ends(r) PROVE BrainInv'
    <2>1. UNCHANGED <<engine, session, has, heard>> /\ run' = [run EXCEPT ![r] = Brain!Over]
      BY <1>5 DEF Brain!Ends
    <2>2. Brain!TypeOK' /\ SteersBare'
      BY <2>1 DEF SteersBare, Brain!Over, Brain!Blank
    <2>3. \A q \in EngineRuns : Running(q)' => Running(q) /\ run'[q] = run[q]
      BY <2>1 DEF Running, Brain!Over, Brain!Blank
    <2> QED
      BY <2>1, <2>2, <2>3, BrainQuiet
  <1>6. ASSUME NEW r \in EngineRuns, NEW ok \in BOOLEAN, Brain!Returns(r, ok) PROVE BrainInv'
    <2> DEFINE id == Brain!engineSessionId(r)   e == run[r].engine   h == run[r].hash
               marks == ok /\ e = "codex" /\ r \notin Injects
    <2>1. /\ Running(r) /\ Brain!CanResume(r) /\ run' = [run EXCEPT ![r] = Brain!Over]
          /\ engine' = engine /\ has' = [has EXCEPT ![e] = has[e] \cup {id}]
      BY <1>6 DEF Brain!Returns, Running
    <2>2. /\ session' = [id |-> id, marker |-> IF marks THEN [hash |-> h, engine |-> e] ELSE session.marker]
      BY <1>6 DEF Brain!Returns, Brain!Record, Brain!historyReplaysSystemPrompt
    <2>3. \/ heard' = heard /\ (~ok \/ ~run[r].stable \/ e # "codex")
          \/ heard' = [heard EXCEPT ![id] = heard[id] \cup {h}] /\ run[r].stable /\ e = "codex"
      BY <1>6 DEF Brain!Returns
    <2>4. /\ e \in Brain!Engines /\ id \in EngineRuns /\ run[r].resume = session.id
          /\ session.id # NoSession => id = session.id
          /\ r \notin Injects => h \in Hashes
          /\ run[r].stable => h \in Hashes
      BY <2>1 DEF Brain!engineSessionId, RunningInv, SteersBare
    <2>5. \A q \in EngineRuns : ~Running(q)'
      BY <2>1 DEF RunningInv, Running, Brain!Over, Brain!Blank
    <2>6. ~run[r].stable /\ marks =>
            /\ session.id # NoSession /\ session.marker = [hash |-> h, engine |-> "codex"]
            /\ session.id \in has["codex"]
      BY <2>1, <2>4 DEF RunningInv, Brain!CanResume
    <2>7. e = "codex" /\ session.id # NoSession => session.id \in has["codex"]
      BY <2>1, <2>4 DEF Brain!CanResume
    <2> HIDE DEF id, e, h, marks
    <2>8. Brain!TypeOK'
      <3>1. heard' \in [EngineRuns -> SUBSET Hashes] /\ has' \in [Brain!Engines -> SUBSET EngineRuns]
        BY <2>1, <2>3, <2>4
      <3>2. marks => [hash |-> h, engine |-> e] \in Brain!Marker
        BY <2>4 DEF marks
      <3>3. run' \in [EngineRuns -> [phase : {"idle", "running", "over", "lost"}, engine : Brain!Engines,
                       resume : EngineRuns \cup {NoSession}, hash : Hashes \cup {NoSession},
                       stable : BOOLEAN]]
        BY <2>1 DEF Brain!Over, Brain!Blank
      <3> QED
        BY <2>1, <2>2, <2>4, <3>1, <3>2, <3>3
    <2>9. MarkerInv'
      <3>1. session'.id = id /\ id # NoSession
        BY <2>2, <2>4
      <3> SUFFICES ASSUME NEW b \in Hashes, session'.marker = [hash |-> b, engine |-> "codex"],
                          id \in has'["codex"]
                   PROVE  b \in heard'[id]
        BY <3>1 DEF MarkerInv
      <3>2. heard[id] \subseteq heard'[id]
        BY <2>3, <2>4
      <3>3. CASE marks
        <4>1. b = h /\ ok /\ e = "codex"
          BY <2>2, <3>3 DEF marks
        <4>2. CASE run[r].stable
          BY <2>3, <2>4, <4>1, <4>2
        <4>3. CASE ~run[r].stable
          BY <2>4, <2>6, <3>2, <3>3, <4>1, <4>3 DEF MarkerInv
        <4> QED
          BY <4>2, <4>3
      <3>4. CASE ~marks
        <4>1. session.marker = [hash |-> b, engine |-> "codex"]
          BY <2>2, <3>4
        <4>2. session.id # NoSession
          BY <4>1 DEF MarkerInv, Brain!NoMarker
        <4>3. id = session.id /\ id \in has["codex"]
          BY <2>1, <2>4, <2>7, <4>2
        <4> QED
          BY <3>2, <4>1, <4>3 DEF MarkerInv
      <3> QED
        BY <3>3, <3>4
    <2>10. SteersBare'
      BY <2>1 DEF SteersBare, Brain!Over, Brain!Blank
    <2> QED
      BY <2>5, <2>8, <2>9, <2>10 DEF RunningInv
  <1>7. ASSUME NEW e \in Brain!Engines, Brain!setDefault(e) PROVE BrainInv'
    BY <1>7, BrainQuiet DEF Brain!setDefault, SteersBare, Running
  <1>8. ASSUME NEW e \in Brain!Engines, NEW id \in EngineRuns, Brain!Prune(e, id) PROVE BrainInv'
    <2>1. /\ UNCHANGED <<engine, session, run>> /\ has' = [has EXCEPT ![e] = has[e] \ {id}]
          /\ heard' = IF e = "codex" THEN [heard EXCEPT ![id] = {}] ELSE heard
      BY <1>8 DEF Brain!Prune
    <2>2. Brain!TypeOK'
      BY <2>1
    <2>3. MarkerInv'
      BY <2>1 DEF MarkerInv
    <2> QED
      BY <2>1, <2>2, <2>3 DEF RunningInv, Running, SteersBare
  <1>9. CASE Brain!Forget
    <2>1. UNCHANGED <<engine, has, heard, run>> /\ session' = Brain!Fresh
          /\ \A q \in EngineRuns : ~Running(q)
      BY <1>9 DEF Brain!Forget, Brain!LockFree, Running
    <2> QED
      BY <2>1 DEF MarkerInv, RunningInv, SteersBare, Running, Brain!Fresh, Brain!NoMarker
  <1>10. CASE UNCHANGED brainVars
    BY <1>10 DEF brainVars, MarkerInv, RunningInv, SteersBare, Running
  <1> QED
    BY <1>1, <1>2, <1>3, <1>4, <1>5, <1>6, <1>7, <1>8, <1>9, <1>10 DEF Brain!Next

\* Inject-once: a turn that leaves its stable block out resumes a session that has heard it, in
\* every order of turns, steers, failures, engine switches, prunings and resets.
THEOREM StableHeard == Spec => [](Brain!TypeOK /\ Brain!HistoryHasStable)
  <1>1. BrainInv => Brain!TypeOK
    BY DEF BrainInv
  <1> QED
    BY <1>1, BrainInit, BrainStep, BrainHistory, EachOnItsOwn, PTL
       DEF Brain!Spec, Brain!vars, brainVars

---------------------------------------------------------------------------
(* Decisions on a draft.                                                    *)

\* A draft that was sent or discarded stays that way, through the end of an approval that was
\* under way when it was.
LEMMA Decided ==
  HoldInv /\ [Hold!Next]_holdVars =>
    \A r \in Replies : draft[r] \in {"sent", "discarded"} => draft'[r] = draft[r]
  <1> SUFFICES ASSUME HoldInv, [Hold!Next]_holdVars, NEW r \in Replies,
                      draft[r] \in {"sent", "discarded"}
               PROVE  draft'[r] = draft[r]
    OBVIOUS
  <1> USE DEF HoldInv, Hold!TypeOK, Hold!Statuses, Hold!SetStatus
  <1>1. ASSUME NEW q \in Replies, Hold!Gate(q) PROVE draft'[r] = draft[r]
    BY <1>1 DEF Hold!Gate
  <1>2. ASSUME NEW q \in Replies, Hold!Discard(q) PROVE draft'[r] = draft[r]
    BY <1>2 DEF Hold!Discard
  <1>3. ASSUME NEW a \in Approvers, NEW q \in Replies, Hold!Approve(a, q) PROVE draft'[r] = draft[r]
    BY <1>3 DEF Hold!Approve
  <1>4. ASSUME NEW a \in Approvers, Hold!SendPart(a) PROVE draft'[r] = draft[r]
    BY <1>4 DEF Hold!SendPart
  <1>5. ASSUME NEW a \in Approvers, Hold!SendFails(a) PROVE draft'[r] = draft[r]
    BY <1>5 DEF Hold!SendFails
  <1>6. ASSUME NEW a \in Approvers, Hold!Settle(a) PROVE draft'[r] = draft[r]
    BY <1>6 DEF Hold!Settle
  <1>7. CASE Hold!Restart
    BY <1>7 DEF Hold!Restart
  <1>8. CASE UNCHANGED holdVars
    BY <1>8 DEF holdVars
  <1> QED
    BY <1>1, <1>2, <1>3, <1>4, <1>5, <1>6, <1>7, <1>8 DEF Hold!Next

---------------------------------------------------------------------------
(* The trust store.                                                         *)

\* No row is a row that is not there.
LEMMA Rows == Access!Absent \notin Access!GrantRows /\ Access!Absent \notin Access!Bundles
  <1>1. \A row \in Access!GrantRows : DOMAIN row = {"of", "role", "scope", "says"}
    BY DEF Access!GrantRows
  <1>2. \A b \in Access!Bundles : DOMAIN b = {"allow", "forbid", "bypass"}
    BY DEF Access!Bundles, Access!Bundle
  <1>3. DOMAIN Access!Absent = {}
    BY DEF Access!Absent
  <1> QED
    BY <1>1, <1>2, <1>3

AccessInv == Access!TypeOK /\ Access!NoDangling

LEMMA AccessInit == Access!Init => AccessInv
  BY DEF Access!Init, AccessInv, Access!TypeOK, Access!NoDangling

\* Deleting and merging people and deleting roles take what refers to them along.
LEMMA AccessStep == AccessInv /\ [Access!Next]_accessVars => AccessInv'
  <1> SUFFICES ASSUME AccessInv, [Access!Next]_accessVars PROVE AccessInv'
    OBVIOUS
  <1> USE Nulls, Rows DEF AccessInv, Access!TypeOK, Access!NoDangling, Access!Exists, Access!Edit
  <1>1. ASSUME NEW p \in Principals, NEW b \in BOOLEAN, Access!create(p, b) \/ Access!update(p, b)
        PROVE  AccessInv'
    <2>1. /\ UNCHANGED <<identifier, role, grant, engagement>>
          /\ \E v \in {"active", "revoked"} : principal' = [principal EXCEPT ![p] = v]
      BY <1>1 DEF Access!create, Access!update
    <2>2. /\ principal' \in [Principals -> {"absent", "active", "revoked"}]
          /\ \A x \in Principals : principal[x] # "absent" => principal'[x] # "absent"
      BY <2>1
    <2> QED
      BY <2>1, <2>2 DEF Access!GrantRows, Access!EngagementRows
  <1>2. ASSUME NEW p \in Principals, Access!remove(p) PROVE AccessInv'
    BY <1>2 DEF Access!remove, Access!Cascade
  <1>3. ASSUME NEW p \in Principals, NEW q \in Principals, Access!merge(p, q) PROVE AccessInv'
    BY <1>3 DEF Access!merge, Access!Cascade, Access!MovedIdentifiers, Access!MovedGrants, Access!GrantRows
  <1>4. ASSUME NEW p \in Principals, NEW i \in Access!Identifiers, Access!addIdentifier(p, i)
        PROVE  AccessInv'
    BY <1>4 DEF Access!addIdentifier
  <1>5. ASSUME NEW i \in Access!Identifiers, Access!removeIdentifier(i) PROVE AccessInv'
    BY <1>5 DEF Access!removeIdentifier
  <1>6. ASSUME NEW k \in Roles, NEW b \in Access!Bundles, Access!upsertRole(k, b) PROVE AccessInv'
    BY <1>6 DEF Access!upsertRole
  <1>7. ASSUME NEW k \in Roles, Access!removeRole(k) PROVE AccessInv'
    BY <1>7 DEF Access!removeRole, Access!GrantsWithout, Access!GrantRows
  <1>8. ASSUME NEW g \in Grants, NEW row \in Access!GrantRows, Access!createGrant(g, row) PROVE AccessInv'
    BY <1>8 DEF Access!createGrant
  <1>9. ASSUME NEW g \in Grants, Access!removeGrant(g) PROVE AccessInv'
    BY <1>9 DEF Access!removeGrant
  <1>10. ASSUME NEW row \in Access!EngagementRows, Access!setEngagement(row) PROVE AccessInv'
    BY <1>10 DEF Access!setEngagement
  <1>11. ASSUME NEW row \in engagement, Access!removeEngagement(row) PROVE AccessInv'
    BY <1>11 DEF Access!removeEngagement
  <1>12. CASE UNCHANGED accessVars
    BY <1>12 DEF accessVars
  <1> QED
    BY <1>1, <1>2, <1>3, <1>4, <1>5, <1>6, <1>7, <1>8, <1>9, <1>10, <1>11, <1>12 DEF Access!Next

\* After any sequence of edits no identifier, grant or engagement row speaks for somebody who is
\* gone, nor a grant of a role that is.
THEOREM NothingDangles == Spec => [](Access!TypeOK /\ Access!NoDangling)
  BY AccessInit, AccessStep, EachOnItsOwn, PTL DEF AccessInv, Access!Spec, Access!vars, accessVars

\* What speaks for somebody on a surface: a grant of theirs in scope, or its role.
LEMMA SourcesAre ==
  ASSUME NEW p, NEW s, NEW b
  PROVE  b \in Access!Sources(p, s) <=>
           \E g \in Grants :
             /\ grant[g] # Access!Absent /\ grant[g].of = p /\ Access!InScope(grant[g], s)
             /\ \/ b = grant[g].says
                \/ grant[g].role # "none" /\ b = role[grant[g].role]
  BY DEF Access!Sources

\* Every row that spoke for the source speaks for the target, and every other as before.
LEMMA Merged ==
  ASSUME AccessInv, NEW p \in Principals, NEW q \in Principals, Access!merge(p, q)
  PROVE  /\ p # q /\ principal' = [principal EXCEPT ![p] = "absent"] /\ role' = role
         /\ \A i \in Access!Identifiers :
              identifier'[i] = IF identifier[i] = p THEN q ELSE identifier[i]
         /\ \A g \in Grants : grant[g] # Access!Absent =>
              /\ grant'[g] # Access!Absent
              /\ grant'[g].of = IF grant[g].of = p THEN q ELSE grant[g].of
              /\ grant'[g].scope = grant[g].scope /\ grant'[g].role = grant[g].role
              /\ grant'[g].says = grant[g].says
  <1> USE Nulls, Rows DEF AccessInv, Access!TypeOK
  <1>1. /\ p # q /\ principal' = [principal EXCEPT ![p] = "absent"] /\ role' = role
        /\ identifier' = [i \in Access!Identifiers |-> IF identifier[i] = p THEN q ELSE identifier[i]]
    BY DEF Access!merge, Access!Cascade, Access!MovedIdentifiers
  <1>2. \A row \in Access!GrantRows :
          /\ [row EXCEPT !.of = q] \in Access!GrantRows
          /\ [row EXCEPT !.of = q].of = q /\ [row EXCEPT !.of = q].scope = row.scope
          /\ [row EXCEPT !.of = q].role = row.role /\ [row EXCEPT !.of = q].says = row.says
    BY DEF Access!GrantRows
  <1>3. \A g \in Grants : grant[g] # Access!Absent =>
          grant'[g] = IF grant[g].of = p THEN [grant[g] EXCEPT !.of = q] ELSE grant[g]
    <2> SUFFICES ASSUME NEW g \in Grants, grant[g] # Access!Absent
                 PROVE  grant'[g] = IF grant[g].of = p THEN [grant[g] EXCEPT !.of = q] ELSE grant[g]
      OBVIOUS
    <2> DEFINE moved == Access!MovedGrants(p, q)[g]
    <2>1. moved = IF grant[g].of = p THEN [grant[g] EXCEPT !.of = q] ELSE grant[g]
      BY DEF Access!MovedGrants
    <2>2. moved.of # p
      BY <1>1, <1>2, <2>1
    <2> QED
      BY <2>1, <2>2 DEF Access!merge, Access!Cascade
  <1>4. ASSUME NEW g \in Grants, grant[g] # Access!Absent
        PROVE  /\ grant'[g] # Access!Absent
               /\ grant'[g].of = IF grant[g].of = p THEN q ELSE grant[g].of
               /\ grant'[g].scope = grant[g].scope /\ grant'[g].role = grant[g].role
               /\ grant'[g].says = grant[g].says
    <2>1. grant[g] \in Access!GrantRows
      BY <1>4
    <2>2. CASE grant[g].of = p
      <3>1. grant'[g] = [grant[g] EXCEPT !.of = q]
        BY <1>3, <1>4, <2>2
      <3> QED
        BY <1>2, <2>1, <2>2, <3>1
    <2>3. CASE grant[g].of # p
      BY <1>3, <1>4, <2>3
    <2> QED
      BY <2>2, <2>3
  <1> QED
    BY <1>1, <1>4

\* Merging two people, neither of them revoked, loses nothing of what they were allowed and
\* forbidden, on any surface and by any handle.
LEMMA MergeKeeps ==
  ASSUME AccessInv, NEW p \in Principals, NEW q \in Principals, Access!merge(p, q),
         principal[p] = "active", principal[q] = "active",
         NEW s \in Surfaces, NEW h \in SUBSET Access!Values
  PROVE  /\ Access!resolve(s, h).allow => Access!resolve(s, h)'.allow
         /\ Access!resolve(s, h).forbid => Access!resolve(s, h)'.forbid
         /\ Access!resolve(s, h).bypass => Access!resolve(s, h)'.bypass
  <1> DEFINE P == Access!PrincipalOf(s, h)
  <1>1. P' = IF P = p THEN q ELSE P
    <2>1. <<s, "id">> \in Access!Identifiers /\ <<s, "username">> \in Access!Identifiers
      BY DEF Access!Identifiers, Access!Values
    <2> QED
      BY <2>1, Merged, Nulls DEF Access!PrincipalOf
  <1>2. P \in Principals \cup {"nobody"}
    BY DEF Access!PrincipalOf, Access!Identifiers, Access!Values, AccessInv, Access!TypeOK
  <1>3. P # "nobody" => P' # "nobody"
    BY <1>1, Nulls
  <1>4. P # "nobody" => (principal'[P'] = "revoked" <=> principal[P] = "revoked")
    BY <1>1, <1>2, Merged DEF AccessInv, Access!TypeOK
  <1>5. Access!Sources(P, s) \subseteq Access!Sources(P, s)'
    <2> SUFFICES ASSUME NEW b \in Access!Sources(P, s) PROVE b \in Access!Sources(P, s)'
      OBVIOUS
    <2>1. PICK g \in Grants :
            /\ grant[g] # Access!Absent /\ grant[g].of = P /\ Access!InScope(grant[g], s)
            /\ \/ b = grant[g].says
               \/ grant[g].role # "none" /\ b = role[grant[g].role]
      BY SourcesAre
    <2>2. /\ grant'[g] # Access!Absent /\ grant'[g].of = P'
          /\ grant'[g].scope = grant[g].scope /\ grant'[g].role = grant[g].role
          /\ grant'[g].says = grant[g].says /\ role' = role
      BY <1>1, <2>1, Merged
    <2> HIDE DEF P
    <2> QED
      BY <2>1, <2>2 DEF Access!Sources, Access!InScope
  <1> HIDE DEF P
  <1>6. CASE P = "nobody"
    BY <1>6 DEF Access!resolve, P, Access!Nothing, Access!Bundle
  <1>7. CASE P # "nobody" /\ principal[P] = "revoked"
    BY <1>3, <1>4, <1>7 DEF Access!resolve, P, Access!Bundle
  <1>8. CASE P # "nobody" /\ principal[P] # "revoked"
    BY <1>3, <1>4, <1>5, <1>8 DEF Access!resolve, P, Access!Bundle
  <1> QED
    BY <1>6, <1>7, <1>8

---------------------------------------------------------------------------
(* Topic streams.                                                           *)

\* A cursor stands at events that are in the log, and is all that a session with one call was told.
TopicsInv ==
  /\ Topics!TypeOK
  /\ \A s \in Sessions : cursor[s] <= Topics!External(s) /\ (s \notin TwoCalls => told[s] = cursor[s])

\* The places of a log that s did not write.
Others(l, s) == {i \in DOMAIN l : l[i] # s}

LEMMA Externals ==
  \A s : Topics!External(s) = Cardinality(Others(log, s)) /\ Topics!External(s)' = Cardinality(Others(log', s))
  <1> SUFFICES ASSUME NEW s
               PROVE  /\ Topics!External(s) = Cardinality(Others(log, s))
                      /\ Topics!External(s)' = Cardinality(Others(log', s))
    OBVIOUS
  <1>1. {i \in DOMAIN log : log[i] # s} = Others(log, s)
    BY DEF Others
  <1>2. {i \in DOMAIN log' : log'[i] # s} = Others(log', s)
    BY DEF Others
  <1>3. Topics!External(s) = Cardinality({i \in DOMAIN log : log[i] # s})
    BY Zenon DEF Topics!External, Topics!Cardinality, Cardinality
  <1>4. Topics!External(s)' = Cardinality({i \in DOMAIN log' : log'[i] # s})
    BY Zenon DEF Topics!External, Topics!Cardinality, Cardinality
  <1> QED
    BY <1>1, <1>2, <1>3, <1>4

\* Their count is a number, and only grows while the log does.
LEMMA Counted ==
  ASSUME NEW l \in Seq(Sessions \cup {Filed}), NEW s
  PROVE  /\ Cardinality(Others(l, s)) \in Nat
         /\ \A w \in Sessions \cup {Filed} : Cardinality(Others(l, s)) <= Cardinality(Others(Append(l, w), s))
  <1>1. \A m \in Seq(Sessions \cup {Filed}) : IsFiniteSet(Others(m, s)) /\ Cardinality(Others(m, s)) \in Nat
    <2> SUFFICES ASSUME NEW m \in Seq(Sessions \cup {Filed})
                 PROVE  IsFiniteSet(Others(m, s)) /\ Cardinality(Others(m, s)) \in Nat
      OBVIOUS
    <2>1. IsFiniteSet(1..Len(m)) /\ Others(m, s) \in SUBSET (1..Len(m))
      BY FS_Interval DEF Others
    <2> QED
      BY <2>1, FS_Subset, FS_CardinalityType
  <1>2. ASSUME NEW w \in Sessions \cup {Filed}
        PROVE  Cardinality(Others(l, s)) <= Cardinality(Others(Append(l, w), s))
    <2>1. Others(l, s) \in SUBSET Others(Append(l, w), s) /\ Append(l, w) \in Seq(Sessions \cup {Filed})
      BY DEF Others
    <2> QED
      BY <1>1, <2>1, FS_Subset
  <1> QED
    BY <1>1, <1>2

LEMMA TopicsInit == Topics!Init => TopicsInv
  <1> SUFFICES ASSUME Topics!Init PROVE TopicsInv
    OBVIOUS
  <1>1. log \in Seq(Sessions \cup {Filed}) /\ log = <<>>
    BY DEF Topics!Init
  <1>2. \A s \in Sessions : Topics!External(s) \in Nat
    BY <1>1, Counted, Externals
  <1>3. cursor = [s \in Sessions |-> 0] /\ told = cursor
    BY DEF Topics!Init, Topics!Zero
  <1>4. exists \in BOOLEAN /\ members \subseteq Sessions /\ showing \subseteq TwoCalls
    BY DEF Topics!Init
  <1> QED
    BY <1>1, <1>2, <1>3, <1>4 DEF TopicsInv, Topics!TypeOK

LEMMA TopicsStep == TopicsInv /\ [Topics!Next]_topicsVars => TopicsInv'
  <1> SUFFICES ASSUME TopicsInv, [Topics!Next]_topicsVars PROVE TopicsInv'
    OBVIOUS
  <1> USE DEF TopicsInv, Topics!TypeOK
  <1>1. \A s \in Sessions : Topics!External(s) \in Nat /\ Topics!Fresh(s) \in Nat
    <2>1. \A s \in Sessions : Topics!External(s) \in Nat
      BY Counted, Externals
    <2> QED
      BY <2>1 DEF Topics!Fresh
  <1>2. log' = log => \A s \in Sessions : Topics!External(s)' = Topics!External(s)
    BY DEF Topics!External
  <1>3. CASE Topics!create \/ \E s \in Sessions : Topics!attach(s) \/ Topics!detach(s)
    <2>1. UNCHANGED <<log, cursor, told, showing>> /\ members' \subseteq Sessions
      BY <1>3 DEF Topics!create, Topics!attach, Topics!detach
    <2>2. exists' \in BOOLEAN
      BY <1>3 DEF Topics!create, Topics!attach, Topics!detach
    <2> QED
      BY <1>1, <1>2, <2>1, <2>2
  <1>4. CASE Topics!remove
    <2>1. /\ log' = <<>> /\ cursor' = [s \in Sessions |-> 0] /\ told' = cursor' /\ showing' = showing
          /\ members' = {} /\ log' \in Seq(Sessions \cup {Filed})
      BY <1>4 DEF Topics!remove, Topics!Zero
    <2>2. \A s \in Sessions : Topics!External(s)' \in Nat
      BY <2>1, Counted, Externals
    <2>3. exists' \in BOOLEAN
      BY <1>4 DEF Topics!remove
    <2> QED
      BY <2>1, <2>2, <2>3
  <1>5. ASSUME NEW w \in Sessions \cup {Filed}, Topics!append(w) PROVE TopicsInv'
    <2>1. UNCHANGED <<exists, members, cursor, told, showing>> /\ log' = Append(log, w)
      BY <1>5 DEF Topics!append
    <2>2. \A s \in Sessions : Topics!External(s)' \in Nat /\ Topics!External(s) <= Topics!External(s)'
      <3>1. log' \in Seq(Sessions \cup {Filed})
        BY <2>1
      <3> QED
        BY <2>1, <3>1, Counted, Externals
    <2> QED
      BY <1>1, <2>1, <2>2
  <1>6. ASSUME NEW s \in Sessions, Topics!Read(s) PROVE TopicsInv'
    <2>1. /\ s \in TwoCalls /\ UNCHANGED <<exists, log, members, cursor>>
          /\ showing' = showing \cup {s} /\ told' = [told EXCEPT ![s] = cursor[s] + Topics!Fresh(s)]
      BY <1>6 DEF Topics!Read
    <2> QED
      BY <1>1, <1>2, <2>1
  <1>7. ASSUME NEW s \in Sessions, Topics!markAnnounced(s) PROVE TopicsInv'
    <2>1. /\ UNCHANGED <<exists, log, members>> /\ showing' = showing \ {s}
          /\ cursor' = IF s \in members THEN [cursor EXCEPT ![s] = Topics!External(s)] ELSE cursor
      BY <1>7 DEF Topics!markAnnounced
    <2>2. CASE s \in TwoCalls
      <3>1. told' = told
        BY <1>7, <2>2 DEF Topics!markAnnounced
      <3> QED
        BY <1>1, <1>2, <2>1, <2>2, <3>1
    <2>3. CASE s \notin TwoCalls
      <3>1. /\ s \in members /\ Topics!Fresh(s) = Topics!External(s) - cursor[s]
            /\ told' = [told EXCEPT ![s] = told[s] + Topics!Fresh(s)]
        BY <1>7, <2>3 DEF Topics!markAnnounced, Topics!Fresh
      <3> QED
        BY <1>1, <1>2, <2>1, <2>3, <3>1
    <2> QED
      BY <2>2, <2>3
  <1>8. CASE UNCHANGED topicsVars
    BY <1>1, <1>2, <1>8 DEF topicsVars
  <1> QED
    BY <1>3, <1>4, <1>5, <1>6, <1>7, <1>8 DEF Topics!Next

\* A session that acknowledges in the call it shows is told of every event of others once, through
\* detaching and coming back, its own writes, and a stream removed and made again.
THEOREM EventsToldOnce == Spec => [](Topics!TypeOK /\ Topics!ToldOnce)
  <1>1. TopicsInv => Topics!TypeOK /\ Topics!ToldOnce
    BY DEF TopicsInv, Topics!ToldOnce, Topics!External
  <1> QED
    BY <1>1, TopicsInit, TopicsStep, EachOnItsOwn, PTL DEF Topics!Spec, Topics!vars, topicsVars

---------------------------------------------------------------------------
(* The check of a message.                                                  *)

\* Calls answered are at most the calls made; whatever lets a message run was read and logged.
CheckInv ==
  /\ Check!TypeOK
  /\ spent <= attempt /\ (phase \in {"start", "call"} => spent < attempt)
  /\ fate \in {"runs", "stopped"} => phase = "done"
  /\ Check!RunsOnlyIfCleared

LEMMA CheckInit == Check!Init => CheckInv
  <1> SUFFICES ASSUME Check!Init PROVE CheckInv
    OBVIOUS
  <1>1. jsonMode \in BOOLEAN /\ logged \in BOOLEAN /\ Check!RunsOnlyIfCleared
    BY DEF Check!Init, Check!RunsOnlyIfCleared
  <1>2. /\ phase = "start" /\ attempt = 1 /\ score = Check!NoLevel /\ spent = 0 /\ billed = 0 /\ fate = "pending"
    BY DEF Check!Init
  <1>3. attempt \in 1..Calls /\ spent \in 0..Calls /\ billed \in 0..Calls /\ spent < attempt
    BY <1>2, CallsAssumption
  <1>4. score \in Check!Levels
    BY <1>2 DEF Check!Levels
  <1> QED
    BY <1>1, <1>2, <1>3, <1>4 DEF CheckInv, Check!TypeOK

LEMMA CheckStep == CheckInv /\ [Check!Next]_checkVars => CheckInv'
  <1> SUFFICES ASSUME CheckInv, [Check!Next]_checkVars PROVE CheckInv'
    OBVIOUS
  <1> USE CallsAssumption
      DEF CheckInv, Check!TypeOK, Check!RunsOnlyIfCleared, Check!Decide, Check!AtMostSix,
          Check!FailSecure, Check!Again
  <1>1. CASE Check!moderate
    BY <1>1 DEF Check!moderate
  <1>2. CASE Check!providerRaw
    <2>1. phase = "call" /\ UNCHANGED <<score, billed, logged>>
      BY <1>2 DEF Check!providerRaw
    <2>2. CASE phase' = "parse" /\ spent' = spent + 1 /\ UNCHANGED <<jsonMode, attempt, fate>>
      BY <2>1, <2>2
    <2>3. CASE jsonMode' = FALSE /\ attempt < Calls /\ attempt' = attempt + 1 /\ UNCHANGED <<phase, spent, fate>>
      <3>1. jsonMode' \in BOOLEAN
        BY <2>3
      <3>2. attempt' \in 1..Calls /\ attempt' > attempt
        BY <2>3
      <3> QED
        BY <2>1, <2>3, <3>1, <3>2
    <2>4. CASE Check!FailSecure /\ UNCHANGED <<jsonMode, attempt, spent>>
      BY <2>1, <2>4
    <2> QED
      BY <1>2, <2>2, <2>3, <2>4 DEF Check!providerRaw
  <1>3. CASE Check!extractJson
    BY <1>3 DEF Check!extractJson
  <1>4. CASE Check!logModerationEvent
    BY <1>4 DEF Check!logModerationEvent
  <1>5. CASE UNCHANGED checkVars
    BY <1>5 DEF checkVars
  <1> QED
    BY <1>1, <1>2, <1>3, <1>4, <1>5 DEF Check!Next

\* A moderated message runs only on a level that compares at most six, read and put on record:
\* refused formats, replies without an object or a level, failures and stops block it.
THEOREM RunsCleared == Spec => [](Check!TypeOK /\ Check!RunsOnlyIfCleared)
  <1>1. CheckInv => Check!TypeOK /\ Check!RunsOnlyIfCleared
    BY DEF CheckInv
  <1> QED
    BY <1>1, CheckInit, CheckStep, EachOnItsOwn, PTL DEF Check!Spec, Check!vars, checkVars

---------------------------------------------------------------------------
(* The requests of a connector.                                             *)

\* A turn that was not asked for brought nothing, and before the first one the chat is unseen.
ChatInv ==
  /\ \A r \in Turns : req[r] = "idle" \/ ~seen => prompt[r] = {}
  /\ Runtime!GivenOnce

RuntimeInv == Runtime!TypeOK /\ ChatInv /\ Runtime!NullIsTheCoresWord

LEMMA RuntimeInit == Runtime!Init => RuntimeInv
  <1> SUFFICES ASSUME Runtime!Init PROVE RuntimeInv
    OBVIOUS
  <1>1. code \in 0..2 /\ downs \in 0..MaxDowns
    BY TurnsAssumption DEF Runtime!Init
  <1>2. prompt \in [Turns -> SUBSET Nat] /\ \A r \in Turns : prompt[r] = {}
    BY DEF Runtime!Init
  <1>3. seen \in BOOLEAN
    BY DEF Runtime!Init
  <1>4. ChatInv
    BY <1>2 DEF ChatInv, Runtime!GivenOnce
  <1>5. /\ proc \in {"loading", "running", "stopping", "exited"}
        /\ req \in [Turns \cup Asks -> {"idle"}] /\ core \in {"up", "down"}
        /\ sock \in [Turns \cup Asks -> {"none"}] /\ turn \in [Turns \cup Asks -> {"none"}]
        /\ kind \in [Asks -> {"resolve", "control", "auth"}]
    BY DEF Runtime!Init, Runtime!Requests
  <1> QED
    BY <1>1, <1>2, <1>3, <1>4, <1>5
       DEF RuntimeInv, Runtime!TypeOK, Runtime!NullIsTheCoresWord, Runtime!Requests, Runtime!Settled

\* Nothing of the chat is touched by a step that asks for nothing, nor by the requests' answers.
LEMMA ChatKept ==
  ASSUME RuntimeInv, UNCHANGED <<seen, prompt>>, \A r \in Turns : req'[r] = "idle" => req[r] = "idle"
  PROVE  ChatInv'
  BY DEF RuntimeInv, ChatInv, Runtime!GivenOnce

LEMMA RuntimeStep == RuntimeInv /\ [Runtime!Next]_runtimeVars => RuntimeInv'
  <1> SUFFICES ASSUME RuntimeInv, [Runtime!Next]_runtimeVars PROVE RuntimeInv'
    OBVIOUS
  <1> USE TurnsAssumption
      DEF RuntimeInv, Runtime!TypeOK, Runtime!NullIsTheCoresWord, Runtime!Requests, Runtime!Settled
  <1>1. CASE Runtime!main \/ Runtime!CoreUp \/ Runtime!shutdown \/ Runtime!Stopped \/ Runtime!deadlinePasses
    BY <1>1, ChatKept DEF Runtime!main, Runtime!CoreUp, Runtime!shutdown, Runtime!Stopped,
       Runtime!deadlinePasses, Runtime!client, Runtime!server
  <1>2. CASE Runtime!CoreDown
    BY <1>2, ChatKept DEF Runtime!CoreDown
  <1>3. ASSUME NEW r \in Turns \cup Asks, Runtime!request(r) PROVE RuntimeInv'
    <2>1. /\ UNCHANGED <<proc, code, kind, core, downs>> /\ req[r] = "idle"
          /\ req' = [req EXCEPT ![r] = "sent"]
          /\ sock' = [sock EXCEPT ![r] = IF core = "up" THEN "open" ELSE "dead"]
          /\ turn' = [turn EXCEPT ![r] = IF core = "up" THEN "running" ELSE "none"]
      BY <1>3 DEF Runtime!request, Runtime!server
    <2>2. CASE r \in Turns
      <3>1. /\ seen' = TRUE /\ prompt' = [prompt EXCEPT ![r] = IF seen THEN {r} ELSE 1..r]
            /\ \A q \in Turns \ {r} : q < r \/ req[q] = "idle"
        BY <1>3, <2>2 DEF Runtime!request, Runtime!Forward
      <3>2. prompt' \in [Turns -> SUBSET Nat] /\ \A q \in Turns : prompt'[q] \subseteq 1..q
        <4> DEFINE given == IF seen THEN {r} ELSE 1..r
        <4>1. given \subseteq 1..r
          BY <2>2
        <4>2. prompt' = [prompt EXCEPT ![r] = given]
          BY <3>1
        <4> HIDE DEF given
        <4>3. given \in SUBSET Nat
          BY <2>2, <4>1
        <4> QED
          BY <2>2, <4>1, <4>2, <4>3
      <3>3. \A q \in Turns \ {r} : prompt'[q] = prompt[q] /\ prompt'[q] \cap prompt'[r] = {}
        BY <2>2, <3>1 DEF ChatInv
      <3>4. \A q \in Turns \ {r} : req'[q] = req[q] /\ (~seen => prompt[q] = {})
        BY <2>1 DEF ChatInv
      <3>5. ChatInv'
        BY <2>1, <2>2, <3>1, <3>3, <3>4 DEF ChatInv, Runtime!GivenOnce
      <3>6. seen' \in BOOLEAN
        BY <3>1
      <3> QED
        BY <2>1, <3>2, <3>5, <3>6
    <2>3. CASE r \notin Turns
      BY <1>3, <2>1, <2>3, ChatKept DEF Runtime!request
    <2> QED
      BY <2>2, <2>3
  <1>4. ASSUME NEW r \in Turns \cup Asks, Runtime!Headers(r) PROVE RuntimeInv'
    BY <1>4, ChatKept DEF Runtime!Headers, Runtime!server
  <1>5. ASSUME NEW r \in Turns \cup Asks, Runtime!Ends(r) PROVE RuntimeInv'
    <2> DEFINE closed == [sock EXCEPT ![r] = IF Runtime!Heard(r) THEN "none" ELSE sock[r]]
    <2>1. /\ UNCHANGED <<proc, code, seen, prompt, kind, core, downs>> /\ turn[r] = "running"
          /\ sock' = closed
      BY <1>5 DEF Runtime!Ends, Runtime!server
    <2>2. PICK over \in {"over", "refused"}, how \in {"answer", "error", "null"} :
            /\ turn' = [turn EXCEPT ![r] = over] /\ (how = "null" => over = "refused")
            /\ req' = [req EXCEPT ![r] = IF Runtime!Heard(r) THEN how ELSE req[r]]
      BY <1>5 DEF Runtime!Ends, Runtime!Done, Runtime!RefusedBy
    <2>3. closed \in [Turns \cup Asks -> {"none", "open", "dead", "quiet"}]
      OBVIOUS
    <2>4. Runtime!Heard(r) => req[r] # "idle"
      BY DEF Runtime!Heard
    <2> HIDE DEF closed
    <2>5. ChatInv'
      BY <2>1, <2>2, <2>4, ChatKept
    <2>6. Runtime!TypeOK'
      BY <2>1, <2>2, <2>3
    <2> QED
      BY <2>1, <2>2, <2>5, <2>6
  <1>6. ASSUME NEW r \in Turns \cup Asks, NEW how \in {"nothing", "error"}, Runtime!Alive(r),
               Runtime!SettleWith(r, how)
        PROVE  RuntimeInv'
    BY <1>6, ChatKept DEF Runtime!SettleWith, Runtime!server
  <1>7. CASE UNCHANGED runtimeVars
    BY <1>7, ChatKept DEF runtimeVars
  <1> QED
    BY <1>1, <1>2, <1>3, <1>4, <1>5, <1>6, <1>7
       DEF Runtime!Next, Runtime!End, Runtime!RequestError, Runtime!Refused, Runtime!watchClose, Runtime!guard

\* The session is given no message of a chat twice, and a credential is called unknown on the
\* core's word alone, though the core goes down under its requests and sockets die or go quiet.
THEOREM RequestsKept == Spec => [](Runtime!TypeOK /\ Runtime!GivenOnce /\ Runtime!NullIsTheCoresWord)
  <1>1. RuntimeInv => Runtime!TypeOK /\ Runtime!GivenOnce /\ Runtime!NullIsTheCoresWord
    BY DEF RuntimeInv, ChatInv
  <1> QED
    BY <1>1, RuntimeInit, RuntimeStep, EachOnItsOwn, PTL DEF Runtime!vars, runtimeVars

---------------------------------------------------------------------------
(* When a job runs next.                                                    *)

\* A set of naturals that is not empty has a least one.
LEMMA Least == \A S \in SUBSET Nat : S # {} => \E m \in S : \A n \in S : m <= n
  <1> SUFFICES ASSUME NEW S \in SUBSET Nat, S # {} PROVE \E m \in S : \A n \in S : m <= n
    OBVIOUS
  <1> DEFINE R == OpToRel(<, Nat)
  <1>1. IsWellFoundedOn(R, Nat)
    BY NatLessThanWellFounded
  <1>2. \A n, m \in Nat : n < m => <<n, m>> \in R
    BY DEF OpToRel
  <1> HIDE DEF R
  <1>3. PICK m \in S : \A n \in S : ~(<<n, m>> \in R)
    BY <1>1, WFMin
  <1>4. \A n \in S : ~(n < m)
    BY <1>2, <1>3
  <1> QED
    BY <1>4

\* The scan finds the first minute after t that matches, if there is one up to the horizon.
LEMMA Scanned ==
  ASSUME NEW c, NEW t \in 0..Horizon
  PROVE  LET n == Cadence!nextRun(c, t) IN
           /\ n = None \/ (n \in 0..2 * Horizon /\ n > t)
           /\ \A u \in Cadence!Runs(c) : u > t => n # None /\ n <= u
  <1> USE ClockAssumption
  <1> DEFINE hits == {u \in Cadence!ScanFrom(t)..t + Horizon : Cadence!matches(Cadence!parseCron(c), u)}
             n == Cadence!nextRun(c, t)
  <1>1. n = IF hits = {} THEN None ELSE CHOOSE u \in hits : \A v \in hits : u <= v
    BY DEF Cadence!nextRun
  <1>2. hits \in SUBSET Nat /\ \A u \in hits : u > t /\ u <= t + Horizon
    BY DEF Cadence!ScanFrom
  <1>3. \A u \in Cadence!Runs(c) : u > t => u \in hits
    BY DEF Cadence!ScanFrom, Cadence!Runs
  <1> HIDE DEF hits, n
  <1>4. CASE hits = {}
    <2>1. n = None
      BY <1>1, <1>4
    <2>2. \A u \in Cadence!Runs(c) : ~(u > t)
      BY <1>3, <1>4
    <2> QED
      BY <2>1, <2>2 DEF n
  <1>5. CASE hits # {}
    <2>1. \E m \in hits : \A v \in hits : m <= v
      BY <1>2, <1>5, Least
    <2>2. n \in hits /\ \A v \in hits : n <= v
      BY <1>1, <1>5, <2>1
    <2> QED
      <3>1. n \in 0..2 * Horizon /\ n > t /\ n # None
        BY <1>2, <2>2
      <3>2. \A u \in Cadence!Runs(c) : u > t => n <= u
        BY <1>3, <2>2
      <3> QED
        BY <3>1, <3>2 DEF n
  <1> QED
    BY <1>4, <1>5

---------------------------------------------------------------------------
(* What a schedule compiles to.                                             *)

Day == [as : {"number", "name", "NaN"}, n : Int]
CronPart == [range : {"*", "n", "a-b"}, lo : Int, hi : Int, step : Int]
Cron == [Cadence!Fields -> SUBSET CronPart]
Schedule ==
  [by : {"time"}, minute : Int, hour : Int, days : SUBSET Day] \cup [by : {"every"}, n : Int]
    \cup [by : {"cron"}, cron : Cron]

\* A bare star is every value of its field.
LEMMA StarSet ==
  ASSUME NEW f \in Cadence!Fields
  PROVE  Cadence!parseField(f, {Cadence!Star}) = Cadence!First[f]..Cadence!Last[f]
  <1> DEFINE lo == Cadence!First[f]   hi == Cadence!Last[f]
  <1>1. lo \in Int /\ hi \in Int /\ lo <= hi
    BY ClockAssumption DEF Cadence!Fields, Cadence!First, Cadence!Last
  <1>2. Cadence!PartSet(f, Cadence!Star) = {v \in lo..hi : (v - lo) % 1 = 0}
    BY <1>1 DEF Cadence!PartSet, Cadence!Star
  <1> HIDE DEF lo, hi
  <1>3. Cadence!PartSet(f, Cadence!Star) = lo..hi /\ lo..hi # {}
    BY <1>1, <1>2
  <1> QED
    BY <1>3 DEF Cadence!parseField, Cadence!Bad, lo, hi

\* Single values that are in the range of their field are those values; one that is not makes the
\* field invalid.
LEMMA EachSet ==
  ASSUME NEW f \in Cadence!Fields, NEW D \in SUBSET Int, D # {},
         Cadence!parseField(f, {Cadence!Each(d) : d \in D}) # Cadence!Bad
  PROVE  Cadence!parseField(f, {Cadence!Each(d) : d \in D}) = D
  <1> DEFINE lo == Cadence!First[f]   hi == Cadence!Last[f]   P == {Cadence!Each(d) : d \in D}
  <1>1. lo \in Int /\ hi \in Int
    BY ClockAssumption DEF Cadence!Fields, Cadence!First, Cadence!Last
  <1>2. \A d \in D : Cadence!PartSet(f, Cadence!Each(d)) =
                       IF d < lo \/ d > hi THEN {} ELSE {v \in d..d : (v - d) % 1 = 0}
    BY <1>1 DEF Cadence!PartSet, Cadence!Each, Cadence!Bad
  <1> HIDE DEF lo, hi
  <1>3. \A d \in D : d < lo \/ d > hi => Cadence!PartSet(f, Cadence!Each(d)) = {}
    BY <1>2
  <1>4. \A d \in D : ~(d < lo \/ d > hi) => Cadence!PartSet(f, Cadence!Each(d)) = {d}
    BY <1>2
  <1>5. \A p \in P : Cadence!PartSet(f, p) # {}
    BY DEF Cadence!parseField, Cadence!Bad
  <1>6. \A d \in D : Cadence!PartSet(f, Cadence!Each(d)) = {d}
    BY <1>3, <1>4, <1>5
  <1>7. Cadence!parseField(f, P) = UNION {Cadence!PartSet(f, p) : p \in P}
    BY <1>5 DEF Cadence!parseField, Cadence!Bad
  <1>8. UNION {Cadence!PartSet(f, p) : p \in P} = D
    <2>1. \A p \in P : \E d \in D : Cadence!PartSet(f, p) = {d}
      BY <1>6
    <2>2. \A d \in D : \E p \in P : Cadence!PartSet(f, p) = {d}
      BY <1>6
    <2> HIDE DEF P
    <2>3. ASSUME NEW x \in UNION {Cadence!PartSet(f, p) : p \in P} PROVE x \in D
      <3>1. PICK p \in P : x \in Cadence!PartSet(f, p)
        OBVIOUS
      <3> QED
        BY <2>1, <3>1
    <2>4. ASSUME NEW d \in D PROVE d \in UNION {Cadence!PartSet(f, p) : p \in P}
      <3>1. PICK p \in P : Cadence!PartSet(f, p) = {d}
        BY <2>2
      <3> QED
        BY <3>1
    <2> QED
      BY <2>3, <2>4
  <1> QED
    BY <1>7, <1>8

\* The fields of a moment lie in their ranges.
LEMMA DateIn ==
  ASSUME NEW t \in Nat
  PROVE  /\ \A f \in Cadence!Fields : Cadence!Date(t)[f] \in Cadence!First[f]..Cadence!Last[f]
         /\ Cadence!Date(t).minute = t % (LastMinute + 1)
  <1> DEFINE day == t \div ((LastMinute + 1) * (LastHour + 1))
  <1>1. \A x \in Nat, m \in Nat \ {0} : x % m \in 0..m - 1 /\ x \div m \in Nat
    OBVIOUS
  <1>2. (LastMinute + 1) * (LastHour + 1) \in Nat \ {0}
    BY ClockAssumption
  <1>3. day \in Nat /\ t \div (LastMinute + 1) \in Nat
    BY <1>1, <1>2, ClockAssumption
  <1> HIDE DEF day
  <1>4. day \div LastDom \in Nat
    BY <1>1, <1>3, ClockAssumption
  <1>5. /\ t % (LastMinute + 1) \in 0..LastMinute
        /\ (t \div (LastMinute + 1)) % (LastHour + 1) \in 0..LastHour
        /\ (day % LastDom) + 1 \in 1..LastDom
        /\ ((day \div LastDom) % LastMonth) + 1 \in 1..LastMonth
        /\ day % 7 \in 0..6
    BY <1>1, <1>3, <1>4, ClockAssumption
  <1> QED
    BY <1>5 DEF Cadence!Date, Cadence!Fields, Cadence!First, Cadence!Last, day

\* The remainder is the only one.
LEMMA Remainder ==
  ASSUME NEW x \in Nat, NEW n \in Nat \ {0}, NEW c \in Int, NEW b \in 0..n - 1, x = n * c + b
  PROVE  x % n = b
  <1> DEFINE q == x \div n   r == x % n   e == c - q
  <1>1. q \in Int /\ r \in 0..n - 1 /\ x = n * q + r
    OBVIOUS
  <1>2. e \in Int /\ n * e = r - b
    <2>1. n * e = n * c - n * q
      BY <1>1
    <2> HIDE DEF q, r
    <2> QED
      BY <1>1, <2>1
  <1> HIDE DEF q, r, e
  <1>3. e >= 1 => n * e >= n
    BY <1>2
  <1>4. e <= -1 => n * e <= -n
    BY <1>2
  <1>5. e = 0
    BY <1>1, <1>2, <1>3, <1>4
  <1>6. n * e = 0
    BY <1>5
  <1>7. r = b
    BY <1>1, <1>2, <1>6
  <1> QED
    BY <1>7 DEF r

\* A step that divides the hour divides it at the same minutes of every hour.
LEMMA HourAndStep ==
  ASSUME NEW t \in Nat, NEW m \in Nat \ {0}, NEW n \in Nat \ {0}, m % n = 0
  PROVE  (t % m) % n = t % n
  <1> DEFINE q == t \div m   v == t % m   k == m \div n
  <1>1. q \in Nat /\ v \in Nat /\ k \in Nat /\ t = m * q + v /\ m = n * k
    OBVIOUS
  <1> HIDE DEF q, v, k
  <1> DEFINE a == v \div n   b == v % n
  <1>2. a \in Nat /\ b \in 0..n - 1 /\ v = n * a + b
    BY <1>1
  <1> HIDE DEF a, b
  <1>3. n * k * q = n * (k * q) /\ k * q \in Nat
    BY <1>1
  <1>4. n * (k * q) + n * a = n * (k * q + a) /\ k * q + a \in Int
    BY <1>1, <1>2, <1>3
  <1>5. t = n * (k * q + a) + b
    BY <1>1, <1>2, <1>3, <1>4
  <1>6. t % n = b
    BY <1>2, <1>4, <1>5, Remainder
  <1> QED
    BY <1>6 DEF b, v

\* What toCron makes of a schedule it does not refuse.
Compiled(s) ==
  CASE s.by = "cron" -> s.cron
    [] s.by = "every" -> [Cadence!Every EXCEPT !.minute = {[Cadence!Star EXCEPT !.step = Cadence!Clamp(s.n)]}]
    [] s.by = "time" -> [Cadence!Every EXCEPT !.minute = {Cadence!Each(s.minute)}, !.hour = {Cadence!Each(s.hour)},
                           !.dow = IF Cadence!Days(s.days) = {} THEN {Cadence!Star} ELSE Cadence!DowOf(s.days)]

LEMMA NotRefused ==
  ASSUME NEW s \in Schedule, Cadence!toCron(s) # None
  PROVE  Cadence!toCron(s) = Compiled(s) /\ Cadence!Valid(Compiled(s)) /\ (s.by = "every" => s.n # 0)
  BY DEF Cadence!toCron, Compiled

\* When the fields of a cron match a moment.
LEMMA MatchesAre ==
  ASSUME NEW c, NEW t
  PROVE  Cadence!matches(Cadence!parseCron(c), t) <=>
           LET d == Cadence!Date(t)
               In(f) == d[f] \in Cadence!parseField(f, c[f]) IN
           /\ In("minute") /\ In("hour") /\ In("month")
           /\ \/ c["dom"] = {Cadence!Star} /\ c["dow"] = {Cadence!Star}
              \/ c["dom"] = {Cadence!Star} /\ In("dow")
              \/ c["dow"] = {Cadence!Star} /\ In("dom")
              \/ c["dom"] # {Cadence!Star} /\ c["dow"] # {Cadence!Star} /\ (In("dom") \/ In("dow"))
  <1> DEFINE C == Cadence!parseCron(c)   d == Cadence!Date(t)
  <1>1. \A f \in Cadence!Fields : /\ C[f].set = Cadence!parseField(f, c[f])
                                  /\ C[f].star = (c[f] = {Cadence!Star})
    BY DEF Cadence!parseCron
  <1>2. {"minute", "hour", "dom", "month", "dow"} = Cadence!Fields
    BY DEF Cadence!Fields
  <1> HIDE DEF C
  <1>3. Cadence!matches(C, t) <=>
          /\ d["minute"] \in C["minute"].set /\ d["hour"] \in C["hour"].set /\ d["month"] \in C["month"].set
          /\ Cadence!DaysMatch(C, d)
    BY DEF Cadence!matches
  <1> HIDE DEF d
  <1>4. Cadence!DaysMatch(C, d) <=>
          \/ C["dom"].star /\ C["dow"].star
          \/ C["dom"].star /\ d["dow"] \in C["dow"].set
          \/ C["dow"].star /\ d["dom"] \in C["dom"].set
          \/ ~C["dom"].star /\ ~C["dow"].star /\ (d["dom"] \in C["dom"].set \/ d["dow"] \in C["dow"].set)
    BY DEF Cadence!DaysMatch
  <1>5. /\ C["minute"].set = Cadence!parseField("minute", c["minute"])
        /\ C["hour"].set = Cadence!parseField("hour", c["hour"])
        /\ C["month"].set = Cadence!parseField("month", c["month"])
        /\ C["dom"].set = Cadence!parseField("dom", c["dom"]) /\ C["dow"].set = Cadence!parseField("dow", c["dow"])
        /\ C["dom"].star = (c["dom"] = {Cadence!Star}) /\ C["dow"].star = (c["dow"] = {Cadence!Star})
    BY <1>1, <1>2
  <1> QED
    BY <1>3, <1>4, <1>5 DEF C, d

\* Five fields run when the rule for five fields says so.
LEMMA CronRuns ==
  ASSUME NEW s \in [by : {"cron"}, cron : Cron], NEW t \in Nat
  PROVE  Cadence!matches(Cadence!parseCron(s.cron), t) <=> Cadence!Says(s, t)
  <1> DEFINE c == s.cron   d == Cadence!Date(t)
             In(f) == d[f] \in Cadence!parseField(f, c[f])
             asked == {f \in {"dom", "dow"} : c[f] # {Cadence!Star}}
  <1>1. s.by = "cron"
    OBVIOUS
  <1>2. Cadence!Says(s, t) <=>
          /\ \A f \in {"minute", "hour", "month"} : In(f)
          /\ asked = {} \/ \E f \in asked : In(f)
    BY <1>1 DEF Cadence!Says
  <1>3. Cadence!matches(Cadence!parseCron(c), t) <=>
           /\ In("minute") /\ In("hour") /\ In("month")
           /\ \/ c["dom"] = {Cadence!Star} /\ c["dow"] = {Cadence!Star}
              \/ c["dom"] = {Cadence!Star} /\ In("dow")
              \/ c["dow"] = {Cadence!Star} /\ In("dom")
              \/ c["dom"] # {Cadence!Star} /\ c["dow"] # {Cadence!Star} /\ (In("dom") \/ In("dow"))
    BY MatchesAre
  <1> HIDE DEF c, d, In
  <1>4. asked = {} <=> c["dom"] = {Cadence!Star} /\ c["dow"] = {Cadence!Star}
    OBVIOUS
  <1>5. (\E f \in asked : In(f)) <=>
          \/ c["dom"] # {Cadence!Star} /\ In("dom")
          \/ c["dow"] # {Cadence!Star} /\ In("dow")
    OBVIOUS
  <1> HIDE DEF asked
  <1>6. Cadence!matches(Cadence!parseCron(c), t) <=> Cadence!Says(s, t)
    BY <1>2, <1>3, <1>4, <1>5
  <1> QED
    BY <1>6 DEF c

\* Minutes that divide the hour are that far apart, over the end of an hour too.
LEMMA EveryRuns ==
  ASSUME NEW s \in [by : {"every"}, n : Int], Cadence!Plain(s), NEW t \in Nat
  PROVE  Cadence!matches(Cadence!parseCron(Compiled(s)), t) <=> Cadence!Says(s, t)
  <1> USE ClockAssumption
  <1> DEFINE n == s.n   d == Cadence!Date(t)   c == Compiled(s)   p == [Cadence!Star EXCEPT !.step = n]
             ends == {v \in 0..LastMinute : v % n = 0}
  <1>1. s.by = "every" /\ n \in 1..LastMinute /\ n \in Nat \ {0} /\ (LastMinute + 1) % n = 0
    BY DEF Cadence!Plain
  <1>2. Cadence!Clamp(n) = n
    BY <1>1 DEF Cadence!Clamp
  <1>3. c = [Cadence!Every EXCEPT !["minute"] = {p}]
    BY <1>1, <1>2 DEF Compiled
  <1>4. \A f \in Cadence!Fields : c[f] = IF f = "minute" THEN {p} ELSE {Cadence!Star}
    BY <1>3 DEF Cadence!Every, Cadence!Fields
  <1> HIDE DEF c
  <1>5. Cadence!PartSet("minute", p) = {v \in 0..LastMinute : (v - 0) % n = 0}
    BY <1>1 DEF Cadence!PartSet, Cadence!Star, Cadence!First, Cadence!Last
  <1>6. \A v \in 0..LastMinute : v - 0 = v
    OBVIOUS
  <1>7. Cadence!PartSet("minute", p) = ends
    BY <1>5, <1>6
  <1>8. 0 \in ends
    BY <1>1
  <1> HIDE DEF ends
  <1>9. Cadence!parseField("minute", {p}) = ends
    BY <1>7, <1>8 DEF Cadence!parseField, Cadence!Bad
  <1> HIDE DEF p
  <1>10. {"minute", "hour", "dom", "month", "dow"} = Cadence!Fields
    BY DEF Cadence!Fields
  <1>11. \A f \in Cadence!Fields : f # "minute" => d[f] \in Cadence!parseField(f, c[f])
    BY <1>4, StarSet, DateIn
  <1>12. d["minute"] \in Cadence!parseField("minute", c["minute"]) <=> d["minute"] \in ends
    BY <1>4, <1>9, <1>10
  <1>13. Cadence!matches(Cadence!parseCron(c), t) <=> d["minute"] \in ends
    BY <1>4, <1>10, <1>11, <1>12, MatchesAre
  <1>14. d["minute"] = t % (LastMinute + 1) /\ d["minute"] \in 0..LastMinute
    BY <1>10, DateIn DEF Cadence!First, Cadence!Last
  <1>15. d["minute"] \in ends <=> d["minute"] % n = 0
    BY <1>14 DEF ends
  <1>16. d["minute"] % n = t % n
    BY <1>1, <1>14, HourAndStep
  <1>17. Cadence!Says(s, t) <=> t % n = 0
    BY <1>1 DEF Cadence!Says
  <1> QED
    BY <1>13, <1>15, <1>16, <1>17 DEF c

\* A time on some days is that minute of that hour on those days, and on every day when there are none.
LEMMA TimeRuns ==
  ASSUME NEW s \in [by : {"time"}, minute : Int, hour : Int, days : SUBSET Day],
         Cadence!Plain(s), Cadence!Valid(Compiled(s)), NEW t \in Nat
  PROVE  Cadence!matches(Cadence!parseCron(Compiled(s)), t) <=> Cadence!Says(s, t)
  <1> DEFINE d == Cadence!Date(t)   c == Compiled(s)   D == Cadence!Days(s.days)
  <1>1. s.by = "time" /\ s.minute \in Int /\ s.hour \in Int /\ s.days \in SUBSET Day
    OBVIOUS
  <1>2. c = [Cadence!Every EXCEPT !["minute"] = {Cadence!Each(s.minute)}, !["hour"] = {Cadence!Each(s.hour)},
               !["dow"] = IF D = {} THEN {Cadence!Star} ELSE Cadence!DowOf(s.days)]
    BY <1>1 DEF Compiled
  <1>3. /\ c["minute"] = {Cadence!Each(s.minute)} /\ c["hour"] = {Cadence!Each(s.hour)}
        /\ c["dom"] = {Cadence!Star} /\ c["month"] = {Cadence!Star}
        /\ c["dow"] = IF D = {} THEN {Cadence!Star} ELSE Cadence!DowOf(s.days)
    BY <1>2 DEF Cadence!Every, Cadence!Fields
  <1>4. \A f \in Cadence!Fields : Cadence!parseField(f, c[f]) # Cadence!Bad
    BY DEF Cadence!Valid
  <1> HIDE DEF c
  <1>5. {"minute", "hour", "dom", "month", "dow"} = Cadence!Fields
    BY DEF Cadence!Fields
  <1>6. \A x \in s.days : x.as \in {"number", "name"} /\ x.n \in 0..6
    BY <1>1 DEF Cadence!Plain, Day
  <1>7. D = {x.n : x \in s.days}
    <2>1. \A x \in s.days : Cadence!DayOf(x) = {x.n}
      BY <1>6 DEF Cadence!DayOf
    <2> QED
      BY <2>1 DEF Cadence!Days
  <1>8. D \in SUBSET Int
    BY <1>6, <1>7
  <1> HIDE DEF D
  <1>9. \A f \in Cadence!Fields, x \in Int :
           Cadence!parseField(f, {Cadence!Each(x)}) # Cadence!Bad => Cadence!parseField(f, {Cadence!Each(x)}) = {x}
    <2> SUFFICES ASSUME NEW f \in Cadence!Fields, NEW x \in Int,
                        Cadence!parseField(f, {Cadence!Each(x)}) # Cadence!Bad
                 PROVE  Cadence!parseField(f, {Cadence!Each(x)}) = {x}
      OBVIOUS
    <2>1. {Cadence!Each(y) : y \in {x}} = {Cadence!Each(x)} /\ {x} \in SUBSET Int /\ {x} # {}
      OBVIOUS
    <2>2. Cadence!parseField(f, {Cadence!Each(y) : y \in {x}}) # Cadence!Bad
      BY <2>1
    <2>3. Cadence!parseField(f, {Cadence!Each(y) : y \in {x}}) = {x}
      BY <2>1, <2>2, EachSet
    <2> QED
      BY <2>1, <2>3
  <1>10. /\ d["minute"] \in Cadence!parseField("minute", c["minute"]) <=> d["minute"] = s.minute
         /\ d["hour"] \in Cadence!parseField("hour", c["hour"]) <=> d["hour"] = s.hour
    <2>1. Cadence!parseField("minute", {Cadence!Each(s.minute)}) = {s.minute}
      BY <1>1, <1>3, <1>4, <1>5, <1>9
    <2>2. Cadence!parseField("hour", {Cadence!Each(s.hour)}) = {s.hour}
      BY <1>1, <1>3, <1>4, <1>5, <1>9
    <2> QED
      BY <1>3, <2>1, <2>2
  <1>11. d["month"] \in Cadence!parseField("month", c["month"])
    BY <1>3, <1>5, StarSet, DateIn
  <1>12. Cadence!matches(Cadence!parseCron(c), t) <=>
           /\ d["minute"] = s.minute /\ d["hour"] = s.hour
           /\ c["dow"] = {Cadence!Star} \/ d["dow"] \in Cadence!parseField("dow", c["dow"])
    <2>1. d["dom"] \in Cadence!parseField("dom", c["dom"])
      BY <1>3, <1>5, StarSet, DateIn
    <2> QED
      BY <1>3, <1>10, <1>11, <2>1, MatchesAre
  <1>13. (c["dow"] = {Cadence!Star} \/ d["dow"] \in Cadence!parseField("dow", c["dow"]))
           <=> (s.days = {} \/ \E x \in s.days : x.n = d["dow"])
    <2>1. CASE D = {}
      <3>1. s.days = {}
        BY <1>7, <2>1
      <3> QED
        BY <1>3, <2>1, <3>1
    <2>2. CASE D # {}
      <3>1. c["dow"] = {Cadence!Each(x) : x \in D}
        BY <1>3, <2>2 DEF Cadence!DowOf, D
      <3>2. Cadence!parseField("dow", c["dow"]) # Cadence!Bad
        BY <1>4, <1>5
      <3>3. Cadence!parseField("dow", c["dow"]) = D
        BY <1>5, <1>8, <2>2, <3>1, <3>2, EachSet
      <3>4. c["dow"] # {Cadence!Star}
        <4>1. PICK x \in D : TRUE
          BY <2>2
        <4>2. Cadence!Each(x).range # Cadence!Star.range
          BY DEF Cadence!Each, Cadence!Star
        <4>3. Cadence!Each(x) # Cadence!Star
          BY <4>2
        <4> QED
          BY <3>1, <4>1, <4>3
      <3>5. s.days # {}
        BY <1>7, <2>2
      <3> QED
        BY <1>7, <3>3, <3>4, <3>5
    <2> QED
      BY <2>1, <2>2
  <1>14. Cadence!Says(s, t) <=>
           d["minute"] = s.minute /\ d["hour"] = s.hour /\ (s.days = {} \/ \E x \in s.days : x.n = d["dow"])
    BY <1>1 DEF Cadence!Says
  <1> HIDE DEF d
  <1> QED
    BY <1>12, <1>13, <1>14 DEF c

\* Any schedule that is not refused, and is plain, runs when it says.
LEMMA AsWritten ==
  ASSUME NEW s \in Schedule, Cadence!Plain(s), Cadence!Valid(Compiled(s))
  PROVE  Cadence!Runs(Compiled(s)) = {t \in 0..Horizon : Cadence!Says(s, t)}
  <1>1. CASE s \in [by : {"time"}, minute : Int, hour : Int, days : SUBSET Day]
    BY <1>1, TimeRuns, ClockAssumption DEF Cadence!Runs
  <1>2. CASE s \in [by : {"every"}, n : Int]
    BY <1>2, EveryRuns, ClockAssumption DEF Cadence!Runs
  <1>3. CASE s \in [by : {"cron"}, cron : Cron]
    <2>1. Compiled(s) = s.cron
      BY <1>3 DEF Compiled
    <2> QED
      BY <1>3, <2>1, CronRuns, ClockAssumption DEF Cadence!Runs
  <1> QED
    BY <1>1, <1>2, <1>3 DEF Schedule

LEMMA CronWith ==
  ASSUME NEW c \in Cron, NEW f \in Cadence!Fields, NEW x \in SUBSET CronPart
  PROVE  [c EXCEPT ![f] = x] \in Cron
  BY DEF Cron

\* Whatever is not refused compiles to five cron fields.
LEMMA CompiledIn ==
  ASSUME NEW s \in Schedule
  PROVE  Compiled(s) \in Cron
  <1>1. Cadence!Star \in CronPart /\ \A n \in Int : Cadence!Each(n) \in CronPart /\ [Cadence!Star EXCEPT !.step = n] \in CronPart
    BY DEF Cadence!Star, Cadence!Each, CronPart
  <1>2. Cadence!Every \in Cron
    BY <1>1 DEF Cadence!Every, Cron
  <1>3. CASE s \in [by : {"time"}, minute : Int, hour : Int, days : SUBSET Day]
    <2>1. s.by = "time" /\ s.minute \in Int /\ s.hour \in Int /\ s.days \in SUBSET Day
      BY <1>3
    <2>2. \A d \in Cadence!Days(s.days) : d \in Int
      BY DEF Cadence!Days, Cadence!DayOf
    <2>3. Cadence!DowOf(s.days) \in SUBSET CronPart
      BY <1>1, <2>2 DEF Cadence!DowOf
    <2> DEFINE dow == IF Cadence!Days(s.days) = {} THEN {Cadence!Star} ELSE Cadence!DowOf(s.days)
    <2>4. dow \in SUBSET CronPart
      BY <1>1, <2>3
    <2>5. Compiled(s) = [Cadence!Every EXCEPT !["minute"] = {Cadence!Each(s.minute)},
                           !["hour"] = {Cadence!Each(s.hour)}, !["dow"] = dow]
      BY <2>1 DEF Compiled
    <2> HIDE DEF dow
    <2>6. {Cadence!Each(s.minute)} \in SUBSET CronPart /\ {Cadence!Each(s.hour)} \in SUBSET CronPart
      BY <1>1, <2>1
    <2>7. {"minute", "hour", "dow"} \subseteq Cadence!Fields
      BY DEF Cadence!Fields
    <2>8. [Cadence!Every EXCEPT !["minute"] = {Cadence!Each(s.minute)}] \in Cron
      BY <1>2, <2>6, <2>7, CronWith
    <2>9. [Cadence!Every EXCEPT !["minute"] = {Cadence!Each(s.minute)}, !["hour"] = {Cadence!Each(s.hour)}] \in Cron
      BY <2>6, <2>7, <2>8, CronWith
    <2> QED
      BY <2>4, <2>5, <2>7, <2>9, CronWith
  <1>4. CASE s \in [by : {"every"}, n : Int]
    <2>1. Cadence!Clamp(s.n) \in Int
      BY <1>4, ClockAssumption DEF Cadence!Clamp
    <2>2. Compiled(s) = [Cadence!Every EXCEPT !["minute"] = {[Cadence!Star EXCEPT !.step = Cadence!Clamp(s.n)]}]
      BY <1>4 DEF Compiled
    <2> QED
      BY <1>1, <1>2, <2>1, <2>2 DEF Cron
  <1>5. CASE s \in [by : {"cron"}, cron : Cron]
    BY <1>5 DEF Compiled
  <1> QED
    BY <1>3, <1>4, <1>5 DEF Schedule

LEMMA WrittenAre == Written \subseteq Schedule
  <1> USE DEF Day, Cron, CronPart
  <1>1. Number(1) \in Day /\ Number(3) \in Day /\ [as |-> "name", n |-> 1] \in Day
    BY DEF Number
  <1>2. EveryField \in Cron
    BY DEF EveryField, Cadence!Fields
  <1>3. \A n \in {0, 1, 2, 9} : Only(n) \in SUBSET CronPart
    BY DEF Only
  <1>4. {[range |-> "a-b", lo |-> 1, hi |-> 3, step |-> 1]} \in SUBSET CronPart
    OBVIOUS
  <1> HIDE DEF CronPart, Day
  <1> HIDE DEF Cron
  <1>5. {"minute", "hour", "dom", "dow"} \subseteq Cadence!Fields
    BY DEF Cadence!Fields
  <1> DEFINE c == [EveryField EXCEPT !["minute"] = Only(1), !["dom"] = Only(2),
                                     !["dow"] = {[range |-> "a-b", lo |-> 1, hi |-> 3, step |-> 1]}]
             e == [EveryField EXCEPT !["hour"] = Only(0), !["minute"] = Only(9)]
  <1>6. c \in Cron
    <2> DEFINE one == [EveryField EXCEPT !["minute"] = Only(1)]
    <2>1. one \in Cron
      BY <1>2, <1>3, <1>5, CronWith
    <2> HIDE DEF one
    <2>2. [one EXCEPT !["dom"] = Only(2)] \in Cron
      BY <1>3, <1>5, <2>1, CronWith
    <2> USE DEF one
    <2> QED
      BY <1>4, <1>5, <2>2, CronWith
  <1>7. e \in Cron
    <2> DEFINE one == [EveryField EXCEPT !["hour"] = Only(0)]
    <2>1. one \in Cron
      BY <1>2, <1>3, <1>5, CronWith
    <2> HIDE DEF one
    <2>2. [one EXCEPT !["minute"] = Only(9)] \in Cron
      BY <1>3, <1>5, <2>1, CronWith
    <2> QED
      BY <2>2 DEF one
  <1>8. Written = {[by |-> "time", minute |-> 1, hour |-> 1, days |-> {Number(1), Number(3)}],
                   [by |-> "time", minute |-> 0, hour |-> 0, days |-> {[as |-> "name", n |-> 1]}],
                   [by |-> "every", n |-> 2], [by |-> "every", n |-> 0],
                   [by |-> "cron", cron |-> c], [by |-> "cron", cron |-> e]}
    BY DEF Written
  <1>9. {Number(1), Number(3)} \in SUBSET Day /\ {[as |-> "name", n |-> 1]} \in SUBSET Day
    BY <1>1
  <1> HIDE DEF c, e
  <1>10. \A x \in SUBSET Day, m \in Int, h \in Int : [by |-> "time", minute |-> m, hour |-> h, days |-> x] \in Schedule
    BY DEF Schedule
  <1>11. \A m \in Int : [by |-> "every", n |-> m] \in Schedule
    BY DEF Schedule
  <1>12. \A x \in Cron : [by |-> "cron", cron |-> x] \in Schedule
    BY DEF Schedule
  <1> QED
    BY <1>6, <1>7, <1>8, <1>9, <1>10, <1>11, <1>12

\* The form on a job, as it is opened and as it is changed.
Form == [mode : {"friendly", "cron"}, touched : BOOLEAN, minute : Int, hour : Int, days : SUBSET Day, cron : Cron]

\* The stored cron is the stored schedule compiled, the next run the first that it names, ahead of
\* the clock and no further than one scan.
CadenceInv ==
  /\ now \in 0..Horizon /\ (next = None \/ next \in 0..2 * Horizon)
  /\ job # None =>
       /\ job.schedule \in Schedule /\ job.cron = Compiled(job.schedule) /\ Cadence!Valid(job.cron)
       /\ next = None \/ next > now
  /\ form # None => form \in Form
  /\ Cadence!NextIsFirst

LEMMA CadenceInit == Cadence!Init => CadenceInv
  BY ClockAssumption DEF Cadence!Init, CadenceInv, Cadence!NextIsFirst

LEMMA CadenceStep == CadenceInv /\ [Cadence!Next]_cadenceVars => CadenceInv'
  <1> SUFFICES ASSUME CadenceInv, [Cadence!Next]_cadenceVars PROVE CadenceInv'
    OBVIOUS
  <1> USE ClockAssumption DEF CadenceInv, Cadence!NextIsFirst
  <1>1. ASSUME NEW s \in Schedule, Cadence!Stored(s), now' = now, form' = None \/ form' = form PROVE CadenceInv'
    <2>1. /\ job' = [schedule |-> s, cron |-> Cadence!toCron(s)] /\ Cadence!toCron(s) # None
          /\ next' = Cadence!nextRun(Cadence!toCron(s), now)
      BY <1>1 DEF Cadence!Stored
    <2>2. job'.schedule = s /\ job'.cron = Compiled(s) /\ Cadence!Valid(job'.cron)
      BY <2>1, NotRefused
    <2>3. /\ next' = None \/ (next' \in 0..2 * Horizon /\ next' > now')
          /\ \A t \in Cadence!Runs(job'.cron) : t > now' => next' # None /\ next' <= t
      BY <1>1, <2>1, Scanned
    <2> QED
      BY <1>1, <2>2, <2>3 DEF Cadence!Runs, Cadence!Valid
  <1>2. CASE Cadence!Minute
    <2>1. /\ now < Horizon /\ now' = now + 1 /\ job' = job /\ form' = form
          /\ next' = IF next # None /\ next <= now' THEN Cadence!nextRun(job.cron, now') ELSE next
      BY <1>2 DEF Cadence!Minute
    <2>2. now' \in 0..Horizon
      BY <2>1
    <2>3. CASE next # None /\ next <= now'
      <3>1. /\ next' = None \/ (next' \in 0..2 * Horizon /\ next' > now')
            /\ \A t \in Cadence!Runs(job.cron) : t > now' => next' # None /\ next' <= t
        BY <2>1, <2>2, <2>3, Scanned
      <3> QED
        BY <2>1, <2>2, <3>1 DEF Cadence!Runs, Cadence!Valid
    <2>4. CASE ~(next # None /\ next <= now')
      BY <2>1, <2>2, <2>4 DEF Cadence!Runs, Cadence!Valid
    <2> QED
      BY <2>3, <2>4
  <1>3. ASSUME UNCHANGED <<job, now, next>>, form' # None => form' \in Form PROVE CadenceInv'
    BY <1>3 DEF Cadence!Runs, Cadence!Valid
  <1>4. CASE \E s \in Written : Cadence!Save(s)
    BY <1>1, <1>4, WrittenAre DEF Cadence!Save
  <1>5. CASE Cadence!openEdit
    <2> DEFINE s == job.schedule
    <2>1. /\ UNCHANGED <<job, now, next>> /\ s \in Schedule /\ job.cron = Compiled(s)
          /\ form' = IF s.by = "time"
                     THEN [mode |-> "friendly", touched |-> FALSE, minute |-> s.minute, hour |-> s.hour,
                           days |-> {Cadence!AsNumber(d) : d \in s.days}, cron |-> Cadence!Every]
                     ELSE [mode |-> "cron", touched |-> FALSE, minute |-> 0, hour |-> 0, days |-> {}, cron |-> job.cron]
      BY <1>5 DEF Cadence!openEdit
    <2>2. job.cron \in Cron
      BY <2>1, CompiledIn
    <2>3. Cadence!Every \in Cron
      BY DEF Cadence!Every, Cadence!Star, Cron, CronPart
    <2> HIDE DEF s
    <2>4. CASE s.by = "time"
      <3>1. s.minute \in Int /\ s.hour \in Int /\ s.days \in SUBSET Day
        BY <2>1, <2>4 DEF Schedule
      <3>2. {Cadence!AsNumber(d) : d \in s.days} \in SUBSET Day
        BY <3>1 DEF Cadence!AsNumber, Day
      <3>3. form' \in Form
        BY <2>1, <2>3, <2>4, <3>1, <3>2 DEF Form
      <3> QED
        BY <1>3, <2>1, <3>3
    <2>5. CASE s.by # "time"
      BY <1>3, <2>1, <2>2, <2>5 DEF Form
    <2> QED
      BY <2>4, <2>5
  <1>6. CASE \E n \in Toggled : Cadence!toggleWeekday(n)
    <2>1. PICK n \in Toggled : Cadence!toggleWeekday(n)
      BY <1>6
    <2> DEFINE d == [as |-> "number", n |-> n]
    <2>2. d \in Day
      BY ClockAssumption DEF Day
    <2> DEFINE days == IF d \in form.days THEN form.days \ {d} ELSE form.days \cup {d}
    <2>3. form \in Form /\ UNCHANGED <<job, now, next>> /\ form' = [form EXCEPT !.touched = TRUE, !.days = days]
      BY <2>1 DEF Cadence!toggleWeekday
    <2>4. days \in SUBSET Day
      BY <2>2, <2>3 DEF Form
    <2> HIDE DEF days
    <2>5. form' \in Form
      BY <2>3, <2>4 DEF Form
    <2> QED
      BY <1>3, <2>3, <2>5
  <1>7. CASE Cadence!onSubmit
    <2>1. form \in Form /\ Cadence!Stored(Cadence!buildPayload) /\ form' = None /\ now' = now
      BY <1>7 DEF Cadence!onSubmit
    <2>2. Cadence!buildPayload \in Schedule
      BY <2>1 DEF Cadence!buildPayload, Schedule, Form
    <2> QED
      BY <1>1, <2>1, <2>2
  <1>8. CASE Cadence!closeForm
    BY <1>3, <1>8 DEF Cadence!closeForm
  <1>9. CASE UNCHANGED cadenceVars
    BY <1>3, <1>9 DEF cadenceVars
  <1> QED
    BY <1>2, <1>4, <1>5, <1>6, <1>7, <1>8, <1>9 DEF Cadence!Next

\* The next run of a job is the first minute after now that its cron names: none is passed over and
\* none run twice, whatever is saved, edited and compiled on the way.
THEOREM NoMinutePassedOver == Spec => [](Cadence!TypeOK /\ Cadence!NextIsFirst)
  <1>1. CadenceInv => Cadence!TypeOK /\ Cadence!NextIsFirst
    BY DEF CadenceInv, Cadence!TypeOK, Form
  <1> QED
    BY <1>1, CadenceInit, CadenceStep, EachOnItsOwn, PTL DEF Cadence!Spec, Cadence!vars, cadenceVars

\* The stored job runs at exactly the minutes its schedule says, whatever is saved, opened in the
\* form, clicked and saved again: compiling to cron, parsing the fields and matching them against
\* the clock lose and add nothing, for every clock and every horizon.
THEOREM RunsAsSaid == Spec => []Cadence!RunsAsWritten
  <1>1. CadenceInv => Cadence!RunsAsWritten
    BY AsWritten DEF CadenceInv, Cadence!RunsAsWritten
  <1> QED
    BY <1>1, CadenceInit, CadenceStep, EachOnItsOwn, PTL DEF Cadence!Spec, Cadence!vars, cadenceVars

---------------------------------------------------------------------------
(* The forward-auth gate.                                                   *)

\* A good read that carries the file's own stamp holds the file's own content.
GateInv ==
  /\ Gate!TypeOK /\ Gate!JudgedByTheFile
  /\ gateCache.stamp = stamp => gateCache.file = gateFile
  /\ gateCache.stamp <= stamp

\* An answer is one of four, and nobody is admitted without a bypass but with the factors asked.
LEMMA Judged ==
  ASSUME NEW rules, NEW q
  PROVE  LET answer == Gate!Judge(rules, q) IN
           /\ answer \in {"admit", "login", "401", "403"}
           /\ (answer = "admit" /\ Gate!evaluate(rules, q.place, Gate!Anon) # "bypass") =>
                /\ q.user # Gate!Anon
                /\ (Gate!evaluate(rules, q.place, q.user) = "two_factor") => ~(q.factors < 2)
  BY DEF Gate!Judge

\* It holds at the start.
LEMMA GateInit == Gate!Init => GateInv
  BY BoundsAssumption DEF Gate!Init, GateInv, Gate!TypeOK, Gate!JudgedByTheFile, Gate!Files, Gate!Gone, Gate!Half,
     Gate!With

\* A step keeps it.
LEMMA GateStep == GateInv /\ [Gate!Next]_gateVars => GateInv'
  <1> SUFFICES ASSUME GateInv, [Gate!Next]_gateVars PROVE GateInv'
    OBVIOUS
  <1> USE BoundsAssumption DEF GateInv, Gate!TypeOK
  <1>1. ASSUME NEW f \in Gate!Files, Gate!Edit(f) PROVE GateInv'
    BY <1>1 DEF Gate!Edit, Gate!JudgedByTheFile
  <1>2. ASSUME NEW q \in Gate!Requests, Gate!verify(q) PROVE GateInv'
    <2>1. /\ gateCache' = Gate!Loaded /\ UNCHANGED <<gateFile, stamp>>
          /\ gateAnswers' = {[q |-> q, answer |-> Gate!Judge(Gate!load, q)]}
      BY <1>2 DEF Gate!verify
    <2>2. /\ gateCache'.stamp \in (-1)..MaxEdits /\ gateCache'.file \in Gate!Files \ {Gate!Half}
          /\ gateCache'.stamp <= stamp
          /\ gateCache'.stamp = stamp => gateCache'.file = gateFile
      BY <2>1 DEF Gate!Loaded, Gate!Fresh, Gate!Files, Gate!Gone, Gate!Half, Gate!With
    <2>3. gateFile.is = "whole" => Gate!load = Gate!normalise(gateFile.doc)
      BY DEF Gate!load, Gate!Fresh, Gate!Gone, Gate!Half
    <2>4. q.factors \in {1, 2}
      BY DEF Gate!Requests
    <2>5. Gate!JudgedByTheFile'
      <3> SUFFICES ASSUME gateFile.is = "whole"
                   PROVE  LET a == [q |-> q, answer |-> Gate!Judge(Gate!load, q)]
                              rules == Gate!normalise(gateFile.doc) IN
                            /\ a.answer = Gate!Judge(rules, a.q)
                            /\ (a.answer = "admit" /\ Gate!evaluate(rules, a.q.place, Gate!Anon) # "bypass") =>
                                 /\ a.q.user # Gate!Anon
                                 /\ (Gate!evaluate(rules, a.q.place, a.q.user) = "two_factor") => a.q.factors = 2
        BY <2>1 DEF Gate!JudgedByTheFile
      <3> DEFINE rules == Gate!normalise(gateFile.doc)
      <3>1. Gate!load = rules
        BY <2>3
      <3> HIDE DEF rules
      <3> QED BY <2>4, <3>1, Judged DEF rules
    <2> QED BY <2>1, <2>2, <2>5, Judged
  <1>3. CASE UNCHANGED gateVars
    BY <1>3 DEF gateVars, Gate!JudgedByTheFile
  <1> QED BY <1>1, <1>2, <1>3 DEF Gate!Next

\* A request is judged by the rules in the file as it stands, whatever documents operators write
\* and however the file is torn, removed and replaced between two requests.
THEOREM GateJudges == Spec => [](Gate!TypeOK /\ Gate!JudgedByTheFile)
  <1>1. GateInv => Gate!TypeOK /\ Gate!JudgedByTheFile
    BY DEF GateInv
  <1> QED BY <1>1, GateInit, GateStep, EachOnItsOwn, PTL

---------------------------------------------------------------------------
(* The MCP connector's authorization server.                                *)

\* A token was made for a client, out of a code that is spent and was that client's.
MintInv ==
  /\ mcpMinted \in [Mcp!Tokens -> SUBSET (Mcp!Codes \X Mcp!Clients)]
  /\ mcpDisk \subseteq {t \in Mcp!Tokens : token[t] # "none"}
  /\ \A t \in Mcp!Tokens :
       /\ token[t] # "none" => \E c \in Mcp!Codes, k \in Mcp!Clients : mcpMinted[t] = {<<c, k>>}
       /\ token[t] = "none" => mcpMinted[t] = {}
       /\ \A m \in mcpMinted[t] : grantee[m[1]] = {m[2]} /\ mcpCode[m[1]] \in {"used", "gone"}
  /\ Mcp!OneTokenPerCode

\* An open stream is the one its user's session names, and a user's session names one.
StreamInv ==
  /\ whose \in [Mcp!Opens -> SUBSET Mcp!Clients]
  /\ current \in [Mcp!Users -> SUBSET Mcp!Opens]
  /\ \A u \in Mcp!Users : current[u] = {} \/ \E o \in Mcp!Opens : current[u] = {o}
  /\ \A o \in Mcp!Opens :
       /\ mcpStream[o] # "none" => whose[o] \in Mcp!Users
       /\ mcpStream[o] = "open" => o \in current[whose[o]]

McpTypes ==
  /\ registered \subseteq Dynamic
  /\ mcpCode \in [Mcp!Codes -> {"none", "open", "used", "gone"}]
  /\ grantee \in [Mcp!Codes -> SUBSET Mcp!Clients]
  /\ \A c \in Mcp!Codes : IF mcpCode[c] = "none" THEN grantee[c] = {}
                          ELSE \E k \in Mcp!Clients : grantee[c] = {k}
  /\ token \in [Mcp!Tokens -> {"none", "valid", "gone"}]
  /\ clock \subseteq Mcp!Codes \cup Mcp!Tokens
  /\ mcpStream \in [Mcp!Opens -> {"none", "open", "ending", "ended"}]
  /\ mcpAsked \in [Mcp!Opens -> {"none", "runs", "answered", "lost"}]

McpInv == McpTypes /\ MintInv /\ StreamInv

\* It holds at the start.
LEMMA McpInit == Mcp!Init => McpInv
  <1> SUFFICES ASSUME Mcp!Init PROVE McpInv
    OBVIOUS
  <1>1. McpTypes
    BY DEF Mcp!Init, McpTypes
  <1>2. MintInv
    BY DEF Mcp!Init, MintInv, Mcp!OneTokenPerCode
  <1>3. StreamInv
    BY DEF Mcp!Init, StreamInv
  <1> QED BY <1>1, <1>2, <1>3 DEF McpInv

\* The user of a token is one of the users there are.
LEMMA TokensHaveUsers ==
  ASSUME MintInv, NEW t \in Mcp!Tokens, token[t] # "none"
  PROVE  Mcp!UserOf(t) \in Mcp!Users /\ Mcp!UserOf(t) \subseteq Mcp!Clients
  <1>1. PICK c \in Mcp!Codes, k \in Mcp!Clients : mcpMinted[t] = {<<c, k>>}
    BY DEF MintInv
  <1>2. (CHOOSE m \in mcpMinted[t] : TRUE) = <<c, k>>
    BY <1>1
  <1>3. Mcp!UserOf(t) = Mcp!clientToIdentity(k)
    <2>1. <<c, k>>[2] = k
      OBVIOUS
    <2> QED BY Zenon, <1>2, <2>1 DEF Mcp!UserOf
  <1>4. k \in Known \cup Dynamic
    BY DEF Mcp!Clients
  <1> QED BY <1>3, <1>4 DEF Mcp!clientToIdentity, Mcp!Users, Mcp!Clients

\* A step keeps it.
LEMMA StreamsStep == McpInv /\ [Mcp!Next]_mcpVars => StreamInv'
  <1> SUFFICES ASSUME McpInv, [Mcp!Next]_mcpVars PROVE StreamInv'
    OBVIOUS
  <1>0. StreamInv /\ mcpStream \in [Mcp!Opens -> {"none", "open", "ending", "ended"}]
    BY DEF McpInv, McpTypes
  <1>1. CASE UNCHANGED <<mcpStream, whose, current>>
    BY <1>0, <1>1 DEF StreamInv
  <1>2. ASSUME NEW o \in Mcp!Opens, NEW t \in Mcp!Tokens, Mcp!sse(o, t) PROVE StreamInv'
    <2> DEFINE u == Mcp!UserOf(t)
    <2>1. u \in Mcp!Users /\ u \subseteq Mcp!Clients
      BY <1>2, TokensHaveUsers DEF McpInv, Mcp!sse, Mcp!validateAccessToken
    <2>2. /\ mcpStream' = [p \in Mcp!Opens |-> IF p = o THEN "open"
                            ELSE IF p \in Mcp!Displaced(u) THEN "ending" ELSE mcpStream[p]]
          /\ whose' = [whose EXCEPT ![o] = u] /\ current' = [current EXCEPT ![u] = {o}]
      BY <1>2 DEF Mcp!sse
    <2> HIDE DEF u
    <2>3. \A p \in Mcp!Opens : p # o /\ mcpStream'[p] = "open" =>
            mcpStream[p] = "open" /\ p \notin Mcp!Displaced(u)
      BY <2>2
    <2>4. \A p \in Mcp!Opens : p # o /\ mcpStream'[p] = "open" => whose[p] # u /\ p \in current[whose[p]]
      BY <1>0, <2>3 DEF StreamInv, Mcp!Displaced
    <2>5. \A p \in Mcp!Opens : p # o /\ mcpStream'[p] # "none" => whose[p] \in Mcp!Users
      BY <1>0, <2>2 DEF StreamInv, Mcp!Displaced
    <2> QED BY <1>0, <2>1, <2>2, <2>4, <2>5 DEF StreamInv
  <1>3. ASSUME NEW o \in Mcp!Opens, Mcp!onclose(o) PROVE StreamInv'
    <2>1. /\ mcpStream[o] # "none" /\ mcpStream' = [mcpStream EXCEPT ![o] = "ended"]
          /\ current' = [current EXCEPT ![whose[o]] = current[whose[o]] \ {o}] /\ UNCHANGED whose
      BY <1>3 DEF Mcp!onclose, Mcp!Forget
    <2> QED BY <1>0, <2>1 DEF StreamInv
  <1>4. CASE Mcp!initializeOAuthServer
    <2>1. /\ mcpStream' = [o \in Mcp!Opens |-> IF mcpStream[o] = "none" THEN "none" ELSE "ended"]
          /\ current' = [u \in Mcp!Users |-> {}] /\ UNCHANGED whose
      BY <1>4 DEF Mcp!initializeOAuthServer
    <2> QED BY <1>0, <2>1 DEF StreamInv
  <1> QED
    BY <1>1, <1>2, <1>3, <1>4 DEF Mcp!Next, Mcp!registerClient, Mcp!approve,
       Mcp!handleTokenRequest, Mcp!Refused, Mcp!Expire, Mcp!TokenExpired, Mcp!message, Mcp!askOracle,
       Mcp!streams, mcpVars

\* A step keeps it.
LEMMA MintStep == McpInv /\ [Mcp!Next]_mcpVars => MintInv'
  <1> SUFFICES ASSUME McpInv, [Mcp!Next]_mcpVars PROVE MintInv'
    OBVIOUS
  <1>0. /\ MintInv /\ mcpCode \in [Mcp!Codes -> {"none", "open", "used", "gone"}]
        /\ grantee \in [Mcp!Codes -> SUBSET Mcp!Clients]
        /\ token \in [Mcp!Tokens -> {"none", "valid", "gone"}]
    BY DEF McpInv, McpTypes
  <1>1. CASE UNCHANGED <<mcpCode, grantee, token, mcpDisk, mcpMinted>>
    BY <1>0, <1>1 DEF MintInv, Mcp!OneTokenPerCode
  <1>2. ASSUME NEW k \in Mcp!Clients, NEW c \in Mcp!Codes, Mcp!approve(k, c)
        PROVE  MintInv'
    <2>1. /\ mcpCode[c] = "none" /\ mcpCode' = [mcpCode EXCEPT ![c] = "open"]
          /\ grantee' = [grantee EXCEPT ![c] = {k}] /\ UNCHANGED <<token, mcpDisk, mcpMinted>>
      BY <1>2 DEF Mcp!approve, Mcp!Fresh
    <2>2. \A t \in Mcp!Tokens : \A m \in mcpMinted[t] : m[1] \in Mcp!Codes /\ m[1] # c
      BY <1>0, <2>1 DEF MintInv
    <2> QED BY <1>0, <2>1, <2>2 DEF MintInv, Mcp!OneTokenPerCode
  <1>3. ASSUME NEW k \in Mcp!Clients, NEW c \in Mcp!Codes, NEW p \in Mcp!Clients, NEW t \in Mcp!Tokens,
               Mcp!handleTokenRequest(k, c, {p}, t)
        PROVE  MintInv'
    <2>1. /\ mcpCode[c] = "open" /\ grantee[c] = {k} /\ mcpCode' = [mcpCode EXCEPT ![c] = "used"]
          /\ token[t] = "none" /\ token' = [token EXCEPT ![t] = "valid"]
          /\ mcpMinted' = [mcpMinted EXCEPT ![t] = {<<c, k>>}] /\ UNCHANGED grantee
          /\ mcpDisk' \subseteq mcpDisk \cup {s \in Mcp!Tokens : token'[s] = "valid"}
      BY <1>3 DEF Mcp!handleTokenRequest, Mcp!validateAuthorizationCode, Mcp!createAccessToken,
         Mcp!Matches, Mcp!MarkUsed, Mcp!Fresh, Mcp!saveTokensToDisk
    <2>2. \A s \in Mcp!Tokens : \A m \in mcpMinted[s] : m[1] \in Mcp!Codes /\ m[1] # c
      BY <1>0, <2>1 DEF MintInv
    <2>3. \A s \in Mcp!Tokens : mcpMinted'[s] = IF s = t THEN {<<c, k>>} ELSE mcpMinted[s]
      BY <1>0, <2>1 DEF MintInv
    <2>4. Mcp!OneTokenPerCode'
      BY <1>0, <2>1, <2>2, <2>3 DEF MintInv, Mcp!OneTokenPerCode
    <2>5. mcpMinted' \in [Mcp!Tokens -> SUBSET (Mcp!Codes \X Mcp!Clients)]
      BY <1>0, <2>1 DEF MintInv
    <2>6. mcpDisk' \subseteq {s \in Mcp!Tokens : token'[s] # "none"}
      BY <1>0, <2>1 DEF MintInv
    <2>7. ASSUME NEW s \in Mcp!Tokens
          PROVE  /\ token'[s] # "none" => \E d \in Mcp!Codes, q \in Mcp!Clients : mcpMinted'[s] = {<<d, q>>}
                 /\ token'[s] = "none" => mcpMinted'[s] = {}
                 /\ \A m \in mcpMinted'[s] : grantee[m[1]] = {m[2]} /\ mcpCode'[m[1]] \in {"used", "gone"}
      BY <1>0, <2>1, <2>2, <2>3 DEF MintInv
    <2> QED BY <2>1, <2>4, <2>5, <2>6, <2>7 DEF MintInv
  <1>4. ASSUME NEW c \in Mcp!Codes, Mcp!Refused(c) PROVE MintInv'
    <2>1. /\ mcpCode' = [mcpCode EXCEPT ![c] = "gone"] /\ UNCHANGED <<grantee, token, mcpDisk, mcpMinted>>
      BY <1>4 DEF Mcp!Refused
    <2> QED BY <1>0, <2>1 DEF MintInv, Mcp!OneTokenPerCode
  <1>5. ASSUME NEW t \in Mcp!Tokens, Mcp!TokenExpired(t) PROVE MintInv'
    <2>1. /\ token[t] = "valid" /\ token' = [token EXCEPT ![t] = "gone"]
          /\ UNCHANGED <<mcpCode, grantee, mcpMinted>>
          /\ mcpDisk' \subseteq mcpDisk \cup {s \in Mcp!Tokens : token'[s] = "valid"}
      BY <1>5 DEF Mcp!TokenExpired, Mcp!saveTokensToDisk
    <2>2. \A s \in Mcp!Tokens : token'[s] = "none" <=> token[s] = "none"
      BY <1>0, <2>1
    <2> QED BY <1>0, <2>1, <2>2 DEF MintInv, Mcp!OneTokenPerCode
  <1>6. CASE Mcp!initializeOAuthServer
    <2>1. /\ mcpCode' = [c \in Mcp!Codes |-> IF mcpCode[c] = "none" THEN "none" ELSE "gone"]
          /\ token' = [t \in Mcp!Tokens |-> IF t \in mcpDisk \ clock THEN "valid"
                         ELSE IF token[t] = "none" THEN "none" ELSE "gone"]
          /\ UNCHANGED <<grantee, mcpDisk, mcpMinted>>
      BY <1>6 DEF Mcp!initializeOAuthServer, Mcp!loadTokensFromDisk
    <2>2. \A s \in Mcp!Tokens : token'[s] = "none" <=> token[s] = "none"
      BY <1>0, <2>1 DEF MintInv
    <2>3. \A t \in Mcp!Tokens : \A m \in mcpMinted[t] : m[1] \in Mcp!Codes
      BY <1>0 DEF MintInv
    <2> QED BY <1>0, <2>1, <2>2, <2>3 DEF MintInv, Mcp!OneTokenPerCode
  <1> QED
    BY <1>1, <1>2, <1>3, <1>4, <1>5, <1>6 DEF Mcp!Next, Mcp!registerClient, Mcp!Expire, Mcp!sse,
       Mcp!message, Mcp!onclose, Mcp!askOracle, Mcp!grants, mcpVars

\* A step keeps it.
LEMMA McpTypesStep == McpInv /\ [Mcp!Next]_mcpVars => McpTypes'
  <1> SUFFICES ASSUME McpTypes, [Mcp!Next]_mcpVars PROVE McpTypes'
    BY DEF McpInv
  <1> USE DEF McpTypes, Mcp!grants, Mcp!streams
  <1>1. ASSUME NEW k \in Mcp!Clients, NEW c \in Mcp!Codes,
               \/ Mcp!registerClient(k) \/ Mcp!approve(k, c)
        PROVE  McpTypes'
    BY <1>1 DEF Mcp!registerClient, Mcp!approve, Mcp!Fresh
  <1>2. ASSUME NEW k \in Mcp!Clients, NEW c \in Mcp!Codes, NEW p \in Mcp!Clients, NEW t \in Mcp!Tokens,
               Mcp!handleTokenRequest(k, c, {p}, t)
        PROVE  McpTypes'
    BY <1>2 DEF Mcp!handleTokenRequest, Mcp!validateAuthorizationCode, Mcp!createAccessToken, Mcp!MarkUsed
  <1>3. ASSUME NEW c \in Mcp!Codes, Mcp!Refused(c) PROVE McpTypes'
    BY <1>3 DEF Mcp!Refused
  <1>4. ASSUME NEW x \in Mcp!Codes \cup Mcp!Tokens, Mcp!Expire(x) PROVE McpTypes'
    BY <1>4 DEF Mcp!Expire
  <1>5. ASSUME NEW t \in Mcp!Tokens, Mcp!TokenExpired(t) PROVE McpTypes'
    BY <1>5 DEF Mcp!TokenExpired
  <1>6. ASSUME NEW o \in Mcp!Opens, NEW t \in Mcp!Tokens, Mcp!sse(o, t) PROVE McpTypes'
    BY <1>6 DEF Mcp!sse, Mcp!Lost
  <1>7. ASSUME NEW o \in Mcp!Opens, NEW t \in Mcp!Tokens, Mcp!message(o, t) PROVE McpTypes'
    BY <1>7 DEF Mcp!message
  <1>8. ASSUME NEW o \in Mcp!Opens, Mcp!onclose(o) \/ Mcp!askOracle(o) PROVE McpTypes'
    BY <1>8 DEF Mcp!onclose, Mcp!askOracle, Mcp!Lost
  <1>9. CASE Mcp!initializeOAuthServer
    BY <1>9 DEF Mcp!initializeOAuthServer, Mcp!loadTokensFromDisk, Mcp!Lost
  <1>10. CASE UNCHANGED mcpVars
    BY <1>10 DEF mcpVars
  <1> QED
    BY <1>1, <1>2, <1>3, <1>4, <1>5, <1>6, <1>7, <1>8, <1>9, <1>10 DEF Mcp!Next

\* A code becomes one token, of the client it was made for, and a user has one event stream: for any number
\* of clients, codes, tokens and streams, through expiries and restarts.
THEOREM OneTokenOneStream == Spec => [](Mcp!TypeOK /\ Mcp!OneTokenPerCode /\ Mcp!OneStreamPerUser)
  <1>1. McpInv => Mcp!TypeOK /\ Mcp!OneTokenPerCode /\ Mcp!OneStreamPerUser
    <2> SUFFICES ASSUME McpInv PROVE Mcp!TypeOK /\ Mcp!OneTokenPerCode /\ Mcp!OneStreamPerUser
      OBVIOUS
    <2>1. \A S : S = {} \/ (\E x : S = {x}) => Mcp!Cardinality(S) <= 1
      <3>1. \A S : Mcp!Cardinality(S) = Cardinality(S)
        BY Zenon DEF Mcp!Cardinality, Cardinality
      <3>2. \A S : S = {} => Cardinality(S) <= 1
        BY FS_EmptySet
      <3>3. \A x : Cardinality({x}) <= 1
        <4>1. \A x : Cardinality({x}) = 1
          BY Zenon, FS_Singleton
        <4>2. 1 <= 1
          OBVIOUS
        <4> QED BY Zenon, <4>1, <4>2
      <3> QED BY Zenon, <3>1, <3>2, <3>3
    <2>2. \A t \in Mcp!Tokens : Mcp!Cardinality(mcpMinted[t]) <= 1 /\ mcpMinted[t] \subseteq Mcp!Codes \X Mcp!Clients
      BY <2>1 DEF McpInv, McpTypes, MintInv
    <2>3. \A k \in DOMAIN current : current[k] \subseteq Mcp!Opens /\ Mcp!Cardinality(current[k]) <= 1
      BY <2>1 DEF McpInv, StreamInv
    <2>4. Mcp!TypeOK
      BY <2>2, <2>3 DEF McpInv, McpTypes, MintInv, StreamInv, Mcp!TypeOK
    <2>5. Mcp!OneStreamPerUser
      BY DEF McpInv, StreamInv, Mcp!OneStreamPerUser
    <2> QED BY <2>4, <2>5 DEF McpInv, MintInv
  <1>2. McpInv /\ [Mcp!Next]_mcpVars => McpInv'
    BY McpTypesStep, MintStep, StreamsStep DEF McpInv
  <1> QED BY <1>1, <1>2, McpInit, EachOnItsOwn, PTL

---------------------------------------------------------------------------
(* The vault, its resolver, and the engines' API keys.                      *)

Lookups == [step : {"idle", "asking", "answered", "done"}, got : Secrets \cup {0}, fresh : BOOLEAN]

KeysTypes ==
  /\ sealed \in BOOLEAN /\ accepted \in BOOLEAN /\ envKey \in BOOLEAN
  /\ held \in Secrets \cup {0} /\ engineKey \in Secrets \cup {0}
  /\ keysCache \in Secrets \cup {0, Vault!Unset} /\ launched \in Secrets \cup {0, Vault!Unset}
  /\ lookups \in [Tasks -> Lookups]
  /\ config \in [mode : {"subscription", "api_key"}, stored : BOOLEAN, patched : BOOLEAN]
  /\ changes \subseteq Vault!Change
  /\ agent \in {"none", "NOVICE", "SACRED"}
  /\ init \in {"none", "list", "register", "promote", "persist"}

\* A change that has passed the vault was accepted there; a key about to be written belongs to an agent.
KeysInv ==
  /\ KeysTypes /\ Vault!FlagFollowsVault /\ Vault!KeyHasItsAgent
  /\ \A c \in changes : c.op = "set" /\ c.step = "config" => accepted
  /\ init \in {"promote", "persist"} => agent # "none"

\* It holds at the start.
LEMMA KeysInit == Vault!Init => KeysInv
  <1> SUFFICES ASSUME Vault!Init PROVE KeysInv
    OBVIOUS
  <1>1. KeysTypes
    BY DEF Vault!Init, KeysTypes, Lookups, Vault!Idle, Vault!NoKey
  <1> QED BY <1>1 DEF Vault!Init, KeysInv, Vault!FlagFollowsVault, Vault!KeyHasItsAgent, Vault!NoKey

\* What a lookup does leaves it one.
LEMMA LookupsStep ==
  ASSUME KeysTypes,
         NEW u \in Tasks,
         Vault!get(u) \/ Vault!getSecret(u) \/ Vault!getSecretFails(u) \/ Vault!resolved(u)
  PROVE  lookups' \in [Tasks -> Lookups] /\ keysCache' \in Secrets \cup {0, Vault!Unset}
  <1>0. /\ lookups \in [Tasks -> Lookups] /\ keysCache \in Secrets \cup {0, Vault!Unset}
        /\ held \in Secrets \cup {0}
    BY DEF KeysTypes
  <1>1. CASE Vault!get(u)
    BY <1>0, <1>1 DEF Vault!get, Vault!Idle, Lookups
  <1>2. CASE Vault!getSecret(u)
    BY <1>0, <1>2 DEF Vault!getSecret, Vault!Fetched, Lookups
  <1>3. CASE Vault!getSecretFails(u)
    BY <1>0, <1>3 DEF Vault!getSecretFails, Lookups
  <1>4. CASE Vault!resolved(u)
    BY <1>0, <1>4 DEF Vault!resolved, Lookups
  <1> QED BY <1>1, <1>2, <1>3, <1>4

\* Anything that happens at the vault makes the lookups under way stale.
LEMMA Stale ==
  ASSUME lookups \in [Tasks -> Lookups], lookups' = [u \in Tasks |-> [lookups[u] EXCEPT !.fresh = FALSE]]
  PROVE  lookups' \in [Tasks -> Lookups]
  BY DEF Lookups

\* A step keeps it.
LEMMA KeysStep == KeysInv /\ [Vault!Next]_keysVars => KeysInv'
  <1> SUFFICES ASSUME KeysInv, [Vault!Next]_keysVars PROVE KeysInv'
    OBVIOUS
  <1>0. KeysTypes
    BY DEF KeysInv
  <1>1. CASE UNCHANGED keysVars
    BY <1>1 DEF KeysInv, KeysTypes, Vault!FlagFollowsVault, Vault!KeyHasItsAgent, keysVars
  <1>2. CASE Vault!unseal \/ Vault!seal \/ \E v \in Secrets \cup {0} : Vault!storeSecret(v)
    <2>1. /\ lookups' = [u \in Tasks |-> [lookups[u] EXCEPT !.fresh = FALSE]]
          /\ sealed' \in BOOLEAN /\ held' \in Secrets \cup {0}
          /\ UNCHANGED <<engineKey, keysCache, config, changes, launched, accepted, agent, init, envKey>>
      BY <1>0, <1>2 DEF Vault!unseal, Vault!seal, Vault!storeSecret, Vault!Engine, Vault!Agent, KeysTypes
    <2>2. lookups' \in [Tasks -> Lookups]
      BY <1>0, <2>1, Stale DEF KeysTypes
    <2> QED BY <1>0, <2>1, <2>2 DEF KeysInv, KeysTypes, Vault!FlagFollowsVault, Vault!KeyHasItsAgent
  <1>3. ASSUME NEW u \in Tasks,
               Vault!get(u) \/ Vault!getSecret(u) \/ Vault!getSecretFails(u) \/ Vault!resolved(u)
        PROVE  KeysInv'
    <2>1. UNCHANGED <<sealed, held, engineKey, config, changes, launched, accepted, agent, init, envKey>>
      BY <1>3 DEF Vault!get, Vault!getSecret, Vault!getSecretFails, Vault!resolved, Vault!Vault, Vault!Engine,
         Vault!Agent
    <2>2. lookups' \in [Tasks -> Lookups] /\ keysCache' \in Secrets \cup {0, Vault!Unset}
      BY <1>0, <1>3, LookupsStep
    <2> QED BY <1>0, <2>1, <2>2 DEF KeysInv, KeysTypes, Vault!FlagFollowsVault, Vault!KeyHasItsAgent
  <1>4. CASE Vault!restart
    <2>1. /\ keysCache' = Vault!Unset /\ lookups' = [u \in Tasks |-> Vault!Idle] /\ changes' = {}
          /\ UNCHANGED <<sealed, held, engineKey, config, launched, accepted, agent, init, envKey>>
      BY <1>4 DEF Vault!restart, Vault!Vault, Vault!Agent
    <2>2. lookups' \in [Tasks -> Lookups]
      BY <2>1 DEF Lookups, Vault!Idle
    <2> QED BY <1>0, <2>1, <2>2 DEF KeysInv, KeysTypes, Vault!FlagFollowsVault, Vault!KeyHasItsAgent
  <1>5. ASSUME NEW op \in {"set", "clear"}, NEW v \in Secrets \cup {0}, Vault!keyChange(op, v) PROVE KeysInv'
    <2>1. /\ changes' = changes \cup {[op |-> op, value |-> v, step |-> "vault"]}
          /\ UNCHANGED <<sealed, held, engineKey, keysCache, lookups, config, launched, accepted, agent, init, envKey>>
      BY <1>5 DEF Vault!keyChange, Vault!Vault, Vault!Resolver, Vault!Agent
    <2>2. [op |-> op, value |-> v, step |-> "vault"] \in Vault!Change
      BY DEF Vault!Change
    <2> QED BY <1>0, <2>1, <2>2 DEF KeysInv, KeysTypes, Vault!FlagFollowsVault, Vault!KeyHasItsAgent
  <1>6. ASSUME NEW c \in changes, Vault!setApiKey(c) \/ Vault!clearApiKey(c) \/ Vault!setConfig(c) PROVE KeysInv'
    <2>0. c \in Vault!Change /\ changes \subseteq Vault!Change
      BY <1>0 DEF KeysTypes
    <2>1. [c EXCEPT !.step = "config"] \in Vault!Change /\ [c EXCEPT !.step = "config"].op = c.op
      BY <2>0 DEF Vault!Change
    <2>2. UNCHANGED <<sealed, held, keysCache, lookups, launched, agent, init, envKey>>
      BY <1>6 DEF Vault!setApiKey, Vault!clearApiKey, Vault!setConfig, Vault!Vault, Vault!Resolver, Vault!Agent
    <2>3. \/ /\ changes' = changes \ {c} /\ UNCHANGED <<engineKey, accepted, config>>
          \/ /\ changes' = (changes \ {c}) \cup {[c EXCEPT !.step = "config"]}
             /\ engineKey' \in {c.value, engineKey, 0} /\ (accepted => accepted') /\ accepted' \in BOOLEAN
             /\ (c.op = "set" => accepted') /\ UNCHANGED config
          \/ /\ changes' = changes \ {c} /\ UNCHANGED <<engineKey, accepted>>
             /\ c.step = "config"
             /\ config' = IF c.op = "set" THEN [mode |-> "api_key", stored |-> TRUE, patched |-> FALSE]
                          ELSE Vault!NoKey
      <3>1. CASE Vault!setApiKey(c)
        BY <1>0, <3>1 DEF Vault!setApiKey, Vault!Refused, Vault!Moved, KeysTypes
      <3>2. CASE Vault!clearApiKey(c)
        BY <1>0, <3>2 DEF Vault!clearApiKey, Vault!Moved, KeysTypes
      <3>3. CASE Vault!setConfig(c)
        BY <1>0, <3>3 DEF Vault!setConfig, Vault!Vault
      <3> QED BY <1>6, <3>1, <3>2, <3>3
    <2>4. c.value \in Secrets \cup {0}
      BY <2>0 DEF Vault!Change
    <2>5. changes' \subseteq Vault!Change
      BY <2>0, <2>1, <2>3
    <2>8. engineKey' \in Secrets \cup {0} /\ accepted' \in BOOLEAN
      <3>1. engineKey \in Secrets \cup {0} /\ accepted \in BOOLEAN
        BY <1>0 DEF KeysTypes
      <3> QED BY <2>3, <2>4, <3>1
    <2>9. config' \in [mode : {"subscription", "api_key"}, stored : BOOLEAN, patched : BOOLEAN]
      <3>1. config \in [mode : {"subscription", "api_key"}, stored : BOOLEAN, patched : BOOLEAN]
        BY <1>0 DEF KeysTypes
      <3>2. /\ [mode |-> "api_key", stored |-> TRUE, patched |-> FALSE] \in [mode : {"subscription", "api_key"}, stored : BOOLEAN, patched : BOOLEAN]
            /\ Vault!NoKey \in [mode : {"subscription", "api_key"}, stored : BOOLEAN, patched : BOOLEAN]
        BY DEF Vault!NoKey
      <3>3. \/ config' = config \/ config' = [mode |-> "api_key", stored |-> TRUE, patched |-> FALSE]
            \/ config' = Vault!NoKey
        BY Zenon, <2>3
      <3> QED BY Zenon, <3>1, <3>2, <3>3
    <2>6. KeysTypes'
      BY <1>0, <2>2, <2>5, <2>8, <2>9 DEF KeysTypes
    <2>7. (config'.stored /\ ~config'.patched => accepted') /\ \A d \in changes' : d.op = "set" /\ d.step = "config" => accepted'
      <3>1. (config.stored /\ ~config.patched => accepted) /\ \A d \in changes : d.op = "set" /\ d.step = "config" => accepted
        BY DEF KeysInv, Vault!FlagFollowsVault
      <3>2. CASE changes' = changes \ {c} /\ UNCHANGED <<engineKey, accepted, config>>
        BY <3>1, <3>2
      <3>3. CASE /\ changes' = (changes \ {c}) \cup {[c EXCEPT !.step = "config"]}
                 /\ accepted => accepted'
                 /\ c.op = "set" => accepted'
                 /\ UNCHANGED config
        BY <2>1, <3>1, <3>3
      <3>4. CASE /\ changes' = changes \ {c} /\ UNCHANGED accepted /\ c.step = "config"
                 /\ config' = IF c.op = "set" THEN [mode |-> "api_key", stored |-> TRUE, patched |-> FALSE]
                              ELSE Vault!NoKey
        BY <3>1, <3>4 DEF Vault!NoKey
      <3> QED BY <2>3, <3>2, <3>3, <3>4
    <2> QED BY <2>2, <2>6, <2>7 DEF KeysInv, Vault!KeyHasItsAgent, Vault!FlagFollowsVault
  <1>7. CASE Vault!envForLaunch \/ \E m \in {"subscription", "api_key"} : Vault!setAuthMode(m)
    <2>1. /\ launched' \in {launched, engineKey, 0}
          /\ config'.stored = config.stored /\ config'.patched = config.patched
          /\ config' \in [mode : {"subscription", "api_key"}, stored : BOOLEAN, patched : BOOLEAN]
          /\ UNCHANGED <<sealed, held, engineKey, keysCache, lookups, changes, accepted, agent, init, envKey>>
      BY <1>0, <1>7 DEF Vault!envForLaunch, Vault!setAuthMode, Vault!Vault, Vault!Resolver, Vault!Agent, KeysTypes
    <2> QED BY <1>0, <2>1 DEF KeysInv, KeysTypes, Vault!FlagFollowsVault, Vault!KeyHasItsAgent
  <1>9. ASSUME NEW m \in {"subscription", "api_key"}, NEW stored \in BOOLEAN, Vault!patchConfig(m, stored)
        PROVE  KeysInv'
    <2>1. /\ config' = [mode |-> m, stored |-> stored, patched |-> TRUE]
          /\ UNCHANGED <<sealed, held, engineKey, keysCache, lookups, changes, launched, accepted, agent, init,
                         envKey>>
      BY <1>9 DEF Vault!patchConfig, Vault!Vault, Vault!Resolver, Vault!Agent
    <2> QED BY <1>0, <2>1 DEF KeysInv, KeysTypes, Vault!FlagFollowsVault, Vault!KeyHasItsAgent
  <1>8. CASE \/ Vault!vaultInit \/ Vault!listAgents \/ Vault!registerAgent \/ Vault!promoteAgent
             \/ Vault!persistKey \/ Vault!initEnds
    <2>1. UNCHANGED <<sealed, held, engineKey, keysCache, lookups, config, changes, launched, accepted>>
      BY <1>8 DEF Vault!vaultInit, Vault!listAgents, Vault!registerAgent, Vault!promoteAgent, Vault!persistKey,
         Vault!initEnds, Vault!Vault, Vault!Resolver, Vault!Engine
    <2>2. /\ agent' \in {"none", "NOVICE", "SACRED"} /\ envKey' \in BOOLEAN
          /\ init' \in {"none", "list", "register", "promote", "persist"}
          /\ envKey' => agent' # "none"
          /\ init' \in {"promote", "persist"} => agent' # "none"
      <3>0. /\ agent \in {"none", "NOVICE", "SACRED"} /\ envKey \in BOOLEAN
            /\ envKey => agent # "none"
            /\ init \in {"promote", "persist"} => agent # "none"
        BY DEF KeysInv, KeysTypes, Vault!KeyHasItsAgent
      <3>1. CASE Vault!vaultInit
        BY <3>0, <3>1 DEF Vault!vaultInit
      <3>2. CASE Vault!listAgents
        BY <3>0, <3>2 DEF Vault!listAgents
      <3>3. CASE Vault!registerAgent
        BY <3>0, <3>3 DEF Vault!registerAgent
      <3>4. CASE Vault!promoteAgent
        BY <3>0, <3>4 DEF Vault!promoteAgent
      <3>5. CASE Vault!persistKey
        BY <3>0, <3>5 DEF Vault!persistKey
      <3>6. CASE Vault!initEnds
        BY <3>0, <3>6 DEF Vault!initEnds
      <3> QED BY <1>8, <3>1, <3>2, <3>3, <3>4, <3>5, <3>6
    <2> QED BY <1>0, <2>1, <2>2 DEF KeysInv, KeysTypes, Vault!FlagFollowsVault, Vault!KeyHasItsAgent
  <1> QED BY <1>1, <1>2, <1>3, <1>4, <1>5, <1>6, <1>7, <1>8, <1>9 DEF Vault!Next, Vault!deleteSecret

\* An engine is listed as having a key only after the vault took one, unless the page stated the flag
\* itself, and an agent key in .env is that of an agent the vault knows: however changes cross, the vault seals, or a command is cut short.
THEOREM KeysAreTheVaults == Spec => [](Vault!TypeOK /\ Vault!FlagFollowsVault /\ Vault!KeyHasItsAgent)
  <1>1. KeysInv => Vault!TypeOK /\ Vault!FlagFollowsVault /\ Vault!KeyHasItsAgent
    BY DEF KeysInv, KeysTypes, Lookups, Vault!TypeOK
  <1> QED BY <1>1, KeysInit, KeysStep, EachOnItsOwn, PTL

---------------------------------------------------------------------------
(* Silos and their explorer.                                                *)

Entries == Texts \cup {0}
Ops == {"ls", "open", "put", "rm", "rmAll", "create", "remove", "patch"}
Errands == [op : Ops, silo : SiloIds, path : Paths \cup {Silos!AnyPath}, text : Entries, no : Nat,
         kind : {"none", "self", "generic"}, at : {"core", "page"}, got : [Paths -> Entries], ok : BOOLEAN]
Editors == [path : Paths, silo : SiloIds, content : Entries, draft : Entries, dirty : BOOLEAN, no : Nat,
            kept : Entries]

\* A request names what its operation needs.
Sound(a) ==
  /\ a \in Errands
  /\ a.op \in {"open", "put", "rm"} => a.path \in Paths
  /\ a.op = "create" => a.kind \in {"self", "generic"}

CoreTypes ==
  /\ marker \in [SiloIds -> {"absent", "torn", "anonymous", "whole"}]
  /\ siloKind \in [SiloIds -> {"self", "generic"}] /\ silosDisk \in [SiloIds -> [Paths -> Entries]]
  /\ fallen \in BOOLEAN
PageTypes ==
  /\ picked \in SiloIds /\ shown \in [silo : SiloIds, paths : SUBSET Paths] /\ born \in Nat
  /\ editor # Silos!Closed => editor \in Editors
SilosInv == CoreTypes /\ PageTypes /\ \A a \in asks : Sound(a)

\* An empty silo is a silo.
LEMMA Nothings == Silos!Nothing \in [Paths -> Entries]
  BY DEF Silos!Nothing, Entries

\* It holds at the start.
LEMMA SilosInit == Silos!Init => SilosInv
  <1> SUFFICES ASSUME Silos!Init PROVE SilosInv
    OBVIOUS
  <1>1. CoreTypes
    <2>1. fallen \in BOOLEAN
      BY Zenon DEF Silos!Init
    <2>2. PICK t \in Texts : silosDisk = [s \in SiloIds |-> IF s = "self" THEN [p \in Paths |-> t] ELSE Silos!Nothing]
      BY DEF Silos!Init
    <2>3. [p \in Paths |-> t] \in [Paths -> Entries]
      BY DEF Entries
    <2>4. silosDisk \in [SiloIds -> [Paths -> Entries]]
      BY <2>2, <2>3, Nothings
    <2> QED BY <2>1, <2>4 DEF Silos!Init, CoreTypes
  <1>2. PageTypes
    BY SelfAssumption DEF Silos!Init, PageTypes
  <1> QED BY <1>1, <1>2 DEF Silos!Init, SilosInv

\* The Self silo is one of those that say they are.
LEMMA SelfIs ==
  /\ Silos!SelfSilos \subseteq SiloIds
  /\ Silos!SelfSilos # {} => Silos!SelfSilo \in Silos!SelfSilos
  <1>1. Silos!SelfSilos \subseteq SiloIds
    BY DEF Silos!SelfSilos
  <1>2. ASSUME Silos!SelfSilos # {} PROVE Silos!SelfSilo \in Silos!SelfSilos
    <2>1. \E s \in Silos!SelfSilos : \/ s \in Earlier
                                     \/ Silos!SelfSilos \cap Earlier = {} /\ (s = "self" \/ "self" \notin Silos!SelfSilos)
      BY <1>2
    <2> QED BY <2>1 DEF Silos!SelfSilo
  <1> QED BY <1>1, <1>2

\* A silo that opens has, or is given, a manifest where what it names is kept.
LEMMA OpensAt ==
  ASSUME CoreTypes, NEW s \in SiloIds, Silos!Opens(s)
  PROVE  /\ Silos!Target(s) \in SiloIds /\ Silos!Ensured(s)[Silos!Target(s)] # "absent"
         /\ Silos!Ensured(s) \in [SiloIds -> {"absent", "torn", "anonymous", "whole"}]
         /\ Silos!EnsuredKind(s) \in [SiloIds -> {"self", "generic"}]
  <1>1. /\ Silos!Ensured(s) \in [SiloIds -> {"absent", "torn", "anonymous", "whole"}]
        /\ Silos!EnsuredKind(s) \in [SiloIds -> {"self", "generic"}]
    BY DEF CoreTypes, Silos!Ensured, Silos!EnsuredKind
  <1>2. CASE s # "self"
    BY <1>1, <1>2 DEF Silos!Target, Silos!Opens, Silos!CanOpen, Silos!Ensured, Silos!MustCreate
  <1>3. CASE s = "self" /\ Silos!SelfSilos # {}
    <2>1. Silos!Target(s) = Silos!SelfSilo /\ Silos!Ensured(s) = marker
      BY <1>3 DEF Silos!Target, Silos!EnsuredSelf, Silos!Ensured, Silos!MustCreate
    <2>2. Silos!SelfSilo \in SiloIds /\ marker[Silos!SelfSilo] = "whole"
      BY <1>3, SelfIs DEF Silos!SelfSilos
    <2> QED BY <1>1, <2>1, <2>2
  <1>4. CASE s = "self" /\ Silos!SelfSilos = {}
    <2>1. Silos!Target(s) = "self" /\ Silos!Ensured(s) = [marker EXCEPT !["self"] = "whole"]
      BY <1>4 DEF Silos!Target, Silos!EnsuredSelf, Silos!Ensured, Silos!MustCreate
    <2> QED BY <1>1, <2>1, SelfAssumption DEF CoreTypes
  <1> QED BY <1>1, <1>2, <1>3, <1>4

\* A write of a file, and where it goes.
LEMMA Writes ==
  ASSUME CoreTypes, NEW s \in SiloIds, Silos!Opens(s), NEW p \in Paths, NEW t \in Entries, Silos!Stored(s, p, t)
  PROVE  /\ CoreTypes'
         /\ \A r \in SiloIds : r # Silos!Target(s) => silosDisk'[r] = silosDisk[r]
         /\ marker'[Silos!Target(s)] # "absent"
  <1>1. /\ marker' = Silos!Ensured(s) /\ siloKind' = Silos!EnsuredKind(s) /\ fallen' = fallen
        /\ silosDisk' = [silosDisk EXCEPT ![Silos!Target(s)] = [silosDisk[Silos!Target(s)] EXCEPT ![p] = t]]
    BY DEF Silos!Stored
  <1>2. silosDisk \in [SiloIds -> [Paths -> Entries]] /\ Silos!Target(s) \in SiloIds
    BY OpensAt DEF CoreTypes
  <1>3. [silosDisk[Silos!Target(s)] EXCEPT ![p] = t] \in [Paths -> Entries]
    BY <1>2
  <1>4. silosDisk' \in [SiloIds -> [Paths -> Entries]]
    BY <1>1, <1>2, <1>3
  <1>5. CoreTypes'
    BY <1>1, <1>4, OpensAt DEF CoreTypes
  <1> QED BY <1>1, <1>2, <1>5, OpensAt

\* Requests as the page sends them, and as the core answers them.
LEMMA Asked ==
  ASSUME NEW op \in Ops, NEW s \in SiloIds, NEW p \in Paths \cup {Silos!AnyPath}, NEW t \in Entries, NEW n \in Nat,
         op \in {"open", "put", "rm"} => p \in Paths
  PROVE  /\ op # "create" => Sound(Silos!Ask(op, s, p, t, n))
         /\ \A k \in {"self", "generic"} : Sound([Silos!Ask(op, s, p, t, n) EXCEPT !.kind = k])
  <1> DEFINE a == Silos!Ask(op, s, p, t, n)
  <1>1. a \in Errands /\ a.op = op /\ a.path = p
    BY Nothings DEF Silos!Ask, Errands
  <1> HIDE DEF a
  <1>2. op # "create" => Sound(a)
    BY <1>1 DEF Sound
  <1>3. ASSUME NEW k \in {"self", "generic"} PROVE Sound([a EXCEPT !.kind = k])
    <2>1. [a EXCEPT !.kind = k] \in Errands
      BY <1>1, <1>3 DEF Errands
    <2>2. [a EXCEPT !.kind = k].op = op /\ [a EXCEPT !.kind = k].path = p /\ [a EXCEPT !.kind = k].kind = k
      BY <1>1 DEF Errands
    <2> QED BY <2>1, <2>2 DEF Sound
  <1> QED BY <1>2, <1>3 DEF a

\* An answer from the core is a sound one.
LEMMA Replied ==
  ASSUME NEW a, Sound(a), NEW ok \in BOOLEAN, NEW got \in [Paths -> Entries]
  PROVE  Sound([a EXCEPT !.at = "page", !.ok = ok, !.got = got])
  <1> DEFINE b == [a EXCEPT !.at = "page", !.ok = ok, !.got = got]
  <1>1. a \in Errands
    BY DEF Sound
  <1>2. b \in Errands /\ b.op = a.op /\ b.path = a.path /\ b.kind = a.kind
    BY <1>1 DEF Errands
  <1> HIDE DEF b
  <1>3. Sound(b)
    BY <1>2 DEF Sound
  <1> QED BY <1>3 DEF b

\* What one request does to the silos: their types stay, and a write finds a manifest.
LEMMA Served ==
  ASSUME CoreTypes, NEW a, Sound(a), Silos!Serve(a)
  PROVE  /\ CoreTypes'
         /\ \A s \in SiloIds, p \in Paths : silosDisk'[s][p] \notin {0, silosDisk[s][p]} => marker'[s] # "absent"
         /\ \E ok \in BOOLEAN, got \in [Paths -> Entries] :
              asks' = (asks \ {a}) \cup {[a EXCEPT !.at = "page", !.ok = ok, !.got = got]}
  <1> DEFINE s == a.silo
             Answers(ok, got) == asks' = (asks \ {a}) \cup {[a EXCEPT !.at = "page", !.ok = ok, !.got = got]}
             Kept(r, p) == silosDisk'[r][p] \notin {0, silosDisk[r][p]} => marker'[r] # "absent"
  <1>1. s \in SiloIds /\ a.text \in Entries /\ (a.op \in {"put", "rm"} => a.path \in Paths)
        /\ (a.op = "create" => a.kind \in {"self", "generic"})
    BY DEF Sound, Errands
  <1>2. 0 \in Entries /\ Silos!Nothing \in [Paths -> Entries] /\ \A p \in Paths : Silos!Nothing[p] = 0
    BY Nothings DEF Entries, Silos!Nothing
  <1>3. marker \in [SiloIds -> {"absent", "torn", "anonymous", "whole"}]
        /\ siloKind \in [SiloIds -> {"self", "generic"}] /\ silosDisk \in [SiloIds -> [Paths -> Entries]]
    BY DEF CoreTypes
  <1>4. \/ /\ Silos!Opens(s)
           /\ \/ Answers(TRUE, silosDisk[Silos!Target(s)]) /\ marker' = Silos!Ensured(s)
                 /\ siloKind' = Silos!EnsuredKind(s) /\ UNCHANGED <<silosDisk, fallen>>
              \/ a.op = "put" /\ Silos!Stored(s, a.path, a.text) /\ Answers(TRUE, Silos!Nothing)
              \/ a.op = "rm" /\ Silos!Stored(s, a.path, 0) /\ Answers(TRUE, Silos!Nothing)
              \/ Silos!Emptied(s) /\ Answers(TRUE, Silos!Nothing)
              \/ Silos!setManifest(s) /\ Answers(TRUE, Silos!Nothing)
        \/ a.op = "create" /\ Silos!create(s, a.kind) /\ Answers(TRUE, Silos!Nothing)
        \/ Silos!remove(s) /\ Answers(TRUE, Silos!Nothing)
        \/ Answers(FALSE, Silos!Nothing) /\ UNCHANGED Silos!Core
    BY Zenon DEF Silos!Serve
  <1>5. \E ok \in BOOLEAN, got \in [Paths -> Entries] : Answers(ok, got)
    <2>1. Silos!Opens(s) => silosDisk[Silos!Target(s)] \in [Paths -> Entries]
      BY <1>1, <1>3, OpensAt
    <2>2. TRUE \in BOOLEAN /\ FALSE \in BOOLEAN
      OBVIOUS
    <2> HIDE DEF Answers, s
    <2> QED BY Zenon, <1>2, <1>4, <2>1, <2>2
  <1> SUFFICES CoreTypes' /\ \A r \in SiloIds, p \in Paths : Kept(r, p)
    BY Zenon, <1>5
  <1> HIDE DEF s, Answers
  <1>6. CASE Silos!Opens(s) /\ marker' = Silos!Ensured(s) /\ siloKind' = Silos!EnsuredKind(s) /\ UNCHANGED <<silosDisk, fallen>>
    BY <1>1, <1>6, OpensAt DEF CoreTypes
  <1>7. ASSUME NEW p \in Paths, NEW t \in Entries, Silos!Opens(s), Silos!Stored(s, p, t)
        PROVE  CoreTypes' /\ \A r \in SiloIds, q \in Paths : Kept(r, q)
    <2>1. /\ CoreTypes' /\ \A r \in SiloIds : r # Silos!Target(s) => silosDisk'[r] = silosDisk[r]
          /\ marker'[Silos!Target(s)] # "absent"
      BY <1>1, <1>7, Writes
    <2> QED BY <2>1
  <1>8. CASE Silos!Opens(s) /\ Silos!Emptied(s)
    <2>1. silosDisk' = [silosDisk EXCEPT ![Silos!Target(s)] = Silos!Nothing]
      BY <1>8 DEF Silos!Emptied
    <2>2. Silos!Target(s) \in SiloIds
      BY <1>1, <1>8, OpensAt
    <2>3. silosDisk' \in [SiloIds -> [Paths -> Entries]]
      BY <1>2, <1>3, <2>1, <2>2
    <2>4. \A r \in SiloIds : silosDisk'[r] \in {silosDisk[r], Silos!Nothing}
      BY <1>3, <2>1
    <2>5. CoreTypes'
      BY <1>3, <1>8, <2>3 DEF CoreTypes, Silos!Emptied
    <2> QED BY <1>2, <2>4, <2>5
  <1>9. CASE Silos!Opens(s) /\ Silos!setManifest(s)
    <2>1. /\ Silos!Ensured(s) \in [SiloIds -> {"absent", "torn", "anonymous", "whole"}]
          /\ Silos!EnsuredKind(s) \in [SiloIds -> {"self", "generic"}]
      BY <1>1, <1>9, OpensAt
    <2>2. marker' \in [SiloIds -> {"absent", "torn", "anonymous", "whole"}]
      BY <1>9, <2>1 DEF Silos!setManifest
    <2>3. siloKind' = Silos!EnsuredKind(s) /\ UNCHANGED <<silosDisk, fallen>>
      BY <1>9 DEF Silos!setManifest
    <2> QED BY <2>1, <2>2, <2>3 DEF CoreTypes
  <1>10. CASE a.op = "create" /\ Silos!create(s, a.kind)
    BY <1>1, <1>3, <1>10 DEF Silos!create, CoreTypes
  <1>11. CASE Silos!remove(s)
    <2>1. silosDisk' = [silosDisk EXCEPT ![s] = Silos!Nothing]
      BY <1>11 DEF Silos!remove
    <2>2. silosDisk' \in [SiloIds -> [Paths -> Entries]]
      BY <1>1, <1>2, <1>3, <2>1
    <2>3. \A r \in SiloIds : silosDisk'[r] \in {silosDisk[r], Silos!Nothing}
      BY <1>3, <2>1
    <2>4. CoreTypes'
      BY <1>1, <1>3, <1>11, <2>2 DEF CoreTypes, Silos!remove
    <2> QED BY <1>2, <2>3, <2>4
  <1>12. CASE UNCHANGED Silos!Core
    BY <1>12 DEF Silos!Core, CoreTypes
  <1> HIDE DEF Kept
  <1> QED BY Zenon, <1>1, <1>2, <1>4, <1>6, <1>7, <1>8, <1>9, <1>10, <1>11, <1>12

\* What a crash leaves.
LEMMA Crashed ==
  ASSUME CoreTypes, \A a \in asks : Sound(a), Silos!Crash
  PROVE  CoreTypes' /\ (\A a \in asks' : Sound(a)) /\ silosDisk' = silosDisk
  <1>1. UNCHANGED <<siloKind, silosDisk, fallen>>
    BY DEF Silos!Crash
  <1>2. marker' \in [SiloIds -> {"absent", "torn", "anonymous", "whole"}]
    <2>1. \/ marker' = marker
          \/ \E s \in SiloIds, m \in {"torn", "absent"} : marker' = [marker EXCEPT ![s] = m]
      <3>1. \A a \in asks : a.silo \in SiloIds
        BY DEF Sound, Errands
      <3>2. \A a \in asks : Silos!Opens(a.silo) => Silos!Target(a.silo) \in SiloIds
        BY <3>1, OpensAt
      <3> QED BY <3>1, <3>2 DEF Silos!Crash
    <2> QED BY <2>1 DEF CoreTypes
  <1>3. \A a \in asks' : Sound(a)
    <2>1. asks' = {[a EXCEPT !.at = "page", !.ok = FALSE, !.got = Silos!Nothing] : a \in asks}
      BY DEF Silos!Crash
    <2>2. \A a \in asks : Sound([a EXCEPT !.at = "page", !.ok = FALSE, !.got = Silos!Nothing])
      BY Replied, Nothings
    <2> QED BY <2>1, <2>2
  <1> QED BY <1>1, <1>2, <1>3 DEF CoreTypes

\* An artifact goes to the Self silo, or beside it.
LEMMA SentHome ==
  ASSUME CoreTypes, NEW p \in Paths, NEW t \in Texts, Silos!Artifact(p, t)
  PROVE  /\ CoreTypes'
         /\ \A s \in SiloIds, q \in Paths : silosDisk'[s][q] \notin {0, silosDisk[s][q]} => marker'[s] # "absent"
  <1>1. CASE Silos!SelfReady
    <2>1. Silos!Stored("self", p, t) /\ Silos!Opens("self")
      BY <1>1 DEF Silos!Artifact, Silos!Opens
    <2>2. /\ CoreTypes' /\ \A s \in SiloIds : s # Silos!Target("self") => silosDisk'[s] = silosDisk[s]
          /\ marker'[Silos!Target("self")] # "absent"
      BY <2>1, SelfAssumption, Writes DEF Entries
    <2> QED BY <2>2
  <1>2. CASE ~Silos!SelfReady
    <2>1. fallen' = TRUE /\ UNCHANGED <<marker, siloKind, silosDisk>>
      BY <1>2 DEF Silos!Artifact
    <2>2. fallen' \in BOOLEAN
      BY Zenon, <2>1
    <2> QED BY <2>1, <2>2 DEF CoreTypes
  <1> QED BY <1>1, <1>2

\* What the page sends, and what it does with an answer.
LEMMA Sends ==
  ASSUME PageTypes, \A a \in asks : Sound(a),
         \/ \E s \in SiloIds : Silos!selectSilo(s) \/ Silos!RemoveNoPath(s) \/ Silos!createSilo(s, "generic")
                               \/ Silos!createSilo(s, "self")
         \/ \E p \in Paths : Silos!openFile(p) \/ Silos!deleteEntry(p)
         \/ \E p \in Paths, t \in Texts : Silos!onUpload(p, t)
         \/ \E t \in Texts : Silos!onDraftInput(t)
         \/ Silos!saveFile \/ Silos!saveManifest \/ Silos!deleteSilo
  PROVE  PageTypes' /\ (\A a \in asks' : Sound(a)) /\ UNCHANGED Silos!Core
  <1> DEFINE Sent == \A a \in asks' : Sound(a)
             Goal == PageTypes' /\ Sent /\ UNCHANGED Silos!Core
  <1>1. /\ picked \in SiloIds /\ Silos!AnyPath \in Paths \cup {Silos!AnyPath} /\ 0 \in Entries /\ Texts \subseteq Entries
        /\ 0 \in Nat /\ {"self", "generic"} \subseteq {"self", "generic"}
    BY DEF PageTypes, Entries
  <1>2. \A a : Silos!Send(a) /\ Sound(a) => Sent
    BY DEF Silos!Send
  <1>3. ASSUME NEW op \in Ops \ {"create"}, NEW s \in SiloIds, NEW p \in Paths \cup {Silos!AnyPath}, NEW t \in Entries,
               NEW n \in Nat, op \in {"open", "put", "rm"} => p \in Paths,
               Silos!Send(Silos!Ask(op, s, p, t, n))
        PROVE  Sent
    BY <1>2, <1>3, Asked
  <1> HIDE DEF Sent
  <1>4. UNCHANGED Silos!Page => PageTypes'
    BY DEF Silos!Page, PageTypes
  <1>5. ASSUME NEW s \in SiloIds, Silos!selectSilo(s) PROVE Goal
    <2>1. Silos!Send(Silos!Ask("ls", s, Silos!AnyPath, 0, 0))
      BY <1>5 DEF Silos!selectSilo, Silos!Listing
    <2>2. Sent
      BY <1>1, <1>3, <2>1 DEF Ops
    <2>3. PageTypes' /\ UNCHANGED Silos!Core
      BY <1>5 DEF Silos!selectSilo, PageTypes
    <2> QED BY <2>2, <2>3
  <1>6. ASSUME NEW s \in SiloIds, Silos!RemoveNoPath(s) PROVE Goal
    <2>1. Silos!Send(Silos!Ask("rmAll", s, Silos!AnyPath, 0, 0)) /\ UNCHANGED Silos!Page /\ UNCHANGED Silos!Core
      BY <1>6 DEF Silos!RemoveNoPath
    <2>2. Sent
      BY <1>1, <1>3, <2>1 DEF Ops
    <2> QED BY <1>4, <2>1, <2>2
  <1>7. ASSUME NEW s \in SiloIds, NEW k \in {"self", "generic"}, Silos!createSilo(s, k) PROVE Goal
    <2>1. /\ Silos!Send([Silos!Ask("create", s, Silos!AnyPath, 0, 0) EXCEPT !.kind = k])
          /\ UNCHANGED Silos!Page /\ UNCHANGED Silos!Core
      BY <1>7 DEF Silos!createSilo
    <2>2. Sound([Silos!Ask("create", s, Silos!AnyPath, 0, 0) EXCEPT !.kind = k])
      BY <1>1, Asked DEF Ops
    <2> QED BY <1>2, <1>4, <2>1, <2>2
  <1>8. ASSUME NEW p \in Paths, NEW op \in {"open", "rm"}, Silos!Send(Silos!Ask(op, picked, p, 0, 0)),
               UNCHANGED Silos!Page, UNCHANGED Silos!Core
        PROVE  Goal
    <2>1. Sent
      BY <1>1, <1>3, <1>8 DEF Ops
    <2> QED BY <1>4, <1>8, <2>1
  <1>9. ASSUME NEW p \in Paths, NEW t \in Texts, Silos!onUpload(p, t) PROVE Goal
    <2>1. Silos!Send(Silos!Ask("put", picked, p, t, 0)) /\ UNCHANGED Silos!Page /\ UNCHANGED Silos!Core
      BY <1>9 DEF Silos!onUpload
    <2>2. Sent
      BY <1>1, <1>3, <2>1 DEF Ops
    <2> QED BY <1>4, <2>1, <2>2
  <1>10. ASSUME NEW t \in Texts, Silos!onDraftInput(t) PROVE Goal
    <2>1. editor' = [editor EXCEPT !.draft = t, !.dirty = t # editor.content] /\ editor \in Editors /\ t \in Entries
      BY <1>1, <1>10 DEF Silos!onDraftInput, PageTypes
    <2>2. (t # editor.content) \in BOOLEAN
      BY Zenon
    <2>3. [[editor EXCEPT !.draft = t] EXCEPT !.dirty = (t # editor.content)] \in Editors
      <3>1. [editor EXCEPT !.draft = t] \in Editors
        BY <2>1 DEF Editors
      <3> DEFINE e == [editor EXCEPT !.draft = t]
                 d == t # editor.content
      <3>2. e \in Editors /\ d \in BOOLEAN
        BY Zenon, <2>2, <3>1
      <3> HIDE DEF e, d
      <3>3. [e EXCEPT !.dirty = d] \in Editors
        BY Zenon, <3>2 DEF Editors
      <3> QED BY Zenon, <3>3 DEF e, d
    <2>4. editor' = [[editor EXCEPT !.draft = t] EXCEPT !.dirty = (t # editor.content)]
      BY <2>1
    <2>5. editor' \in Editors
      BY Zenon, <2>3, <2>4
    <2>6. UNCHANGED <<picked, shown, asks, born>> /\ UNCHANGED Silos!Core
      BY <1>10 DEF Silos!onDraftInput
    <2>7. PageTypes'
      BY <2>5, <2>6 DEF PageTypes
    <2> QED BY <2>6, <2>7 DEF Sent
  <1>11. ASSUME Silos!saveFile PROVE Goal
    <2>1. /\ Silos!Send(Silos!Ask("put", picked, editor.path, editor.draft, editor.no))
          /\ UNCHANGED Silos!Page /\ UNCHANGED Silos!Core /\ editor \in Editors
      BY <1>11 DEF Silos!saveFile, PageTypes
    <2>2. editor.path \in Paths /\ editor.draft \in Entries /\ editor.no \in Nat
      BY <2>1 DEF Editors
    <2>3. Sent
      BY <1>1, <1>3, <2>1, <2>2 DEF Ops
    <2> QED BY <1>4, <2>1, <2>3
  <1>12. ASSUME Silos!saveManifest \/ Silos!deleteSilo PROVE Goal
    <2>1. PICK op \in {"patch", "remove"} : Silos!Send(Silos!Ask(op, picked, Silos!AnyPath, 0, 0))
      BY <1>12 DEF Silos!saveManifest, Silos!deleteSilo
    <2>2. Sent
      BY <1>1, <1>3, <2>1 DEF Ops
    <2>3. UNCHANGED Silos!Page /\ UNCHANGED Silos!Core
      BY <1>12 DEF Silos!saveManifest, Silos!deleteSilo
    <2> QED BY <1>4, <2>2, <2>3
  <1>13. ASSUME NEW p \in Paths, Silos!openFile(p) \/ Silos!deleteEntry(p) PROVE Goal
    <2>1. PICK op \in {"open", "rm"} : Silos!Send(Silos!Ask(op, picked, p, 0, 0))
      BY <1>13 DEF Silos!openFile, Silos!deleteEntry
    <2>2. UNCHANGED Silos!Page /\ UNCHANGED Silos!Core
      BY <1>13 DEF Silos!openFile, Silos!deleteEntry
    <2> QED BY <1>8, <2>1, <2>2
  <1> HIDE DEF Goal
  <1>14. Goal
    BY <1>5, <1>6, <1>7, <1>9, <1>10, <1>11, <1>12, <1>13
  <1> QED BY <1>14 DEF Goal, Sent

\* What the page does with an answer it had asked for leaves the core alone and the page sound.
LEMMA Handled ==
  ASSUME PageTypes, \A a \in asks : Sound(a), NEW a \in asks, Silos!Answered(a)
  PROVE  PageTypes' /\ (\A b \in asks' : Sound(b)) /\ UNCHANGED Silos!Core
  <1>1. /\ a \in Errands /\ (a.op = "open" => a.path \in Paths) /\ a.silo \in SiloIds
        /\ a.got \in [Paths -> Entries] /\ a.text \in Entries /\ a.ok \in BOOLEAN
    BY DEF Sound, Errands
  <1>2. \A s \in SiloIds : Sound(Silos!Listing(s))
    BY Asked DEF Silos!Listing, Ops, Entries
  <1>3. UNCHANGED Silos!Core
    BY DEF Silos!Answered
  <1>4. CASE Silos!Listed(a)
    <2>1. shown' = [silo |-> a.silo, paths |-> {p \in Paths : a.got[p] # 0}]
      BY <1>4 DEF Silos!Listed
    <2>2. shown' \in [silo : SiloIds, paths : SUBSET Paths]
      BY <1>1, <2>1
    <2>3. asks' = asks \ {a} /\ UNCHANGED <<picked, editor, born>>
      BY <1>4 DEF Silos!Listed
    <2> QED BY <1>3, <2>2, <2>3 DEF PageTypes
  <1>5. CASE Silos!Opened(a)
    <2>1. asks' = asks \ {a} /\ UNCHANGED <<picked, shown>>
      BY <1>5 DEF Silos!Opened
    <2>2. CASE a.ok /\ a.got[a.path] # 0
      <3>1. /\ editor' = [path |-> a.path, silo |-> a.silo, content |-> a.got[a.path],
                          draft |-> a.got[a.path], dirty |-> FALSE, no |-> born + 1, kept |-> a.got[a.path]]
            /\ born' = born + 1 /\ a.op = "open"
        BY <1>5, <2>2 DEF Silos!Opened
      <3>2. a.got[a.path] \in Entries /\ a.path \in Paths /\ born + 1 \in Nat
        BY <1>1, <3>1 DEF PageTypes
      <3>3. editor' \in Editors
        BY <1>1, <3>1, <3>2 DEF Editors
      <3> QED BY <1>3, <2>1, <3>1, <3>2, <3>3 DEF PageTypes
    <2>3. CASE ~(a.ok /\ a.got[a.path] # 0)
      <3>1. UNCHANGED <<editor, born>>
        BY <1>5, <2>3 DEF Silos!Opened
      <3> QED BY <1>3, <2>1, <3>1 DEF PageTypes
    <2> QED BY <2>2, <2>3
  <1>6. CASE Silos!Saved(a)
    <2>1. asks' = asks \ {a} /\ UNCHANGED <<picked, shown, born>>
      BY <1>6 DEF Silos!Saved
    <2>2. \/ editor # Silos!Closed /\ editor' = [editor EXCEPT !.content = editor.draft, !.dirty = FALSE, !.kept = a.text]
          \/ editor' = editor
      BY Zenon, <1>6 DEF Silos!Saved
    <2>3. editor \in Editors => [editor EXCEPT !.content = editor.draft, !.dirty = FALSE, !.kept = a.text] \in Editors
      BY <1>1 DEF Editors
    <2>4. editor' # Silos!Closed => editor' \in Editors
      BY Zenon, <2>2, <2>3 DEF PageTypes
    <2> QED BY <1>3, <2>1, <2>4 DEF PageTypes, Silos!Closed
  <1>7. CASE Silos!Changed(a)
    <2>1. editor' \in {Silos!Closed, editor} /\ UNCHANGED <<picked, shown, born>>
      BY <1>7 DEF Silos!Changed
    <2>2. asks' \subseteq asks \cup {Silos!Listing(picked)}
      BY <1>7 DEF Silos!Changed
    <2>3. \A b \in asks' : Sound(b)
      BY <1>2, <2>2 DEF PageTypes
    <2> QED BY <1>3, <2>1, <2>3 DEF PageTypes, Silos!Closed
  <1>8. CASE Silos!SilosChanged(a)
    <2> DEFINE after == CASE a.ok /\ a.op = "create" -> a.silo
                        [] a.ok /\ a.op = "remove" -> "self"
                        [] OTHER -> picked
    <2>1. after \in SiloIds
      BY <1>1, SelfAssumption DEF PageTypes
    <2>2. /\ picked' = after /\ editor' = IF after # picked THEN Silos!Closed ELSE editor
          /\ asks' = (asks \ {a}) \cup (IF after # picked THEN {Silos!Listing(after)} ELSE {})
          /\ UNCHANGED <<shown, born>>
      BY <1>8 DEF Silos!SilosChanged
    <2> HIDE DEF after
    <2>3. editor' \in {Silos!Closed, editor} /\ asks' \subseteq asks \cup {Silos!Listing(after)}
      BY <2>2
    <2>4. \A b \in asks' : Sound(b)
      BY <1>2, <2>1, <2>3
    <2> QED BY <1>3, <2>1, <2>2, <2>3, <2>4 DEF PageTypes, Silos!Closed
  <1> QED BY <1>4, <1>5, <1>6, <1>7, <1>8 DEF Silos!Answered

\* No file appears in a directory that is no silo: whatever requests reach the core, and whenever their silo
\* was deleted or the core died meanwhile.
LEMMA SilosStep ==
  SilosInv /\ [Silos!Next]_silosVars =>
    /\ SilosInv'
    /\ \A s \in SiloIds, p \in Paths : silosDisk'[s][p] \notin {0, silosDisk[s][p]} => marker'[s] # "absent"
  <1> SUFFICES ASSUME SilosInv, [Silos!Next]_silosVars
               PROVE  /\ SilosInv'
                      /\ \A s \in SiloIds, p \in Paths :
                           silosDisk'[s][p] \notin {0, silosDisk[s][p]} => marker'[s] # "absent"
    OBVIOUS
  <1>1. CoreTypes /\ PageTypes /\ (\A a \in asks : Sound(a))
    BY DEF SilosInv
  <1>2. UNCHANGED Silos!Core => CoreTypes' /\ silosDisk' = silosDisk
    BY <1>1 DEF Silos!Core, CoreTypes
  <1>3. UNCHANGED Silos!Page => PageTypes'
    BY <1>1 DEF Silos!Page, PageTypes
  <1>4. ASSUME NEW p \in Paths, NEW t \in Texts, Silos!Artifact(p, t)
        PROVE  /\ SilosInv'
               /\ \A s \in SiloIds, q \in Paths :
                    silosDisk'[s][q] \notin {0, silosDisk[s][q]} => marker'[s] # "absent"
    <2>1. UNCHANGED Silos!Page /\ asks' = asks
      BY <1>4 DEF Silos!Artifact
    <2> QED BY <1>1, <1>3, <1>4, <2>1, SentHome DEF SilosInv
  <1>5. ASSUME NEW a \in asks, Silos!Serve(a)
        PROVE  /\ SilosInv'
               /\ \A s \in SiloIds, q \in Paths :
                    silosDisk'[s][q] \notin {0, silosDisk[s][q]} => marker'[s] # "absent"
    <2>1. UNCHANGED Silos!Page
      BY <1>5 DEF Silos!Serve
    <2>2. /\ CoreTypes'
          /\ \A s \in SiloIds, p \in Paths : silosDisk'[s][p] \notin {0, silosDisk[s][p]} => marker'[s] # "absent"
          /\ \E ok \in BOOLEAN, got \in [Paths -> Entries] :
               asks' = (asks \ {a}) \cup {[a EXCEPT !.at = "page", !.ok = ok, !.got = got]}
      BY <1>1, <1>5, Served
    <2>3. PICK ok \in BOOLEAN, got \in [Paths -> Entries] :
            asks' = (asks \ {a}) \cup {[a EXCEPT !.at = "page", !.ok = ok, !.got = got]}
      BY <2>2
    <2>4. Sound([a EXCEPT !.at = "page", !.ok = ok, !.got = got])
      BY <1>1, Replied
    <2>5. \A b \in asks' : Sound(b)
      BY Zenon, <1>1, <2>3, <2>4
    <2> QED BY <1>3, <2>1, <2>2, <2>5 DEF SilosInv
  <1>6. CASE Silos!Crash
    <2>1. UNCHANGED Silos!Page
      BY <1>6 DEF Silos!Crash
    <2> QED BY <1>1, <1>3, <1>6, <2>1, Crashed DEF SilosInv
  <1>7. ASSUME NEW a \in asks, Silos!Answered(a) PROVE SilosInv' /\ silosDisk' = silosDisk
    BY <1>1, <1>2, <1>7, Handled DEF SilosInv
  <1>8. CASE \/ \E s \in SiloIds : Silos!selectSilo(s) \/ Silos!RemoveNoPath(s) \/ Silos!createSilo(s, "generic")
                                   \/ Silos!createSilo(s, "self")
             \/ \E p \in Paths : Silos!openFile(p) \/ Silos!deleteEntry(p)
             \/ \E p \in Paths, t \in Texts : Silos!onUpload(p, t)
             \/ \E t \in Texts : Silos!onDraftInput(t)
             \/ Silos!saveFile \/ Silos!saveManifest \/ Silos!deleteSilo
    <2>1. PageTypes' /\ (\A a \in asks' : Sound(a)) /\ UNCHANGED Silos!Core
      BY <1>1, <1>8, Sends
    <2> QED BY <1>2, <2>1 DEF SilosInv
  <1>9. CASE UNCHANGED silosVars
    <2>1. UNCHANGED Silos!Core /\ UNCHANGED Silos!Page /\ asks' = asks
      BY <1>9 DEF silosVars, Silos!Core, Silos!Page
    <2> QED BY <1>1, <1>2, <1>3, <2>1 DEF SilosInv
  <1> QED BY <1>4, <1>5, <1>6, <1>7, <1>8, <1>9 DEF Silos!Next

\* The silos keep their types, and a file is written only where there is a manifest to find it by: whatever
\* requests are under way when a silo is deleted or the core dies.
THEOREM FilesHaveASilo == Spec => []Silos!TypeOK /\ Silos!NoStraysWritten
  <1>1. SilosInv => Silos!TypeOK
    <2> SUFFICES ASSUME SilosInv PROVE Silos!TypeOK
      OBVIOUS
    <2>1. editor # Silos!Closed => /\ editor.path \in Paths /\ editor.silo \in SiloIds
                                   /\ editor.draft \in Texts \cup {0} /\ editor.dirty \in BOOLEAN
      BY Zenon DEF SilosInv, PageTypes, Editors, Entries
    <2>2. shown.silo \in SiloIds /\ shown.paths \subseteq Paths
      BY DEF SilosInv, PageTypes
    <2>3. \A a \in asks : a.at \in {"core", "page"} /\ a.silo \in SiloIds
      BY DEF SilosInv, Sound, Errands
    <2> QED BY Zenon, <2>1, <2>2, <2>3 DEF SilosInv, CoreTypes, PageTypes, Silos!TypeOK, Entries
  <1>2. SilosInv /\ [Silos!Next]_silosVars => SilosInv'
    BY SilosStep
  <1>3. SilosInv /\ [Silos!Next]_silosVars =>
          [\A s \in SiloIds, p \in Paths : silosDisk'[s][p] \notin {0, silosDisk[s][p]} => marker'[s] # "absent"]_(Silos!vars)
    BY SilosStep
  <1> QED BY <1>1, <1>2, <1>3, SilosInit, EachOnItsOwn, PTL DEF Silos!NoStraysWritten

---------------------------------------------------------------------------
(* The group.                                                               *)

\* Decisions stand, in every run: one on a draft is final, merging two records of a person keeps
\* what either was allowed and forbidden, and a file is written only where there is a silo.
THEOREM DecisionsFinal == Spec => DecisionsStand
  <1>1. HoldInv /\ [Hold!Next]_holdVars =>
          [\A r \in Replies : draft[r] \in {"sent", "discarded"} => draft'[r] = draft[r]]_holdVars
    BY Decided
  <1>2. AccessInv /\ [Access!Next]_accessVars =>
          [\A p, q \in Principals :
             Access!merge(p, q) /\ principal[p] = "active" /\ principal[q] = "active" =>
               \A s \in Surfaces, h \in SUBSET Access!Values :
                 LET was == Access!resolve(s, h)
                     is == Access!resolve(s, h)' IN
                   /\ was.allow => is.allow
                   /\ was.forbid => is.forbid
                   /\ was.bypass => is.bypass]_accessVars
    BY MergeKeeps
  <1> QED
    BY <1>1, <1>2, HoldInit, HoldStep, AccessInit, AccessStep, FilesHaveASilo, EachOnItsOwn, PTL
       DEF DecisionsStand, Hold!DecidedOnce, Access!MergeLosesNothing, Hold!Spec, Access!Spec,
           Hold!vars, Access!vars, holdVars, accessVars

\* What reaches its reader is whole and comes once, and every variable but those of the streamed
\* reply keeps its type.
THEOREM AllWhole == Spec => [](WholeAndOnce /\ (part # "voice" => TypesOK))
  <1>1. ASSUME Hold!TypeOK, Hold!SentIsWhole, Brain!TypeOK, Brain!HistoryHasStable,
               Access!TypeOK, Access!NoDangling, Topics!TypeOK, Topics!ToldOnce,
               Check!TypeOK, Check!RunsOnlyIfCleared,
               Runtime!TypeOK, Runtime!GivenOnce, Runtime!NullIsTheCoresWord,
               Cadence!TypeOK, Cadence!NextIsFirst, Cadence!RunsAsWritten,
               Gate!TypeOK, Gate!JudgedByTheFile, Mcp!TypeOK, Mcp!OneTokenPerCode, Mcp!OneStreamPerUser,
               Vault!TypeOK, Vault!FlagFollowsVault, Vault!KeyHasItsAgent, Silos!TypeOK
        PROVE  WholeAndOnce /\ (part # "voice" => TypesOK)
    BY Zenon, <1>1 DEF TypesOK, WholeAndOnce
  <1> QED
    BY <1>1, DraftsWhole, StableHeard, NothingDangles, EventsToldOnce, RunsCleared, RequestsKept,
       NoMinutePassedOver, RunsAsSaid, GateJudges, OneTokenOneStream, KeysAreTheVaults,
       FilesHaveASilo, PTL

\* Every variable of every part but the reply stream keeps its type: the types' half of it.
THEOREM TypesKept == Spec => [](part # "voice" => TypesOK)
  BY AllWhole, PTL
=============================================================================

-------------------------------- MODULE MCCore --------------------------------
(***************************************************************************)
(* The core's own stores, filters and doors, its silos and the engine's    *)
(* key, when a job is due, and the runtime its connectors call it with. The *)
(* components share no state here: a behaviour is one of one component,     *)
(* chosen at the start.                                                     *)
(***************************************************************************)
EXTENDS Integers, Sequences, FiniteSets

CONSTANTS Replies, Approvers, EngineRuns, Injects, Hashes, NoSession, Sessions, TwoCalls,
          Filed, Principals, Roles, Seeded, Surfaces, Grants, Turns, Streaming, Asks, None,
          Parts, MaxTier, MaxFailures, MaxPieces, MaxEvents, MaxEdits, Calls, MaxDowns,
          LastMinute, LastHour, LastDom, LastMonth, Toggled, Horizon,
          Places, Visitors, Team, Known, Dynamic, Tasks, Secrets, SiloIds, Earlier, Paths, Texts,
          MaxCodes, MaxTokens, MaxOpens, MaxActs, MaxFaults, MaxSiloActs

\* A draft is a text and the files attached to it; a classifier is called at least once; turns of a
\* chat are numbered.
ASSUME PartsAssumption == Parts \in Nat
ASSUME CallsAssumption == Calls \in Nat \ {0}
ASSUME TurnsAssumption == Turns \subseteq Nat \ {0} /\ MaxDowns \in Nat
ASSUME ClockAssumption ==
  /\ Horizon \in Nat /\ LastMinute \in Nat /\ LastHour \in Nat /\ None \notin Nat
  /\ LastDom \in Nat \ {0} /\ LastMonth \in Nat \ {0} /\ Toggled \subseteq Int
\* The other bounds are numbers, and the assistant's own silo has an id.
ASSUME BoundsAssumption ==
  /\ MaxEdits \in Nat /\ MaxCodes \in Nat /\ MaxTokens \in Nat /\ MaxOpens \in Nat
  /\ MaxFaults \in Nat
ASSUME SelfAssumption == "self" \in SiloIds
\* The values that stand for nothing are none of the things there may be.
ASSUME Nulls == NoSession \notin EngineRuns \cup Hashes /\ "nobody" \notin Principals

VARIABLES
  part,  \* the component at work
  draft, returned, approval, delivered, wasApproved, failures,
  engine, session, has, heard, run,
  mustRedact, streamRaw, moodPending, moodCut, shipped, reply,
  exists, log, members, cursor, told, showing,
  principal, identifier, role, grant, engagement, edits,
  phase, jsonMode, attempt, score, spent, billed, logged, fate,
  proc, code, req, sock, turn, seen, prompt, kind, core, downs,
  job, form, before, now, next,
  gateFile, stamp, gateCache, lastGood, gateAnswers,
  registered, mcpCode, grantee, token, mcpDisk, mcpMinted, clock, mcpStream, whose,
  current, mcpAsked,
  sealed, held, engineKey, keysCache, lookups, config, changes, launched, agent, init,
  envKey, accepted, keysActs, keysFaults,
  marker, siloKind, silosDisk, picked, shown, editor, asks, born, fallen, silosActs, crashes

\* Schedules that arrive over the API: a time on some days, by number or by name, a number of minutes
\* (nought is refused), and five fields, well-formed or not.
Number(n) == [as |-> "number", n |-> n]
EveryField == [f \in {"minute", "hour", "dom", "month", "dow"} |-> {[range |-> "*", lo |-> 0, hi |-> 0, step |-> 1]}]
Only(n) == {[range |-> "n", lo |-> n, hi |-> n, step |-> 1]}
Written ==
  {[by |-> "time", minute |-> 1, hour |-> 1, days |-> {Number(1), Number(3)}],
   [by |-> "time", minute |-> 0, hour |-> 0, days |-> {[as |-> "name", n |-> 1]}],
   [by |-> "every", n |-> 2], [by |-> "every", n |-> 0],
   [by |-> "cron", cron |-> [EveryField EXCEPT !.minute = Only(1), !.dom = Only(2),
                               !.dow = {[range |-> "a-b", lo |-> 1, hi |-> 3, step |-> 1]}]],
   [by |-> "cron", cron |-> [EveryField EXCEPT !.hour = Only(0), !.minute = Only(9)]]}

\* Documents of rules that operators write.
Rule(place, subject, policy) == [place |-> place, subject |-> subject, policy |-> policy]
RuleFiles ==
  LET p == CHOOSE q \in Places : TRUE
      u == CHOOSE v \in Team : TRUE IN
    {<<Rule(p, u, "deny"), Rule("every", "anyone", "bypass")>>,
     <<Rule("every", "anyone", "deny")>>,
     <<Rule(p, "team", "two_factor"), Rule("every", u, "bypass")>>}

Hold == INSTANCE Drafts
Brain == INSTANCE EngineSessions WITH Runs <- EngineRuns
Voice == INSTANCE ReplyStream
Topics == INSTANCE Streams
Access == INSTANCE Trust
Check == INSTANCE Moderation
Runtime == INSTANCE ConnectorRuntime
Cadence == INSTANCE Cadence
Gate == INSTANCE AuthGate WITH Docs <- RuleFiles, Users <- Visitors,
        file <- gateFile, cache <- gateCache, answers <- gateAnswers
Mcp == INSTANCE McpOAuth WITH code <- mcpCode, disk <- mcpDisk, minted <- mcpMinted,
       stream <- mcpStream, asked <- mcpAsked
Vault == INSTANCE VaultKeys WITH Users <- Tasks, Values <- Secrets, cache <- keysCache, acts <- keysActs,
         faults <- keysFaults
Silos == INSTANCE SiloExplorer WITH Ids <- SiloIds, MaxActs <- MaxSiloActs,
         MaxCrashes <- MaxFaults, kind <- siloKind, disk <- silosDisk, acts <- silosActs

holdVars == <<draft, returned, approval, delivered, wasApproved, failures>>
brainVars == <<engine, session, has, heard, run>>
voiceVars == <<mustRedact, streamRaw, moodPending, moodCut, shipped, reply>>
topicsVars == <<exists, log, members, cursor, told, showing>>
accessVars == <<principal, identifier, role, grant, engagement, edits>>
checkVars == <<phase, jsonMode, attempt, score, spent, billed, logged, fate>>
runtimeVars == <<proc, code, req, sock, turn, seen, prompt, kind, core, downs>>
cadenceVars == <<job, form, before, now, next>>
gateVars == <<gateFile, stamp, gateCache, lastGood, gateAnswers>>
mcpVars == <<registered, mcpCode, grantee, token, mcpDisk, mcpMinted, clock, mcpStream,
              whose, current, mcpAsked>>
keysVars == <<sealed, held, engineKey, keysCache, lookups, config, changes, launched,
               agent, init, envKey, accepted, keysActs, keysFaults>>
silosVars == <<marker, siloKind, silosDisk, picked, shown, editor, asks, born, fallen,
                silosActs, crashes>>

vars == <<part, holdVars, brainVars, voiceVars, topicsVars, accessVars, checkVars, runtimeVars,
          cadenceVars, gateVars, mcpVars, keysVars, silosVars>>

Init ==
  /\ part \in {"hold", "brain", "voice", "topics", "access", "check", "runtime", "cadence", "gate",
              "mcp", "keys", "silos"}
  /\ Hold!Init /\ Brain!Init /\ Voice!Init /\ Topics!Init /\ Access!Init /\ Check!Init
  /\ Runtime!Init /\ Cadence!Init /\ Gate!Init /\ Mcp!Init /\ Vault!Init /\ Silos!Init
  /\ (part # "brain" => engine = "codex") /\ (part # "voice" => mustRedact)
  /\ (part # "check" => jsonMode)
  /\ (part # "runtime" => core = "up" /\ kind = [r \in Asks |-> "resolve"])
  /\ (part # "keys" => ~sealed /\ held = 0)
  /\ (part # "silos" => silosDisk["self"] = [p \in Paths |-> CHOOSE t \in Texts : TRUE])

Next ==
  /\ UNCHANGED part
  /\ \/ /\ part = "hold" /\ Hold!Next
        /\ UNCHANGED <<brainVars, voiceVars, topicsVars, accessVars, checkVars, runtimeVars,
                        cadenceVars, gateVars, mcpVars, keysVars, silosVars>>
     \/ /\ part = "brain" /\ Brain!Next
        /\ UNCHANGED <<holdVars, voiceVars, topicsVars, accessVars, checkVars, runtimeVars,
                        cadenceVars, gateVars, mcpVars, keysVars, silosVars>>
     \/ /\ part = "voice" /\ Voice!Next
        /\ UNCHANGED <<holdVars, brainVars, topicsVars, accessVars, checkVars, runtimeVars,
                        cadenceVars, gateVars, mcpVars, keysVars, silosVars>>
     \/ /\ part = "topics" /\ Topics!Next
        /\ UNCHANGED <<holdVars, brainVars, voiceVars, accessVars, checkVars, runtimeVars,
                        cadenceVars, gateVars, mcpVars, keysVars, silosVars>>
     \/ /\ part = "access" /\ Access!Next
        /\ UNCHANGED <<holdVars, brainVars, voiceVars, topicsVars, checkVars, runtimeVars,
                        cadenceVars, gateVars, mcpVars, keysVars, silosVars>>
     \/ /\ part = "check" /\ Check!Next
        /\ UNCHANGED <<holdVars, brainVars, voiceVars, topicsVars, accessVars, runtimeVars,
                        cadenceVars, gateVars, mcpVars, keysVars, silosVars>>
     \/ /\ part = "runtime" /\ Runtime!Next
        /\ UNCHANGED <<holdVars, brainVars, voiceVars, topicsVars, accessVars, checkVars,
                        cadenceVars, gateVars, mcpVars, keysVars, silosVars>>
     \/ /\ part = "cadence" /\ Cadence!Next
        /\ UNCHANGED <<holdVars, brainVars, voiceVars, topicsVars, accessVars, checkVars,
                        runtimeVars, gateVars, mcpVars, keysVars, silosVars>>
     \/ /\ part = "gate" /\ Gate!Next
        /\ UNCHANGED <<holdVars, brainVars, voiceVars, topicsVars, accessVars, checkVars,
                        runtimeVars, cadenceVars, mcpVars, keysVars, silosVars>>
     \/ /\ part = "mcp" /\ Mcp!Next
        /\ UNCHANGED <<holdVars, brainVars, voiceVars, topicsVars, accessVars, checkVars,
                        runtimeVars, cadenceVars, gateVars, keysVars, silosVars>>
     \/ /\ part = "keys" /\ Vault!Next
        /\ UNCHANGED <<holdVars, brainVars, voiceVars, topicsVars, accessVars, checkVars,
                        runtimeVars, cadenceVars, gateVars, mcpVars, silosVars>>
     \/ /\ part = "silos" /\ Silos!Next
        /\ UNCHANGED <<holdVars, brainVars, voiceVars, topicsVars, accessVars, checkVars,
                        runtimeVars, cadenceVars, gateVars, mcpVars, keysVars>>

Spec == Init /\ [][Next]_vars /\ Runtime!Fairness

---------------------------------------------------------------------------
\* Every variable keeps its type.
TypesOK ==
  /\ part = "hold" => Hold!TypeOK
  /\ part = "brain" => Brain!TypeOK
  /\ part = "voice" => Voice!TypeOK
  /\ part = "topics" => Topics!TypeOK
  /\ part = "access" => Access!TypeOK
  /\ part = "check" => Check!TypeOK
  /\ part = "runtime" => Runtime!TypeOK
  /\ part = "cadence" => Cadence!TypeOK
  /\ part = "gate" => Gate!TypeOK
  /\ part = "mcp" => Mcp!TypeOK
  /\ part = "keys" => Vault!TypeOK
  /\ part = "silos" => Silos!TypeOK

\* What reaches its reader is whole and comes once: a draft marked sent, the events of a stream,
\* the stable block of a session's prompt, the messages of a chat; a job runs at the minutes its
\* schedule names, each of them once; an authorization code is worth one token and a user has one
\* stream.  And nothing is taken for granted that is not on record: access rows that dangle, a
\* moderated message that runs uncleared, a device's credential called unknown by anyone but the
\* core, a request judged by rules that are not the file's, an engine said to have a key.
WholeAndOnce ==
  /\ part = "hold" => Hold!SentIsWhole
  /\ part = "topics" => Topics!ToldOnce
  /\ part = "brain" => Brain!HistoryHasStable
  /\ part = "runtime" => Runtime!GivenOnce /\ Runtime!NullIsTheCoresWord
  /\ part = "cadence" => Cadence!RunsAsWritten /\ Cadence!NextIsFirst
  /\ part = "access" => Access!NoDangling
  /\ part = "check" => Check!RunsOnlyIfCleared
  /\ part = "gate" => Gate!JudgedByTheFile
  /\ part = "mcp" => Mcp!OneTokenPerCode /\ Mcp!OneStreamPerUser
  /\ part = "keys" => Vault!FlagFollowsVault /\ Vault!KeyHasItsAgent

\* A reply is streamed as what it turns out to be: nothing shown is ever taken back.
StreamedIsReply == part = "voice" => Voice!StreamedIsReply

\* Decisions stand: on a draft, on what a merged person may do, on a silo that was deleted: no file is
\* written where there is none.
DecisionsStand == Hold!DecidedOnce /\ Access!MergeLosesNothing /\ Silos!NoStraysWritten

\* No channel waits for ever: a request to the core settles or its process ends, whatever becomes
\* of the core, and a process told to stop ends though its plugin's stop never returns.
NobodyHangs == Runtime!EverySettles /\ Runtime!ShutdownEnds
=============================================================================

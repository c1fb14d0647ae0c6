# asmltr in TLA+

asmltr gives one assistant many surfaces: connectors turn messages into *envelopes*, the core runs each
envelope as a *turn* of a reasoning engine that remembers the conversation, and around the two stand stores,
devices, telemetry, voice, updates and screens. This directory models what these parts do where order,
failure and concurrency matter, checks the models with TLC, and proves with TLAPS what matters most about
twenty-five of them: the turn pipeline, the scheduler, the turn context, the supervisor, uploads and sign-in;
in the group `MCCore`, drafts, engine sessions, topic streams, trust, moderation, the connector runtime, a job's
schedule, the forward-auth rules, the MCP authorization, the vault and the silos; and in the group `MCDevices`
the device registry, shells, the portal relay, the mesh, the remote screen, the voice room, the gateways and
hands-free talk. Paths below are relative to the root of the repository.

## 1. Inventory

| Component | State | Operations | Interacts with | What is hard | What makes it correct |
|---|---|---|---|---|---|
| **Turn pipeline** `core/src/server.js` (103–160, 278–795, 1756–2087) | promise chain per conversation, slot counter and waiters, abort controllers | dispatch/handle, inject, abort, forget, claim, release | connectors, engines, session store, moderation, scheduler | stops and forgets between any two awaits | one turn per conversation, in order, under the cap; a stop is never dropped; every turn ends |
| **Session store, turn context** `core/src/sessions.js`, `server.js` 206–265 | a row per conversation, announcements with cursors, two memory buffers | resolve, record, clear, claim, announce, observe, drain | pipeline, other sessions | rows removed during a turn, restarts, windows | updates that miss are harmless; at most once, in order, newest kept |
| **Engines** `core/src/engines/` | engine sessions (external), stable-prompt marker | run, rerun fresh, switch | pipeline | sessions lost upstream, inject-once | the stable prompt is in the session resumed |
| **Reply stream** `server.js` 500–660, `shared/redact.js` | raw text, cut, amount shipped | delta, flush, silence | connectors | tags and secrets split over deltas | the streamed text is the reply |
| **Drafts, uploads, topic streams, trust, moderation** | tables, staging directories, logs | approve, discard; begin … commit; publish, acknowledge; merge, remove; classify | dashboard, connectors | awaits between check and act, lost answers, kills | whole, once, decided once, default deny |
| **Scheduled jobs** `core/src/scheduler.js`, `shared/schedules.js` | jobs file, in-flight set | tick, run-now, edits, cron | pipeline (prompt jobs), shell | slow runs, edits during a run, restarts | each slot once, none lost, at the minutes written |
| **Doors** (sign-in, forward-auth rules, MCP authorization) | accounts file, challenges and codes in memory, rules file, tokens | login, enroll, link, judge, register, grant | browsers, proxies, MCP clients | awaits during verification, files being rewritten | one-time things used once; the file's rules apply |
| **Devices** (registry, shells, portal relay, mesh, remote desktop, touch) | rows, hashes, queues, PTYs, broker sessions | enroll, revoke, open, poll, provision, connect | vault, Pangolin, hosts, phones | revocation against awaits, long polls, late answers | what was taken away stays away; output whole |
| **Connector manager** `connectors/manager/` | instances table, record, processes, timers, announcement queue | create … delete, crash, shutdown, boot, send, announce | OS processes, connectors | exit listeners in order, timers that outlive their reason | the record tells the truth, crashes restart, a notice comes once |
| **Connector runtime and types** `connectors/sdk`, `runtime`, `types/` | requests, cursors, sets, windows, buffers | start, stop, request; poll, fetch, coalesce, steer, speak | core, GitHub, IMAP, Telegram, Discord | overlapping polls, reconnects, late events | once and in order; two sides agree |
| **Phone** `mobile/www/`, `types/android`, `types/device` | links, tabs, recordings, clips | frames, switches, commands, talk | gateway, speech | one stream in many tabs, promises of audio | every frame in its tab; commands answered once |
| **Insights** `insights/collector/` | event log, sessions, usage, labels, digest | ingest, reconcile, tail, title, kill, reflect | trackers, core, dashboard | duplicates, late events, pids reused | counts add up; locked titles stay |
| **Voice and recordings** `shared/speech/`, `shared/recordings.js` | clips, settings, records | speak, charge, transcribe, diarize, enrich | providers | out-of-order synthesis, concurrent jobs | in order, charged once, edits stay |
| **Vault and silos** `shared/secrets.js`, `shared/vault.js`, `shared/silo.js` | cache, agent keys, manifests | look up, set, unseal; create, save, delete | vault, dashboard | stale caches, answers for another selection | flags follow the vault; nothing written astray |
| **Updater and backups** `scripts/` | tree, dependencies, services, lock, archives | update, roll back; create, prune, restore | git, npm, pm2 | kills between steps, two at once | ends on the commit it reports; overwritten is stashed |
| **CLI and screens** `cli/`, `insights/dashboard/src` | claims, multiplexers, lists, panes, dialogs | takeover, launch, send; keys and clicks | core | answers that come after the user moved on | a key acts on the row shown |

The core, the manager, the collector and every connector are node.js processes: callbacks never overlap, so
the code between two `await`s is atomic, and an action of the models is exactly such a stretch. What
interleaves is callbacks of different turns, requests and timers, processes with each other, and kills with
everything.

## 2. Modules

`Turns`, `TurnContext`, `Supervisor`, `Scheduler`, `Uploads` and `SignIn` have runs of their own. The other
components share no state with each other, so three modules, `MCCore`, `MCDevices` and `MCServices`, each put
nine to twelve of them side by side: the variable `part` says which one a behaviour is of, the others stay
as they began, and a property of the group is the conjunction of what it means for each part. Some modules hold
two or more *scenes*, small machines on neighbouring code, in the same way: their variable `scene` chooses. No
cfg replaces a definition. A definition whose name carries a suffix after `_` (`SlotFree_OffByOne`) is the
definition it is named after with one plausible mistake in it: no specification uses it, and it shows that a
property would notice that mistake.

### The core of the core

| Module | Models | State and actions |
|---|---|---|
| `Turns` | the turn pipeline and the session row | see below |
| `TurnQueue` | its abstract promise: a FIFO per conversation, heads served, a cap | `Turns` implements it (`ServesInOrder`) |
| `TurnsProofs` | theorems about `Turns` | section 4; so are `SupervisorProofs` for `Supervisor`, `CoreProofs` for the parts of `MCCore`, `DevicesProofs` for those of `MCDevices`, and the second halves of `TurnContext`, `Scheduler`, `Uploads` and `SignIn` |
| `TurnContext` | mailbox, observed and self-sent buffers | `Begin` is `handle()` up to moderation: it drains and moves the cursor, whose UPDATE misses without a row. `Run` creates the row and empties the buffers. `told` is the history of what each run of a session was given, the run without a row included |
| `Scheduler` | jobs against the clock | minutes are integers, a cron is the set of minutes it matches; `MarkRan` takes the start of the run whatever happened meanwhile |
| `Supervisor` | instances and their processes | `Spawned`, `Killed`, `Restarted`, `StopNow` and `Heard` are functions on a record and its processes, because one exit runs several: `ChildExits` applies the crash handler and leaves the child's listeners in `hearing`; `Hears` calls them one by one, in the order they were added, and no other event of the manager comes in between (`Quiet`). Stops, PATCHes, deletions and shutdowns come at any time, also while a restart waits: the history variable `crossed` notes for which instances |
| `Uploads` | uploader, network, staging, commit step by step, sweep and manifest | every request, answer and write may be cut; `withRetry` is the page's repeated attempt at a chunk |
| `SignIn` | accounts file, second factor, recovery codes, passkeys, linked identities, sessions | the two awaits, a passkey's check and the exchange with the provider, are pairs of actions joined by `awaiting`; `opened` counts, for the properties only, what each one-time proof opened |

In `Turns` a *turn* is a message (`dispatch()`), an inject (`POST /v2/inject`) or a job (a scheduled prompt
that names a conversation and so calls `handle()` directly).

| Model | Code |
|---|---|
| `chain[k]` | the promise chain `keyChains.get(k)`: its head runs, the others wait |
| `active`, `waiters` | the variables of the same name; `EndTurn` hands a slot over as `releaseSlot` does |
| `inFlight[k]`, `aborted` | the sets of controllers and the fired ones; a turn stands for its controller |
| `row[k]` | the columns `engine_session_id` and `claim_state` |
| `pc` | `queued` (in the chain), `slot` (waiting for one), `admitted`, `moderating`, `running`, `delivering` (an inject's `/send`), `done` |
| `resume[t]` | the id the run was asked to resume; a fresh run's session is named after its turn |
| `late`, `forgotten` | history variables, read by properties only |

The finally blocks of a message (slot, registry, lock) run in one chain of microtasks that no request can
enter: `Leave` is one step. `RetryFresh` is the vanished-session recovery and is limited to turns outside
`Cli`, because codex and gemini runs return instead of throwing. The idle policy is always `infinite`
(server.js:280). An engine asked to resume a session is taken to report that session.

### `MCCore`

| Module | Models |
|---|---|
| `Drafts` | a held reply, its approvals part by part, discard, failures, restarts |
| `EngineSessions` | which id a run resumes and reports, lost sessions, engine switch, the stable block and its marker, injects |
| `ReplyStream` | mood tag, holding, redaction up to a blank, silence by sentinel, by refusing prose and for want of text; text is a sequence of pieces small enough to be cut anywhere that matters, with a secret of one token and one that may hold blanks |
| `Streams` | a topic's log, members, cursor, nudges and acknowledgements |
| `Trust` | principals, identifiers, roles, grants, engagement rows; merge and deletions with the foreign keys' cascades |
| `Moderation` | up to two classifier calls, refusals, JSON mode, the level as it was parsed (a number, something that compares as one, or nothing) and its comparison with six, log before verdict, token count |
| `ConnectorRuntime` | a connector's start and shutdown, its core requests as promises, the OpenAI connector's memory of chats |
| `Cadence` | schedule → fields → sets → next minute, and the edit form; the outcome is what `Scheduler` takes as `Crons` |
| `AuthGate` | the rules file (whole, torn, gone), its cache by stamp and size, the judgement |
| `McpOAuth` | clients, codes approved for whatever client the page names, tokens on disk, one event stream per user |
| `VaultKeys` | the sealed or open vault, the resolver's cache, key mode and the PATCH that may set any of its fields, `asmltr vault init` |
| `SiloExplorer` | directories with manifests, the explorer page, kills between two writes |

### `MCDevices`

| Module | Models |
|---|---|
| `Devices` | row, transport, one-time codes over awaited vault calls |
| `DeviceShell` | grants, the PTY and its row, scrollback, watchers |
| `PortalDrive` | the relay's queue and held polls, the host's loop, the signing key |
| `MeshEnroll` | provisioning, enrolment, install script, teardown; the cloud and the vault may refuse any call, also the vault after the cloud has made the client |
| `RemoteDesktop` | two scenes: broker, viewer attempts and revocation; fingers to pointer events |
| `DiscordVoice` | two scenes: replies sentence by sentence, stop, barge-in, mute, join and leave; bursts, the windows the live model reports (`from`: a window drops words off the front as it advances, and never takes one back) and their merge, captions, the wake word's gate |
| `DeviceGateway` | a phone's two links, commands with timeouts, pushes, surface description |
| `PhoneTabs`, `PhoneVoice` | frames into tabs with histories loading; the hands-free loop with its promises |

### `MCServices`

| Module | Models |
|---|---|
| `GitHubPoll` | overlapping polls, the working comment, `seen`, `mine`, `since` and their file, kills |
| `Inbound` | two scenes: Telegram's polling, downloads and coalescer; the mailbox's link, UID cursor, fetch loop and sending policy |
| `DiscordChannel` | aim, quiet window, the one turn, steering, narration, final post, settings file |
| `Maintenance` | two scenes: an archive taken while services run, retention and restore file by file; the updater's lock, checkout, install, restart, verify, roll back |
| `Collector` | events by request and tailer, projections, trackers, titles, usage, signals, the page's feed |
| `Speech` | two scenes: a recording under concurrent jobs, chunks, edits and deletion; sentences synthesized in parallel and spoken in order, acknowledgement, drone, charge, bindings |
| `Terminal` | four scenes: takeover, launch with tailer, send with fallback, reading a command line |
| `Views` | scenes of the terminal UI and of the dashboard's panes, each asking and taking input meanwhile |
| `Body` | labels, the graph of sessions and repositories, the reflection on a digest |
| `Outbound` | the ladder and its quiet hours, `/send`, the announcement queue with its retries and with a clearing write that may fail, a manager that ends |

## 3. Runs

| Run | Shows |
|---|---|
| `turns_safety` | slot accounting, mutual exclusion, stops that find and hold their turn, forget, claim, registry |
| `turns_progress` | every accepted turn ends; refinement of `TurnQueue` |
| `turns_runs_apart` (violation) | a scheduled prompt runs beside its conversation's own turn |
| `supervisor` | the record matches the host; restarts hand over; a shutdown ends after the children it stopped; all with stops and shutdowns that cross a waiting restart |
| `turn_context` | announcements told in order and, from a session's third run on, never again; notes heard once and in order, newest kept |
| `announced_twice` (violation) | the first run of a conversation, without a row, and the second are told the same announcement |
| `scheduler` | no overlap, no slot lost or fired twice, nothing stays overdue |
| `uploads` | a listed file is whole; what was discarded or swept does not come back |
| `sign_in` | each one-time proof opens one session; a second factor that is on can be met |
| `core` | `WholeAndOnce`: replies, events and tokens once, rules and keys as they are kept; `StreamedIsReply`, `DecisionsStand`, and `NobodyHangs`: every core request settles and every shutdown ends |
| `devices` | `PromisesHold`: codes, commands and answers once, watchers, captions and status whole and as reported; `TakenAway`: what was revoked, forbidden or stopped stays so |
| `services` | `OnceAndWhole`: one turn, sentence, notice for each cause; `DecisionsStand` |

**Bounds.** `Turns`: two conversations and one slot are enough for a message to wait for a slot while it holds
its lock; the messages, the inject and the job meet on one conversation. `TurnContext`: windows of one and two
and a cap of one announcement make every overflow happen. `Supervisor`: two instances, each with two process
slots, two timers and two listeners, and one restart before a crashing instance is given up: a restart and a
stop, a stop and a shutdown, or two restarts meet on one child, and a spawn meets a child that is still there.
No request is left out but for want of a slot or of room for a listener. `Scheduler`: five minutes hold a run
longer than the distance of two slots, one run-now at a time and one restart. `Uploads`: two files of two
chunks, two attempts at a chunk and three faults, so that a chunk may be lost, repeated and late in one upload
while a commit takes several requests. `SignIn`: two passkeys share two challenges and two codes over two
enrollments, one sign-in state, and a lock after two failures. `MCCore` and `MCDevices` take every bound as a
constant of their cfg, so that their proofs hold for any, `MCServices` in an `INSTANCE ... WITH` at its head
(`MaxFaults`, `MaxActs`, `MaxTurns`, ...): two actors of the kind that can meet, and one fault, kill or
reconnect where a fault is what the property is about. Three words of a vocabulary of three, in windows of two,
make the merge of captions drop and repeat. These bounds limit requests, faults and counters, never which steps
of the code may follow each other. What a smaller instance cannot show is said in section 5: a few of the
findings need one more tab, updater, fault or chunk than the group's instance has.

Deadlock is not checked where a bounded instance really stops: all messages handled, all requests made, the
clock at its bound. The run `supervisor` uses the symmetry of its two instances, which differ in name only; all
its properties are of safety. The other runs use none.

**Fairness.** `Turns!FairSpec` asks weak fairness of each turn's own steps: moderation, engine runs and
deliveries answer (they are calls with timeouts, or processes that end), and the event loop runs what is
ready. `Scheduler!FairSpec` asks that the interval timer ticks and that runs end (shell commands are killed at
their timeout). `ConnectorRuntime!Fairness` asks that an event which has reached the process (a response's end, an error, the
idle timer of a socket) is delivered, and that the shutdown's deadline timer fires. Requests, the clock,
edits, faults and kills are never fair.

## 4. Proofs

Eight modules of theorems, for all values of the constants under the assumptions each module names. `Bounds`
and `BoundsAssumption`: bounds are natural numbers (a scrollback, a classifier's calls and the days and months of a
clock are not zero) and sets that are counted are finite. `TurnKinds` and `TurnsAssumption`: turns are of the
kinds there are, those of a chat numbered from one. `Distinct` of `SignIn`: codes, challenges and states are
random and no two are alike. `Nulls`: what stands for nothing is none of the things there may be.
`SelfAssumption`: the assistant's own silo has an id. `Ranges`: a sensitivity is a per cent and a confidence a
per mille. No invariant below is inductive by itself. Each proof gives the strengthening in named parts, TLC has
checked it on the instance of the component's run, and it is preserved by one lemma per action or group of actions,
over lemmas on the operators.

| Theorems | Property | Argument |
|---|---|---|
| `TurnsProofs` `TypeCorrect`, `SlotsAccounted`, `TurnsLockedApart` | `TypeOK`, `SlotAccounting`, `LockedApart` | A chain has no repetitions, holds exactly the queued and serving turns of its conversation, and whoever is past the lock is its head, so `Unlock` cannot let two past. `waiters` is the turns in phase `slot`, so that the waiter a release admits is one more holder in exchange for the leaving one |
| `TurnsProofs` `StopsFind`, `StopsHold`, `RegistryExact`, `ClaimHolds`, `ForgottenForGood` | `Stoppable`, `StoppedNeverStarts`, `NothingLeftTrackedUnscheduled`, `AtMostOneLate`, `ForgetIsFinal` | The same invariant, with what the registry holds in each phase, which session a run may still report, and that a claim stands between the late message and the next |
| `TurnsProofs` `Implements` | `ServesInOrder` | The refinement of `TurnQueue`, action by action, over the invariant above |
| `Scheduler` `TypeCorrect`, `NoOverlap`, `NothingPassedOver`, `FiredOnce` | `TypeOK`, `NeverOverlapsItself`, `NoSlotPassedOver`, `SlotFiredOnce` | The guard set names the jobs that a tick's run is under way for; `next_run` is the least match after the minute last accounted for |
| `TurnContext` `TypeCorrect`, `ToldOnward`, `NotesHeard` | `TypeOK`, `ToldInOrder`, `NotesInOrder` (`HeardOnceInOrder` and `NewestWait`) | A row is there as soon as a run has been told something, and from the second run on its cursor lies past all that was told: what a later turn drains lies past the cursor (`ToldRight`). What was heard lies below what is buffered, and buffers are intervals of the notes that end with the newest |
| `SupervisorProofs` `TypeCorrect`, `RecordsMatch`, `HandsOver`, `ReapedAll` | `TypeOK`, `RecordMatchesHost`, `RestartHandsOver`, `ReapsBeforeExit` | `Sound` holds of every instance whatever comes: a record that says running has its child alive, stopAll waits for one process of an instance at most, and a running record found while an exit is announced is that of a child just spawned. `Straight` holds as long as no stop crossed a restart: one child, and stops come before restarts among the listeners, so that what is heard last is what the record says. `remaining` is the number of instances whose child stopAll waits for (`CountInv`) |
| `Uploads` `TypeCorrect`, `WholeFiles`, `Discarded` | `TypeOK`, `OnlyWholeFiles`, `DiscardIsFinal` | A staged id's bytes are chunks of one file at their offsets, a size that matches means all of them, and an id is never begun twice |
| `SignIn` `TypeCorrect`, `OpenedOnce`, `FactorUsable` | `TypeOK`, `OpensOnce`, `SecondFactorUsable` | A challenge or a state is in one place on its way from fresh to issued to awaited and has opened nothing until it leaves; the codes of an enrollment open nothing before it is confirmed, and those of an account are all unused |

`CoreProofs` proves the parts of `MCCore` where they are checked. `EachOnItsOwn` shows that a behaviour of the
group is a behaviour of each of eleven parts, so an invariant of a part need not mention the others; it then gives
each its own inductive invariant:

| Theorem | Part of the group's properties | Argument |
|---|---|---|
| `DraftsWhole` | `Hold!SentIsWhole` | What an approval counts as sent has gone out, and only an approved draft has an approval |
| `StableHeard` | `Brain!HistoryHasStable` | A run under way resumes the row's session, and leaves the stable block out only because of a marker that is still there; a marker names a block that the row's session has heard as long as codex can resume it. Every way a run ends, or loses its session, keeps the two together |
| `NothingDangles` | `Access!NoDangling` | The cascade of each removal, over the fact that no row is the absent one |
| `GateJudges` | `Gate!JudgedByTheFile` | A cache that carries the file's stamp holds what the file holds, and stamps only grow |
| `OneTokenOneStream` | `Mcp!OneTokenPerCode`, `Mcp!OneStreamPerUser` | A token was made for one client, out of a code that is spent and was that client's (`MintInv`); an open stream is the one its user's session names (`StreamInv`) |
| `KeysAreTheVaults` | `Vault!FlagFollowsVault`, `Vault!KeyHasItsAgent` | The flag is written by a request whose secret the vault has taken, and an agent is known from before its key is on disk |
| `FilesHaveASilo` | `Silos!NoStraysWritten` | A write looks for the manifest in the stretch that writes (`OpensAt`), and a request under way names what its operation needs |
| `DecisionsFinal` | `DecisionsStand`, the whole property of the run | `setStatus` misses a draft that is decided; after a merge every source of a verdict for the one person is a source for the other (`Merged`, `SourcesAre`), and handles resolve to the survivor |
| `EventsToldOnce` | `Topics!ToldOnce` | A cursor stands at events that are in the log, whose count only grows while the log does |
| `RunsCleared` | `Check!RunsOnlyIfCleared` | Calls that were answered are at most those made, and a fate is decided last |
| `RequestsKept` | `Runtime!GivenOnce`, `Runtime!NullIsTheCoresWord` | A turn that was not asked for brought nothing, and turns are asked for in their order |
| `NoMinutePassedOver` | `Cadence!NextIsFirst` | The scan finds the least match (`Scanned`, over the well-foundedness of `<`), and `next_run` is kept ahead of the clock |
| `RunsAsSaid` | `Cadence!RunsAsWritten` | The stored cron is the stored schedule compiled, through API, form and clicks; a lemma per way of writing one says when what it compiles to matches: single values are themselves (`EachSet`), a step that divides the hour divides it at the same minutes of every hour (`HourAndStep`, over the uniqueness of remainders), five fields by the rule for the two kinds of day (`MatchesAre`) |
| `AllWhole`, `TypesKept` | `WholeAndOnce`, and `TypesOK` where `part` is not `"voice"` | The theorems above together |

`DevicesProofs` does the same for eight of the nine parts of `MCDevices`:

| Theorem | Part of the group's properties | Argument |
|---|---|---|
| `OneCredential` | `Registry!OneCredentialPerCode`, `Registry!DroppedStaysDropped` | A code on its way to a credential is spent, in one request's hands, and was never redeemed (`CodesInv`); a token is at one place at a time: with the request that will bind it, in the row, or dropped (`TokensInv`) |
| `WatchersSeeAll`, `ForbiddenStayOut` | `Remote!WatchedWhole`, `Remote!ForbidWins` | A buffer is an end of the output at least as long as a full scrollback (`Ending`), which an append, a trim and a replay each keep |
| `CommandsRunOnce` | `Dongle!RunsOnce` | A command is in the queue, in a held poll's answer, or run, and in one of them only (`OnePlace`); what was drained and what waits to be, together, follow what ran (`Follows`) |
| `EnrolledAsReported` | `Net!StatusIsHonest`, `Net!LandsInFleet` | An enrolment's status is never ahead of what it has made (`Behind`), and a teardown marks every enrolment it meets as crossed (`Crossing`) |
| `OneScreenEach` | `Screen!OneLiveConnection`, `Screen!ClickIsAlone`, `Screen!StartsClean`, `Screen!RevokedIsOut` | A revoked device the broker was told of is outside: not known, in no session, hosting nothing, and with no attempt that could still be let in (`Outside`); a press that may become a click is the only finger (`Alone`, `Gesture`) |
| `HeardAndShown`, `StoppedStaysQuiet` | `Room!CaptionFollows`, `Room!HeardAsSaid`, `Room!GateIsMonotone`, `Room!StoppedNeverSpeaks` | The transcript ends with the whole of the last report (`EndsWithReport`). As windows only advance, the true overlap with the next report always fits, so the largest one is no shorter, and what is appended was not reported before (`Overlaps`, `MergedSelects`); without repetitions it is the true one (`MergedExact`) |
| `AnsweredAndReachable` | `Gateway!AnsweredOnce`, `Gateway!Reachable` | A command is waited for or was answered once (`CallsInv`); the stream a device reads is the one registered (`StreamsInv`) |
| `CaptionsHaveTheMic` | `Talk!CaptionsNeedTheMic` | At most one attempt is the current one and has a microphone, and the open peer is the one in the global (`CaptionInv`) |
| `PromisesKept`, `TypesKept`, `StaysAway` | `PromisesHold` and `TypesOK` where `part` is not `"tabs"`, `TakenAway` of behaviours of the other parts | The theorems above together |

The proof of `HeardAndShown` corrected the model: with windows that could grow backwards, which the live model
does not send (`shared/speech/realtime-stt.js:20`), the merge doubles words, at windows larger than the run's.
`from` rules such reports out, and `CaptionFollows` says more than before: nothing is doubled, whether or not
words are repeated.

Nothing is assumed of the order in which stops, restarts and shutdowns reach the supervisor. What the code
does not keep where they cross, one process per instance, is no conjunct of `RecordMatchesHost` for an instance in
`crossed` and is a finding (`Supervisor!OneProcess`); that a running record has a live child, that a restart hands
over and that stopAll's children are reaped holds there too.

Model-checked only: liveness (`EveryTurnEnds`, `OverdueFires`, `NobodyHangs`), which is out of the prover's
reach; the parts of `MCServices`, which have no theorems yet; and two parts of the other groups, with their types:
`StreamedIsReply` of `MCCore`, because what a `ReplyStream` reply comes to is a fold over a sequence, and the phone's
tabs in `MCDevices` (`Tabs!OnceInOrder`, `Tabs!SortedIntoTabs`), because what a tab shows is a fold over frames.
A claim about every input of a fold would need induction over data, which is out of reach.

## 5. What the checks found

Most of what the models say of the code holds. Where it does not, the property that is false is kept in its
module under the name `PROJECT.json` gives it in "findings" (`Module.Property`), with the line of the code and
the sentence of the repository it contradicts. `turns_runs_apart` and `announced_twice`
are runs of their own; the others were found with TLC by checking the property in its module, some with one more
actor or fault than the group's instance has. They fall into five kinds:

* **Read, awaited, written.** Two approvals of one draft deliver it twice; two updaters started together both
  see the lock free; an album's slow photo makes a second batch; the file explorer marks as saved what was typed
  during the save, and deletes in the silo chosen meanwhile.
* **A stop or an end that comes in between.** A shutdown during a restart orphans the new child; a stopped run
  that returns is posted; a voice reply that fails in the middle frees the room while its sentence plays; text
  streamed before a turn is silenced, the sentinel itself included, has been shown; the end of another session's
  turn ends the one on screen.
* **State kept in two places.** A terminal's claim outlives its session; the voice binding and the configuration
  differ; the cursor of a conversation without a row is nowhere, so its first two turns are told the same; a
  recording says enriched without a summary; a dead codex thread is resumed for ever.
* **Partial failure.** A draft whose file was refused is sent again with its text; a torn manifest line swallows
  the next; the announcement queue is emptied before its notes are delivered, and delivered at every start when
  emptying it fails; a restored database is replayed over by the old log.
* **Edges of a format.** A risk level of `null`, `""` or -1 compares as a low one and lets a message run; a
  secret with a blank in it is streamed up to that blank before it is masked; `days: ["mon"]` becomes every day
  after an untouched save; a first delta of blanks lets the mood tag through; `backup restore <file> --dry-run`
  at the end of a line is no dry run.

## 6. Not modelled, and why

Prompt wording, formatting, telemetry records and pages that only show data decide nothing that the
properties tell apart. The OIDC provider, remote storage, SSH and the vault service are external; the Java
app, the Go host agent and the eyes are drivers of a screen, a microphone and an input device whose protocol
is modelled at its other end. Heartbeat health and pricing are pure functions of a report; setup steps are
linear and idempotent. `PROJECT.json` lists each with its status.

Within modelled components: the supervisor's choice between two configurations of one instance; a CLI
engine process that outlives its stop (`core/src/engines/codex.js:66`); folders inside a silo; the crash of a
manager while its children live on, except where `Supervisor` boots again; relays of media.

## 7. Plan

1. Done: the modules of section 2 with their runs, and the theorems of section 4, which state every safety and
   action property of the turn pipeline, the scheduler, the turn context, the supervisor, uploads and sign-in,
   those of eleven of the twelve parts of `MCCore` and of eight of the nine of `MCDevices`.
2. Proofs next, in the same form, of parts of `MCServices`: `Outbound`'s ladder, the GitHub cursor, the updater's
   commit. Then `NobodyHangs` of `ConnectorRuntime` as the safety property that an unsettled request has an event
   on its way.
3. Larger instances of the group's parts, each with a run of its own where its bound is the tightest (`PhoneTabs`,
   `Maintenance`, `Collector`), and a second configuration in `Supervisor`.

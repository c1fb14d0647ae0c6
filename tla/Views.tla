------------------------------- MODULE Views --------------------------------
(***************************************************************************)
(* What the operator's screens show, and what a key or a click then does:  *)
(* the lists of the terminal UI (cli/tui.js) and the panes of the          *)
(* dashboard (SessionDetail, Settings, Fleet, Portal, the manager and the  *)
(* trust store, the update panel and the runtime's), with the caches the   *)
(* core answers two of them from.  Each screen asks over the network and   *)
(* goes on taking input meanwhile; an answer may come in any order.  The   *)
(* screens share no state, so a behaviour is one of one scene.             *)
(***************************************************************************)
EXTENDS Integers, Sequences, FiniteSets

CONSTANTS
  Subjects,  \* what a pane can be about: backups, devices, voice providers, watched sessions
  Dongles,   \* portal dongles in radio range
  MaxAsks,   \* requests in flight at once
  MaxInputs, \* keys and clicks
  MaxEvents, \* events a session records
  MaxSdk,    \* versions npm publishes
  Nothing

VARIABLES
  scene,
  inputs,   \* keys and clicks so far
  box,      \* terminal: the list box in front, "none", "settings" or "app"
  mode,     \* settingsMode
  appMode,
  chosen,   \* how deep curInst and curPanel are set
  rows,     \* settingsRows and appRows: what each line acts on
  lines,    \* what each line of the two boxes shows
  draws,    \* renders, posts and loads that wait for an answer
  acted,    \* <<box, shown, acted on>> of the last activation, <<>> before one
  died,     \* an unhandled rejection ended the terminal UI
  pane,     \* which pane of the dashboard
  subject,  \* what it is open for
  body,     \* whose content it shows
  asks,     \* the questions in flight
  did,      \* <<open for, shown>> when the operator last acted in it, <<>> before
  current,  \* update panel: the run the operator started last
  file,     \* the updater's status file
  panel,    \* active and wasRunning, which move together
  status,   \* what it shows
  polls,    \* progress answers under way
  events,   \* chat: what the session recorded, by ts; 0 somebody else's, n local turn n's
  feed,     \* how much of it the socket has brought
  seeded,   \* how much load() has brought, Nothing before
  asked,    \* what load()'s answer under way holds, Nothing when none
  cutoff,   \* cutoffTs
  turns,    \* local turns: TRUE while one streams
  busy,
  linked,   \* portal: the dongle whose INFO is on screen
  row,      \* registeredId, named by its dongle
  fleet,    \* dongles with a device row
  paired,   \* dongles that hold our key
  steps,    \* portal calls under way: <<call, dongle>>
  shop,     \* which list: the manager's instances, the principals, the fleet's devices
  live,     \* what the server has
  shelf,    \* the screen's copy of it
  fetches,  \* answers under way: what they read, and the overlay's part of them
  mesh,     \* the core's cached answer of the overlay: its value, fresh, and one pending
  calls,    \* calls to the overlay's control plane in flight
  sdk,      \* npm's newest, the installed, the one this core loaded, and what it keeps in memory
  installs, \* detached SDK updaters at work
  news,     \* notifications of an SDK update: <<boot, version>> in order
  watch     \* Settings, after an SDK update was asked for: the version it waits to see change

listVars == <<box, mode, appMode, chosen, rows, lines, draws, acted, died>>
paneVars == <<pane, subject, body, asks, did>>
updateVars == <<current, file, panel, status, polls>>
chatVars == <<events, feed, seeded, asked, cutoff, turns, busy>>
dongleVars == <<linked, row, fleet, paired, steps>>
storeVars == <<shop, live, shelf, fetches, mesh, calls>>
sdkVars == <<sdk, installs, news, watch>>
vars == <<scene, inputs, listVars, paneVars, updateVars, chatVars, dongleVars, storeVars, sdkVars>>

Scenes == {"lists", "pane", "update", "chat", "dongle", "store", "sdk"}

\* What the overlay's control plane says of a device: an outage, nothing, a site up or not.
Overlay == {"error", "none", "offline", "online"}

Boxes == {"settings", "app"}
Lines == {"note", "instance", "panel", "field", "default", "channel"}
Depths == {"none", "instance", "panel"}
Max2(a, b) == IF a > b THEN a ELSE b
Without(s, i) == SubSeq(s, 1, i - 1) \o SubSeq(s, i + 1, Len(s))
At(s, i) == IF i \in DOMAIN s THEN s[i] ELSE "note"
Input == inputs < MaxInputs /\ inputs' = inputs + 1
Asked(q, x) == IF Len(q) < MaxAsks THEN Append(q, x) ELSE q
Room(q) == Len(q) < MaxAsks

TypeOK ==
  /\ scene \in Scenes /\ inputs \in 0..MaxInputs
  /\ box \in Boxes \cup {"none"} /\ mode \in {"none", "instances", "instance", "panel"}
  /\ appMode \in BOOLEAN /\ chosen \in Depths /\ died \in BOOLEAN
  /\ \A b \in Boxes : \A s \in {rows[b], lines[b]} : \A i \in DOMAIN s : s[i] \in Lines
  /\ \A i \in DOMAIN draws : draws[i] \in {"instances", "panel", "app", "channel", "field"}
  /\ subject \in Subjects \cup {Nothing} /\ body \in Subjects \cup {Nothing}
  /\ \A i \in DOMAIN asks : asks[i] \in Subjects
  /\ current \in 0..MaxInputs /\ panel \in BOOLEAN
  /\ \A r \in {file, status} : r.run \in 0..MaxInputs
  /\ feed \in 0..Len(events) /\ busy \in BOOLEAN
  /\ \A n \in DOMAIN turns : turns[n] \in BOOLEAN
  /\ linked \in Dongles \cup {Nothing} /\ row \in Dongles \cup {Nothing}
  /\ fleet \subseteq Dongles /\ paired \subseteq Dongles
  /\ live \subseteq {"a"} /\ shelf.has \subseteq {"a"} /\ shelf.mesh \in Overlay
  /\ mesh.val \in Overlay /\ mesh.fresh \in BOOLEAN /\ calls \in Nat
  /\ {sdk.npm, sdk.disk, sdk.loaded, sdk.latest, sdk.notified} \subseteq 0..MaxSdk
  /\ installs \in 0..MaxAsks /\ watch \in 0..MaxSdk

Init ==
  /\ scene \in Scenes /\ inputs = 0
  /\ box = "none" /\ mode = "none" /\ appMode = FALSE /\ chosen = "none" /\ died = FALSE
  /\ rows = [b \in Boxes |-> <<>>] /\ lines = [b \in Boxes |-> <<>>] /\ draws = <<>> /\ acted = <<>>
  /\ pane \in (IF scene = "pane" THEN {"restore", "grants", "voices", "watch", "tape"} ELSE {"grants"})
  /\ subject = Nothing /\ body = Nothing /\ asks = <<>> /\ did = <<>>
  /\ current = 0 /\ file = [state |-> "success", run |-> 0] /\ panel = FALSE
  /\ status = [state |-> "idle", run |-> 0] /\ polls = <<>>
  /\ events = <<0>> /\ feed = 0 /\ seeded = Nothing /\ asked = TRUE
  /\ cutoff = Nothing /\ turns = <<>> /\ busy = FALSE
  /\ linked = Nothing /\ row = Nothing
  /\ fleet \in (IF scene = "dongle" THEN SUBSET Dongles ELSE {{}})
  /\ paired \in (IF scene = "dongle" THEN SUBSET Dongles ELSE {{}}) /\ steps = <<>>
  /\ shop \in (IF scene = "store" THEN {"manager", "trust", "fleet"} ELSE {"manager"})
  /\ live = {"a"} /\ shelf = [has |-> {"a"}, mesh |-> "none"] /\ fetches = <<>>
  /\ mesh = [val |-> "none", fresh |-> FALSE, pending |-> FALSE] /\ calls = 0
  /\ sdk = [npm |-> 1, disk |-> 1, loaded |-> 0, latest |-> 0, young |-> FALSE, notified |-> 0,
            auto |-> FALSE, boot |-> 1]
  /\ installs = 0 /\ news = <<>> /\ watch = 0

---------------------------------------------------------------------------
\* The lists of the terminal: connectors, one connector, a panel of it; and the settings.

\* The lines of one connector, drawn at once from what is already loaded.
renderInstance ==
  /\ mode' = "instance" /\ chosen' = "instance"
  /\ rows' = [rows EXCEPT !["settings"] = <<"note", "panel", "field">>]
  /\ lines' = [lines EXCEPT !["settings"] = <<"note", "panel", "field">>]

\* renderInstances and renderPanel empty the rows before they ask, and fill them after.
renderInstances(q) ==
  /\ Room(q)
  /\ mode' = "instances" /\ chosen' = "none" /\ rows' = [rows EXCEPT !["settings"] = <<>>]
  /\ draws' = Append(q, "instances")

renderPanel(q) ==
  /\ Room(q)
  /\ mode' = "panel" /\ rows' = [rows EXCEPT !["settings"] = <<>>]
  /\ draws' = Append(q, "panel")

\* A key of the screen itself works while no overlay says it owns the screen.
anyOverlay == mode # "none" \/ appMode

openSettings ==
  /\ Input /\ box = "none" /\ ~anyOverlay
  /\ box' = "settings" /\ lines' = [lines EXCEPT !["settings"] = <<"note">>]
  /\ renderInstances(draws) /\ UNCHANGED <<appMode, acted, died>>

settingsBack ==
  /\ Input /\ box = "settings"
  /\ \/ mode = "panel" /\ renderInstance /\ UNCHANGED <<draws, box>>
     \/ mode = "instance" /\ renderInstances(draws) /\ UNCHANGED <<lines, box>>
     \/ /\ mode = "instances" /\ mode' = "none" /\ box' = "none"
        /\ UNCHANGED <<chosen, rows, lines, draws>>
  /\ UNCHANGED <<appMode, acted, died>>

reload ==
  /\ Input /\ box = "settings"
  /\ \/ mode = "instances" /\ renderInstances(draws) /\ UNCHANGED lines
     \/ mode = "instance" /\ renderInstance /\ UNCHANGED draws
     \/ mode = "panel" /\ renderPanel(draws) /\ UNCHANGED <<chosen, lines>>
  /\ UNCHANGED <<box, appMode, acted, died>>

\* SPACE or ENTER acts on the row that has the index of the selected line.
settingsActivate ==
  /\ Input /\ box = "settings"
  /\ \E i \in DOMAIN lines["settings"] : LET it == At(rows["settings"], i) IN
       /\ acted' = <<"settings", lines["settings"][i], it>>
       /\ \/ it = "note" /\ UNCHANGED <<mode, chosen, rows, lines, draws>>
          \/ it = "instance" /\ renderInstance /\ UNCHANGED draws
          \/ /\ it = "panel" /\ renderPanel(draws) /\ chosen' = "panel"
             /\ lines' = [lines EXCEPT !["settings"] = <<"note">>]
          \/ /\ it \in {"field", "default", "channel"} /\ Room(draws)
             /\ draws' = Append(draws, IF it = "field" THEN "field" ELSE "channel")
             /\ UNCHANGED <<mode, chosen, rows, lines>>
  /\ UNCHANGED <<box, appMode, died>>

\* The manager's instances, or the panel's channels, are pushed on whatever rows there are.
Drawn(i) ==
  /\ draws[i] \in {"instances", "panel"} /\ draws' = Without(draws, i)
  /\ \E found \in {<<"note">>, IF draws[i] = "panel" THEN <<"default", "channel">> ELSE <<"instance">>} :
       /\ lines' = [lines EXCEPT !["settings"] = found]
       /\ rows' = [rows EXCEPT !["settings"] = IF found = <<"note">> /\ draws[i] = "instances" THEN @
                                               ELSE @ \o found]
  /\ UNCHANGED <<box, mode, appMode, chosen, acted, died>>

\* A posted toggle draws the panel again, a patched field the connector, wherever the operator
\* has gone meanwhile; without a panel, or a connector, that is a TypeError nobody catches.
Posted(i) ==
  /\ draws[i] \in {"channel", "field"}
  /\ \/ /\ draws[i] = "channel" /\ chosen = "panel" /\ renderPanel(Without(draws, i))
        /\ UNCHANGED <<chosen, lines, died>>
     \/ /\ draws[i] = "channel" /\ chosen # "panel" /\ died' = TRUE /\ draws' = Without(draws, i)
        /\ UNCHANGED <<mode, chosen, rows, lines>>
     \/ draws[i] = "field" /\ renderInstance /\ draws' = Without(draws, i) /\ UNCHANGED died
     \/ /\ draws[i] = "field" /\ chosen = "none" /\ died' = TRUE /\ draws' = Without(draws, i)
        /\ UNCHANGED <<mode, chosen, rows, lines>>
  /\ UNCHANGED <<box, appMode, acted>>

\* The settings screen draws its lines and its rows together, headings included.
AppLines == <<"note", "field">>
AppRows_NoHeading == <<"field">>
AppRows == <<"note", "field">>

loadApp(q) == Room(q) /\ draws' = Append(q, "app")

openApp ==
  /\ Input
  /\ \/ box = "none" /\ ~anyOverlay /\ lines' = [lines EXCEPT !["app"] = <<"note">>]
     \/ box = "app" /\ lines' = [lines EXCEPT !["app"] = <<"note">>]
  /\ box' = "app" /\ loadApp(draws)
  /\ appMode' = (appMode \/ box = "none")
  /\ UNCHANGED <<mode, chosen, rows, acted, died>>

closeApp ==
  /\ Input /\ box = "app" /\ box' = "none" /\ appMode' = FALSE
  /\ UNCHANGED <<mode, chosen, rows, lines, draws, acted, died>>

\* A toggle, a choice or an edited text is saved, and everything loaded again.
appActivate ==
  /\ Input /\ box = "app"
  /\ \E i \in DOMAIN lines["app"] : LET it == At(rows["app"], i) IN
       /\ acted' = <<"app", lines["app"][i], it>>
       /\ IF it = "note" THEN UNCHANGED draws ELSE loadApp(draws)
  /\ UNCHANGED <<box, mode, appMode, chosen, rows, lines, died>>

renderApp(i) ==
  /\ draws[i] = "app" /\ draws' = Without(draws, i)
  /\ appMode' = TRUE
  /\ rows' = [rows EXCEPT !["app"] = AppRows] /\ lines' = [lines EXCEPT !["app"] = AppLines]
  /\ UNCHANGED <<box, mode, chosen, acted, died>>

Lists ==
  /\ scene = "lists" /\ ~died
  /\ \/ openSettings \/ settingsBack \/ reload \/ settingsActivate
     \/ openApp \/ closeApp \/ appActivate
     \/ /\ \E i \in DOMAIN draws : Drawn(i) \/ Posted(i) \/ renderApp(i)
        /\ UNCHANGED inputs
  /\ UNCHANGED <<scene, paneVars, updateVars, chatVars, dongleVars, storeVars, sdkVars>>

---------------------------------------------------------------------------
\* Panes that show one thing's content: the restore dialog's preview, a device's grants, a
\* provider's voices, a watched session's history, a recording's summary and transcript.

\* Opening asks at once, but for the restore dialog; the voices of before stay on screen.
Open(s) ==
  /\ Input /\ subject # s /\ subject' = s
  /\ body' = (IF pane = "voices" THEN body ELSE Nothing)
  /\ IF pane = "restore" THEN UNCHANGED asks ELSE Room(asks) /\ asks' = Append(asks, s)
  /\ UNCHANGED <<pane, did>>

Close ==
  /\ Input /\ subject # Nothing /\ pane \notin {"voices", "tape"} /\ subject' = Nothing
  /\ UNCHANGED <<pane, body, asks, did>>

\* doPreview, one at a time; the fleet's refresh asks for the grants of the open device again.
Ask ==
  /\ subject # Nothing /\ asks' = Append(asks, subject)
  /\ \/ pane = "restore" /\ asks = <<>> /\ body' = Nothing
     \/ pane = "grants" /\ Room(asks) /\ UNCHANGED body
  /\ Input /\ UNCHANGED <<pane, subject, did>>

\* The list of recordings is polled while one is being worked on: the details of the selected
\* one are asked for when its status is another than theirs, so only once there are some.
loadList ==
  /\ pane = "tape" /\ subject # Nothing /\ body # Nothing /\ Room(asks)
  /\ asks' = Append(asks, subject)
  /\ Input /\ UNCHANGED <<pane, subject, body, did>>

\* Deleting the recording on screen takes its details away too.
remove ==
  /\ pane = "tape" /\ Input /\ subject # Nothing
  /\ subject' = Nothing /\ body' = Nothing
  /\ did' = (IF body = Nothing THEN did ELSE <<subject, body>>)
  /\ UNCHANGED <<pane, asks>>

\* The answer is shown, whatever the pane is open for by now; an error shows nothing.
Answer(i) ==
  /\ asks' = Without(asks, i)
  /\ body' \in {asks[i], body}
  /\ UNCHANGED <<pane, subject, did>>

\* The operator confirms by the name, revokes a grant on the list, or has the recording's
\* summary written again.
ActOnIt ==
  /\ Input /\ pane \in {"restore", "grants", "tape"} /\ subject # Nothing /\ body # Nothing
  /\ did' = <<subject, body>>
  /\ UNCHANGED <<pane, subject, body, asks>>

Pane ==
  /\ scene = "pane"
  /\ \/ \E s \in Subjects : Open(s)
     \/ Close \/ Ask \/ loadList \/ remove \/ ActOnIt
     \/ (\E i \in DOMAIN asks : Answer(i)) /\ UNCHANGED inputs
  /\ UNCHANGED <<scene, listVars, updateVars, chatVars, dongleVars, storeVars, sdkVars>>

---------------------------------------------------------------------------
\* The update panel: it polls the file the detached updater writes.

\* begin(), then the request that starts the updater.
runUpdate ==
  /\ Input /\ file.state # "running" /\ current = file.run
  /\ current' = current + 1 /\ panel' = TRUE
  /\ status' = [state |-> "running", run |-> current + 1]
  /\ UNCHANGED <<file, polls>>

dismiss ==
  /\ Input /\ panel /\ panel' = FALSE /\ status' = [state |-> "idle", run |-> 0]
  /\ UNCHANGED <<current, file, polls>>

\* The updater's first write, and its last.
UpdaterWrites ==
  /\ \/ file.run < current /\ file' = [state |-> "running", run |-> current]
     \/ file.state = "running" /\ file' = [file EXCEPT !.state = "success"]
  /\ UNCHANGED <<inputs, current, panel, status, polls>>

Poll ==
  /\ Room(polls) /\ polls' = Append(polls, file)
  /\ UNCHANGED <<inputs, current, file, panel, status>>

Polled(i) ==
  /\ polls' = Without(polls, i)
  /\ \/ status' = polls[i] /\ panel' = (panel \/ polls[i].state = "running")
     \/ /\ UNCHANGED panel  \* the core restarts: no answer
        /\ status' = IF panel /\ status.state # "success" THEN [status EXCEPT !.state = "restarting"]
                     ELSE status
  /\ UNCHANGED <<inputs, current, file>>

Update ==
  /\ scene = "update"
  /\ \/ runUpdate \/ dismiss \/ UpdaterWrites \/ Poll
     \/ \E i \in DOMAIN polls : Polled(i)
  /\ UNCHANGED <<scene, listVars, paneVars, chatVars, dongleVars, storeVars, sdkVars>>

---------------------------------------------------------------------------
\* A web session's window: recorded events up to a cutoff, then its own streamed turns.

Newest == Max2(IF seeded = Nothing THEN 0 ELSE seeded, feed)
history == {i \in 1..Newest : cutoff = Nothing \/ i <= cutoff}

\* Somebody's event, or one of a local turn's, is recorded with a later time.
Record ==
  /\ Len(events) < MaxEvents
  /\ \E n \in 0..Len(turns) : events' = Append(events, n)
  /\ UNCHANGED <<inputs, feed, seeded, asked, cutoff, turns, busy>>

Feed ==
  /\ feed < Len(events) /\ feed' = feed + 1
  /\ UNCHANGED <<inputs, events, seeded, asked, cutoff, turns, busy>>

\* load()'s answer holds what was recorded when it was read; a failure is an empty history.
Loaded ==
  /\ asked /\ asked' = FALSE /\ seeded' \in 0..Len(events)
  /\ UNCHANGED <<inputs, events, feed, cutoff, turns, busy>>

\* The first message freezes the history at what is on screen: later turns show their own rows.
Cutoff_Latest == Newest
Cutoff == IF cutoff = Nothing THEN Newest ELSE cutoff

webSend ==
  /\ Input /\ cutoff' = Cutoff
  /\ turns' = Append(turns, TRUE) /\ busy' = TRUE
  /\ UNCHANGED <<events, feed, seeded, asked>>

\* onDone and onError of a turn's stream.
Ended(n) ==
  /\ turns[n] /\ turns' = [turns EXCEPT ![n] = FALSE] /\ busy' = FALSE
  /\ UNCHANGED <<inputs, events, feed, seeded, asked, cutoff>>

Chat ==
  /\ scene = "chat"
  /\ \/ Record \/ Feed \/ Loaded \/ webSend
     \/ \E n \in DOMAIN turns : Ended(n)
  /\ UNCHANGED <<scene, listVars, paneVars, updateVars, dongleVars, storeVars, sdkVars>>

---------------------------------------------------------------------------
\* The portal screen: a dongle is adopted when it is in the fleet and holds our key.

isPaired == linked # Nothing /\ linked \in paired
adopted == isPaired /\ row # Nothing

\* connect reads INFO and asks whether the fleet knows this name; the row of before stays.
connect(d) ==
  /\ Input /\ linked # d /\ Room(steps)
  /\ linked' = d /\ steps' = Append(steps, <<"detect", d>>)
  /\ UNCHANGED <<row, fleet, paired>>

clearSelection ==
  /\ Input /\ linked # Nothing /\ linked' = Nothing /\ row' = Nothing
  /\ UNCHANGED <<fleet, paired, steps>>

adopt ==
  /\ Input /\ linked # Nothing /\ Room(steps) /\ ~\E i \in DOMAIN steps : steps[i][1] = "create"
  /\ steps' = Append(steps, <<"create", linked>>)
  /\ UNCHANGED <<linked, row, fleet, paired>>

unpair ==
  /\ Input /\ isPaired /\ paired' = paired \ {linked}
  /\ UNCHANGED <<linked, row, fleet, steps>>

\* detectRegistered's answer.
detectRegistered(i) ==
  /\ steps[i][1] = "detect" /\ steps' = Without(steps, i)
  /\ row' = (IF steps[i][2] \in fleet THEN steps[i][2] ELSE row)
  /\ UNCHANGED <<inputs, linked, fleet, paired>>

\* registerInner tolerates a row that is there already; pairInner writes to the linked dongle.
registerInner(i) ==
  /\ steps[i][1] = "create" /\ steps' = Without(steps, i)
  /\ fleet' = fleet \cup {steps[i][2]} /\ row' = steps[i][2]
  /\ paired' \in {paired, paired \cup ({linked} \ {Nothing})}
  /\ UNCHANGED <<inputs, linked>>

Dongle ==
  /\ scene = "dongle"
  /\ \/ \E d \in Dongles : connect(d)
     \/ clearSelection \/ adopt \/ unpair
     \/ \E i \in DOMAIN steps : detectRegistered(i) \/ registerInner(i)
  /\ UNCHANGED <<scene, listVars, paneVars, updateVars, chatVars, storeVars, sdkVars>>

---------------------------------------------------------------------------
\* Lists kept as copies: the manager's instances, polled every three seconds; the principals,
\* asked for when the page opens and after an edit; the fleet, polled every eight.

meshInfo(said) ==
  CASE said \in {"error", "none"} -> "unmatched"
    [] said = "offline" -> "registered"
    [] said = "online" -> "reachable"

\* An answer under way; a question without room is not asked.
Reading(has, waits) == [has |-> has, waits |-> waits, mesh |-> mesh.val]

\* The list is read first.  Then a fresh answer of the overlay serves at once, one under way is
\* shared, and else the control plane is asked.
Unserved_Each == ~mesh.fresh
Unserved == ~mesh.fresh /\ ~mesh.pending

cachedMeshStatus(has) ==
  /\ fetches' = Asked(fetches, Reading(has, ~mesh.fresh))
  /\ IF Unserved /\ Room(fetches)
     THEN mesh' = [mesh EXCEPT !.pending = TRUE] /\ calls' = calls + 1
     ELSE UNCHANGED <<mesh, calls>>

AskFor(has) ==
  IF shop = "fleet" THEN cachedMeshStatus(has)
  ELSE fetches' = Asked(fetches, Reading(has, FALSE)) /\ UNCHANGED <<mesh, calls>>

\* An error is kept as long as an answer.
MeshAnswers ==
  /\ calls > 0 /\ calls' = calls - 1
  /\ \E said \in Overlay :
       /\ mesh' = [val |-> said, fresh |-> TRUE, pending |-> FALSE]
       /\ fetches' = [i \in DOMAIN fetches |->
            IF fetches[i].waits THEN [fetches[i] EXCEPT !.waits = FALSE, !.mesh = said]
            ELSE fetches[i]]
  /\ UNCHANGED <<inputs, live, shelf>>

TenSeconds ==
  /\ mesh.fresh /\ mesh' = [mesh EXCEPT !.fresh = FALSE]
  /\ UNCHANGED <<inputs, live, shelf, fetches, calls>>

poll ==
  /\ shop # "trust" /\ Room(fetches) /\ AskFor(live)
  /\ UNCHANGED <<inputs, live, shelf>>

\* The page is opened, or a principal, an identifier, a grant or a role was edited.
fetchPrincipals ==
  /\ shop = "trust" /\ Input /\ Room(fetches) /\ AskFor(live)
  /\ UNCHANGED <<live, shelf>>

\* An error leaves the copy of before.
Fetched(i) ==
  /\ ~fetches[i].waits /\ fetches' = Without(fetches, i)
  /\ shelf' \in {[has |-> fetches[i].has, mesh |-> fetches[i].mesh], shelf}
  /\ UNCHANGED <<inputs, live, mesh, calls>>

createInstance ==
  /\ Input /\ live = {} /\ live' = {"a"} /\ AskFor(live')
  /\ UNCHANGED shelf

\* The copy is filtered, with no new question.
removeInstance ==
  /\ shop # "fleet" /\ Input /\ live = {"a"} /\ live' = {} /\ shelf' = [shelf EXCEPT !.has = {}]
  /\ UNCHANGED <<fetches, mesh, calls>>

\* A principal merged into another, or a device revoked, and the list asked for again.
mergePrincipal ==
  /\ shop # "manager" /\ Input /\ live = {"a"} /\ live' = {} /\ AskFor(live')
  /\ UNCHANGED shelf

Store ==
  /\ scene = "store"
  /\ \/ poll \/ fetchPrincipals \/ createInstance \/ removeInstance \/ mergePrincipal
     \/ MeshAnswers \/ TenSeconds
     \/ \E i \in DOMAIN fetches : Fetched(i)
  /\ UNCHANGED <<scene, shop, listVars, paneVars, updateVars, chatVars, dongleVars, sdkVars>>

---------------------------------------------------------------------------
\* The agent SDK behind the model: what the core knows of it, and the Settings that update it.

Publish ==
  /\ sdk.npm < MaxSdk /\ sdk' = [sdk EXCEPT !.npm = @ + 1]
  /\ UNCHANGED <<inputs, installs, news, watch>>

\* The package file is read once per process; npm's answer is kept for an hour, and an npm that
\* does not answer leaves the last one.
sdkVersion == IF sdk.loaded = 0 THEN sdk.disk ELSE sdk.loaded
LatestOnes == IF sdk.young THEN {sdk.latest} ELSE {sdk.npm, sdk.latest}
Checked(latest) ==
  [sdk EXCEPT !.loaded = sdkVersion, !.latest = latest, !.young = @ \/ latest = sdk.npm]

\* With the updates on automatic an updater is started, whether one is at work or not.
Remembered_Nothing(s) == s
Remembered(s) == [s EXCEPT !.notified = s.latest]

checkSdkFreshness ==
  \E latest \in LatestOnes : LET s == Checked(latest) IN
    /\ IF latest \in {0, s.loaded}
       THEN sdk' = s /\ UNCHANGED <<installs, news>>
       ELSE \/ /\ sdk.auto /\ installs < MaxAsks /\ installs' = installs + 1
               /\ sdk' = s /\ UNCHANGED news
            \/ /\ ~sdk.auto /\ UNCHANGED installs
               /\ IF sdk.notified = latest THEN sdk' = s /\ UNCHANGED news
                  ELSE sdk' = Remembered(s) /\ news' = Append(news, <<sdk.boot, latest>>)
    /\ UNCHANGED <<inputs, watch>>

AnHour ==
  /\ sdk.young /\ sdk' = [sdk EXCEPT !.young = FALSE]
  /\ UNCHANGED <<inputs, installs, news, watch>>

setSdkAutoUpdate ==
  /\ Input /\ sdk' = [sdk EXCEPT !.auto = ~@]
  /\ UNCHANGED <<installs, news, watch>>

\* Settings remembers the version it saw and looks for another one, for three minutes.
updateSdk ==
  /\ Input /\ installs < MaxAsks /\ installs' = installs + 1
  /\ watch' = sdkVersion
  /\ UNCHANGED <<sdk, news>>

\* A core that starts remembers nothing of this.
Booted(disk) ==
  [sdk EXCEPT !.disk = disk, !.loaded = 0, !.latest = 0, !.young = FALSE, !.notified = 0,
              !.boot = @ + 1]

\* The updater installs what npm has and, only then, restarts the services.
Installed ==
  /\ installs > 0 /\ installs' = installs - 1
  /\ \/ UNCHANGED sdk
     \/ sdk.boot < MaxInputs /\ sdk' = Booted(sdk.npm)
  /\ UNCHANGED <<inputs, news, watch>>

Restart ==
  /\ sdk.boot < MaxInputs /\ sdk' = Booted(sdk.disk)
  /\ UNCHANGED <<inputs, installs, news, watch>>

\* The version changed, or the tries are over.
Watched ==
  /\ watch # 0 /\ watch' = 0 /\ sdk' = [sdk EXCEPT !.loaded = sdkVersion]
  /\ UNCHANGED <<inputs, installs, news>>

Sdk ==
  /\ scene = "sdk"
  /\ \/ Publish \/ checkSdkFreshness \/ AnHour \/ setSdkAutoUpdate \/ updateSdk \/ Installed
     \/ Restart \/ Watched
  /\ UNCHANGED <<scene, listVars, paneVars, updateVars, chatVars, dongleVars, storeVars>>

Next == Lists \/ Pane \/ Update \/ Chat \/ Dongle \/ Store \/ Sdk

Spec == Init /\ [][Next]_vars

---------------------------------------------------------------------------
\* The settings screen never acts on another line than the one it shows, while it loads either
\* ("index-aligned metadata for the current list").
AppActsOnWhatItShows == acted # <<>> /\ acted[1] = "app" => acted[2] = acted[3]

\* A turn of this window is shown once: by its own rows, never by its recorded events too.
ShownOnce == \A i \in history : events[i] = 0

\* The overlay is asked by one call at a time, and by none while its last answer is fresh,
\* however many lists are waiting ("concurrent callers share one in-flight fetch").
OneMeshCall == calls = (IF mesh.pending THEN 1 ELSE 0) /\ ~(mesh.fresh /\ mesh.pending)

\* Every list that waits has a call that will answer it.
NoListForgotten == (\E i \in DOMAIN fetches : fetches[i].waits) => mesh.pending

\* A core tells the operator of a version once, whatever it checks and updates meanwhile.
ToldOnce == \A i, j \in DOMAIN news : news[i] = news[j] => i = j

\* What the code does not keep.

\* The same of the connector settings: an answer late by a key pushes its rows under other lines.
ActsOnWhatItShows == acted # <<>> /\ acted[3] # "note" => acted[2] = acted[3]

\* The keys of the screen come back when the overlay is closed.
KeysComeBack == box = "none" => ~anyOverlay

\* No key ends the terminal UI with a TypeError.
StaysUp == ~died

\* A pane shows the content of what it is open for, and an act in it is on what it shows.
ShowsItsSubject == subject # Nothing /\ body # Nothing => subject = body
ActsUnderItsName == did # <<>> => did[1] = did[2]

\* The result the panel shows is that of the update it was opened for.
ShowsThisRun == panel /\ status.state = "success" => status.run = current

\* History once loaded is on screen; so is what others say; and a window with a turn is busy.
HistoryKept == seeded # Nothing => 1..seeded \subseteq history
OthersShown == \A i \in 1..feed : events[i] = 0 => i \in history
BusyMeansBusy == (\E n \in DOMAIN turns : turns[n]) => busy

\* "in the Fleet AND trust-paired", of the dongle on screen.
AdoptedIsInFleet == adopted => row = linked

\* An instance, a principal or a device that was removed does not come back.
RemovedStaysGone == live = {} => shelf.has = {}

\* "unmatched" says that nothing on the overlay is bound to the device.
UnmatchedIsUnbound == meshInfo(shelf.mesh) = "unmatched" => shelf.mesh = "none"

\* The operator is told of a version one time; one updater works at a time.
OneTimeNotice == \A i, j \in DOMAIN news : news[i][2] = news[j][2] => i = j
OneInstaller == installs <= 1
=============================================================================

------------------------------ MODULE Maintenance ------------------------------
(***************************************************************************)
(* What the machine does for itself. Backup and restore (scripts/backup.js  *)
(* and the core's /v2/backups): an archive of the databases, the            *)
(* configuration and the home store taken while the services run, its copy  *)
(* elsewhere, retention, the schedule that fires it, and the restore that   *)
(* puts one back under the running services. Apart from it, updating in     *)
(* place: a detached process checks out the target, installs what it needs, *)
(* rebuilds the dashboard, restarts the services, verifies that they run    *)
(* the checked-out commit and rolls back when they do not; beside it the    *)
(* dry run, Discord's update-asmltr command and the progress file the       *)
(* dashboard polls.                                                         *)
(***************************************************************************)
EXTENDS Integers, Sequences, FiniteSets

CONSTANTS
  Dbs, Config, Home,  \* files: SQLite databases, repository configuration, the home store
  Jobs,               \* backups that may be running at once
  MaxCount,           \* the retention of the schedule
  MaxWrites, MaxMade,  \* bounds: writes by the services, archives made
  Runs, Dry,       \* updates somebody starts; those of them that are dry runs
  Services,        \* core, connector manager, collector
  Newest,          \* versions 1..Newest; the first is installed
  NewDeps, Broken  \* versions that change a manifest, versions that never get healthy

VARIABLES
  scene,     \* the part at work, chosen at the start
  main, wal,  \* the content of each file; each database's log, 0 when it is checkpointed
  writes,     \* history: writes so far
  made,       \* history: archive files begun
  local,      \* files of the backup directory, longest untouched first: name, content, whether
              \* it is whole, whether the schedule made it
  job,        \* each backup: where it is, whether scheduled, what it has staged
  due,        \* the schedule's interval has passed
  remoteUp,   \* the destination answers
  restore,    \* the restore: where it is, its archive, files still to place
  stash, over, \* files set aside before they were overwritten; history: what was overwritten
  origin, tree, deps, dash, \* the newest release; what is checked out, installed (0: half), built
  serving,                  \* what each service runs, 0 when it is down
  lock,                     \* update.lock: whose
  run,                      \* each run: where it is, from, to, the commit it wants to see, its exit code
  progress,                 \* update-status.json: running or not, and whose
  silent,                   \* nothing was written to it for six minutes
  chat, told,               \* Discord's update: where it is; the announcement that came out
  disturbed                 \* history: two at once, a kill, a crash, an install or a rollback
                            \* that left things half done

backupVars == <<main, wal, writes, made, local, job, due, remoteUp, restore, stash, over>>
files == <<main, wal, writes>>

Files == Dbs \cup Config \cup Home
Nothing == [f \in Files |-> -1]
Idle == [at |-> "off", scheduled |-> FALSE, staged |-> Nothing, id |-> 0]

BackupTypeOK ==
  /\ main \in [Files -> 0..MaxWrites] /\ wal \in [Dbs -> 0..MaxWrites] /\ writes \in 0..MaxWrites
  /\ made \in 0..MaxMade /\ \A i \in 1..Len(local) : local[i].id \in 1..MaxMade
  /\ \A j \in Jobs : /\ job[j].at \in {"off", "db", "files", "seal", "write", "push", "prune"}
                     /\ job[j].scheduled \in BOOLEAN /\ job[j].staged \in [Files -> (-1)..MaxWrites]
  /\ due \in BOOLEAN /\ remoteUp \in BOOLEAN
  /\ restore.at \in {"off", "placing", "merge", "restart", "done"} /\ restore.left \subseteq Files
  /\ stash \in [Files -> (-1)..MaxWrites] /\ over \in [Files -> (-1)..MaxWrites]

BackupInit ==
  /\ main = [f \in Files |-> 0] /\ wal = [d \in Dbs |-> 0] /\ writes = 0 /\ made = 0 /\ local = <<>>
  /\ job = [j \in Jobs |-> Idle] /\ due = TRUE /\ remoteUp \in BOOLEAN
  /\ restore = [at |-> "off", of |-> Nothing, left |-> {}] /\ stash = Nothing /\ over = Nothing

\* What a reader of the database sees: the log over the file.
Committed(f) == IF f \in Dbs /\ wal[f] # 0 THEN wal[f] ELSE main[f]

---------------------------------------------------------------------------
(* The services.                                                            *)

Write(f) ==
  /\ writes < MaxWrites /\ restore.at # "restart" /\ writes' = writes + 1
  /\ IF f \in Dbs THEN wal' = [wal EXCEPT ![f] = writes'] /\ UNCHANGED main
                  ELSE main' = [main EXCEPT ![f] = writes'] /\ UNCHANGED wal
  /\ UNCHANGED <<made, local, job, due, remoteUp, restore, stash, over>>

Checkpoint(d) ==
  /\ wal[d] # 0 /\ main' = [main EXCEPT ![d] = wal[d]] /\ wal' = [wal EXCEPT ![d] = 0]
  /\ UNCHANGED <<writes, made, local, job, due, remoteUp, restore, stash, over>>

---------------------------------------------------------------------------
(* A backup.                                                                *)

Room == made + Cardinality({i \in Jobs : job[i].at \in {"db", "files", "seal"}}) < MaxMade

createBackup(j) ==
  /\ job[j].at = "off" /\ Room
  /\ job' = [job EXCEPT ![j] = [Idle EXCEPT !.at = "db"]]
  /\ UNCHANGED <<files, made, local, due, remoteUp, restore, stash, over>>

\* The schedule's tick: due since the last run that ended well, whatever is still running.
tick(j) ==
  /\ due /\ job[j].at = "off" /\ Room
  /\ job' = [job EXCEPT ![j] = [Idle EXCEPT !.at = "db", !.scheduled = TRUE]]
  /\ UNCHANGED <<files, made, local, due, remoteUp, restore, stash, over>>

Staged(j, which, next) ==
  job' = [job EXCEPT ![j].at = next, ![j].staged = [f \in Files |-> IF f \in which THEN Committed(f) ELSE @[f]]]

\* The databases by SQLite's online backup, then the rest by copying.
snapshot(j) ==
  /\ \/ job[j].at = "db" /\ Staged(j, Dbs, "files")
     \/ job[j].at = "files" /\ Staged(j, Config \cup Home, "seal")
  /\ UNCHANGED <<files, made, local, due, remoteUp, restore, stash, over>>

Without(s, gone) ==
  LET keep[n \in 0..Len(s)] ==
        IF n = 0 THEN <<>> ELSE IF n \in gone THEN keep[n - 1] ELSE Append(keep[n - 1], s[n])
  IN keep[Len(s)]

Named(id) == {i \in 1..Len(local) : local[i].id = id}
\* A file that was just written is the one touched last.
Touched(file) == Append(Without(local, Named(file.id)), file)

\* Packed and encrypted in place, under its final name: the directory lists it from its header
\* on, and it can be decrypted once its tag, the last bytes, is written.
encryptStream(j) ==
  \/ /\ job[j].at = "seal" /\ made' = made + 1
     /\ local' = Touched([id |-> made', of |-> job[j].staged, whole |-> FALSE, by |-> job[j].scheduled])
     /\ job' = [job EXCEPT ![j].at = "write", ![j].id = made']
     /\ UNCHANGED <<files, due, remoteUp, restore, stash, over>>
  \/ /\ job[j].at = "write"
     /\ local' = Touched([id |-> job[j].id, of |-> job[j].staged, whole |-> TRUE, by |-> job[j].scheduled])
     /\ job' = [job EXCEPT ![j].at = "push"]
     /\ UNCHANGED <<files, made, due, remoteUp, restore, stash, over>>

\* A file from the browser, under a name it brings: a new one, or one that is there.  Nothing
\* looks at what is in it: here, something that does not open.
importBackup ==
  \E id \in 1..MaxMade :
    /\ id <= made \/ (id = made + 1 /\ Room)
    /\ made' = IF id > made THEN id ELSE made
    /\ local' = Touched([id |-> id, of |-> Nothing, whole |-> FALSE, by |-> FALSE])
    /\ UNCHANGED <<files, job, due, remoteUp, restore, stash, over>>

\* The copy to the destination: when it does not answer, the whole run has failed.
push(j) ==
  /\ job[j].at = "push"
  /\ job' = [job EXCEPT ![j] = IF remoteUp /\ job[j].scheduled THEN [@ EXCEPT !.at = "prune"] ELSE Idle]
  /\ UNCHANGED <<files, made, local, due, remoteUp, restore, stash, over>>

\* The files beyond the newest MaxCount, whatever they hold.
Doomed_Newest == {i \in 1..Len(local) : i > MaxCount}
Doomed == {i \in 1..Len(local) : i <= Len(local) - MaxCount}

pruneBackups(j) ==
  /\ job[j].at = "prune" /\ local' = Without(local, Doomed)
  /\ due' = FALSE /\ job' = [job EXCEPT ![j] = Idle]
  /\ UNCHANGED <<files, made, remoteUp, restore, stash, over>>

IntervalPasses ==
  /\ ~due /\ due' = TRUE /\ UNCHANGED <<files, made, local, job, remoteUp, restore, stash, over>>

---------------------------------------------------------------------------
(* A restore, in a process of its own that outlives the core.               *)

\* The tag must authenticate the whole file, under the passphrase it was made with.
decryptStream(file) == file.whole

\* Decrypted and checked against its manifest before anything is placed; a preview stops here.
restoreBackup(i) ==
  /\ i \in 1..Len(local) /\ restore.at = "off" /\ decryptStream(local[i])
  /\ restore' = [at |-> "placing", of |-> local[i].of, left |-> Dbs \cup Config]
  /\ UNCHANGED <<files, made, local, job, due, remoteUp, stash, over>>

\* One file: what is there is set aside, then overwritten.
SetAside_After(f) == [stash EXCEPT ![f] = restore.of[f]]
SetAside(f) == [stash EXCEPT ![f] = main[f]]
place(f) ==
  /\ restore.at = "placing" /\ f \in restore.left
  /\ stash' = SetAside(f) /\ over' = [over EXCEPT ![f] = main[f]]
  /\ main' = [main EXCEPT ![f] = restore.of[f]]
  /\ restore' = [restore EXCEPT !.left = @ \ {f}, !.at = IF restore.left = {f} THEN "merge" ELSE @]
  /\ UNCHANGED <<wal, writes, made, local, job, due, remoteUp>>

\* The home store is copied over what is there.
merge ==
  /\ restore.at = "merge" /\ restore' = [restore EXCEPT !.at = "restart"]
  /\ main' = [f \in Files |-> IF f \in Home THEN restore.of[f] ELSE main[f]]
  /\ over' = [f \in Files |-> IF f \in Home THEN main[f] ELSE over[f]]
  /\ UNCHANGED <<wal, writes, made, local, job, due, remoteUp, stash>>

\* The services start again: SQLite plays each log it finds over the file.
activate ==
  /\ restore.at = "restart" /\ restore' = [restore EXCEPT !.at = "done"]
  /\ main' = [f \in Files |-> Committed(f)] /\ wal' = [d \in Dbs |-> 0]
  /\ job' = [j \in Jobs |-> Idle]
  /\ UNCHANGED <<writes, made, local, due, remoteUp, stash, over>>

\* The restore is killed on the way, or the core, with its backups.
Killed ==
  /\ \/ restore.at \in {"placing", "merge", "restart"} /\ restore' = [restore EXCEPT !.at = "done"] /\ UNCHANGED job
     \/ job' = [j \in Jobs |-> Idle] /\ UNCHANGED restore
  /\ UNCHANGED <<files, made, local, due, remoteUp, stash, over>>

RemoteChanges ==
  remoteUp' = ~remoteUp /\ UNCHANGED <<files, made, local, job, due, restore, stash, over>>

BackupNext ==
  \/ \E f \in Files : Write(f) \/ place(f)
  \/ \E d \in Dbs : Checkpoint(d)
  \/ \E j \in Jobs : createBackup(j) \/ tick(j) \/ snapshot(j) \/ encryptStream(j) \/ push(j) \/ pruneBackups(j)
  \/ importBackup \/ IntervalPasses \/ merge \/ activate \/ Killed \/ RemoteChanges
  \/ \E i \in 1..Len(local) : restoreBackup(i)

---------------------------------------------------------------------------
updateVars == <<origin, tree, deps, dash, serving, lock, run, progress, silent, chat, told, disturbed>>
machine == <<tree, deps, dash, serving>>
dc == <<chat, told>>

Versions == 1..Newest
\* The dependencies a version needs are those of the last manifest change.
Needs(v) == CHOOSE w \in {1} \cup NewDeps : w <= v /\ \A x \in {1} \cup NewDeps : x <= v => x <= w
Changed(a, b) == \E w \in NewDeps : (a < w /\ w <= b) \/ (b < w /\ w <= a)
\* A service started now: down unless its dependencies are there and it is not a broken build.
Booted == IF deps = Needs(tree) /\ tree \notin Broken THEN tree ELSE 0

Working == {"checkout", "install", "dashboard", "restart", "verify", "rollback", "reinstall", "again", "check"}
Busy(r) == run[r].at \in Working
NoUpdate == [at |-> "off", from |-> 0, to |-> 0, want |-> 0, code |-> 0]

UpdateTypeOK ==
  /\ origin \in Versions /\ tree \in Versions /\ deps \in 0..Newest /\ dash \in Versions
  /\ serving \in [Services -> 0..Newest] /\ lock \in {{}} \cup {{r} : r \in Runs}
  /\ run \in [Runs -> [at : {"off", "lock", "claim", "fetch", "over"} \cup Working, from : 0..Newest,
                       to : 0..Newest, want : 0..Newest, code : 0..9]]
  /\ progress.state \in {"idle", "running", "ended"} /\ progress.of \subseteq Runs
  /\ silent \in BOOLEAN /\ chat \in {"off", "install", "restart", "booting", "over"} /\ told \in BOOLEAN
  /\ disturbed \in BOOLEAN

UpdateInit ==
  /\ origin = 1 /\ tree = 1 /\ deps = 1 /\ dash = 1 /\ serving = [s \in Services |-> 1]
  /\ lock = {} /\ run = [r \in Runs |-> NoUpdate] /\ progress = [state |-> "idle", of |-> {}]
  /\ silent = FALSE /\ chat = "off" /\ told = FALSE /\ disturbed = FALSE

---------------------------------------------------------------------------
(* A run.                                                                   *)

Released ==
  /\ origin < Newest /\ origin' = origin + 1
  /\ UNCHANGED <<machine, lock, run, progress, silent, dc, disturbed>>

\* Every line it logs rewrites the progress file, but for a dry run.
writeStatus(r, state) ==
  IF r \in Dry THEN UNCHANGED <<progress, silent>>
  ELSE progress' = [state |-> state, of |-> {r}] /\ silent' = FALSE

At(r, next) == run' = [run EXCEPT ![r].at = next]

\* POST /v2/update/run, the command line or the terminal UI.
spawnUpdateSession(r) ==
  /\ run[r].at = "off" /\ At(r, IF r \in Dry THEN "fetch" ELSE "lock")
  /\ UNCHANGED <<origin, machine, lock, progress, silent, dc, disturbed>>

\* The lock is read, and written when no live process is in it; one that finds it taken leaves.
Alive(r) == run[r].at \notin {"off", "over"}
acquireLock(r) ==
  /\ \/ /\ run[r].at = "lock"
        /\ IF \E q \in lock : Alive(q) THEN run' = [run EXCEPT ![r].at = "over", ![r].code = 5]
                                       ELSE At(r, "claim")
        /\ UNCHANGED lock
     \/ run[r].at = "claim" /\ lock' = {r} /\ At(r, "fetch")
  /\ writeStatus(r, "running") /\ UNCHANGED <<origin, machine, dc, disturbed>>

\* The end of a process that got past the lock, a dry run too, removes the lock file.
releaseLock_Own(r) == lock \ {r}
releaseLock(r) == {}
done(r, code) ==
  /\ lock' = releaseLock(r) /\ run' = [run EXCEPT ![r].at = "over", ![r].code = code]
  /\ writeStatus(r, "ended")

\* Fetched and resolved: nothing to do, a plan, or on with it.
resolve(r) ==
  /\ run[r].at = "fetch"
  /\ IF origin = tree THEN done(r, 4) /\ UNCHANGED disturbed
     ELSE IF r \in Dry THEN done(r, 0) /\ UNCHANGED disturbed
     ELSE /\ run' = [run EXCEPT ![r].at = "checkout", ![r].from = tree, ![r].to = origin]
          /\ disturbed' = (disturbed \/ chat \in {"install", "restart"} \/ \E q \in Runs \ {r} : Busy(q))
          /\ writeStatus(r, "running") /\ UNCHANGED lock
  /\ UNCHANGED <<origin, machine, dc>>

checkout(r) ==
  /\ run[r].at = "checkout" /\ tree' = run[r].to /\ At(r, "install") /\ writeStatus(r, "running")
  /\ UNCHANGED <<origin, deps, dash, serving, lock, dc, disturbed>>

\* npm ci, unless no manifest changed between the two commits; when it fails the code goes back
\* and the old dependencies are asked for again, whether or not that works.
willDeps_Never(r) == FALSE
willDeps(r) == Changed(run[r].from, run[r].to)
npmCi(r) ==
  /\ run[r].at = "install"
  /\ \/ ~willDeps(r) /\ At(r, "dashboard") /\ UNCHANGED <<tree, deps, lock>> /\ writeStatus(r, "running")
     \/ willDeps(r) /\ deps' = Needs(tree) /\ At(r, "dashboard") /\ UNCHANGED <<tree, lock>> /\ writeStatus(r, "running")
     \/ /\ willDeps(r) /\ tree' = run[r].from /\ deps' \in {0, Needs(run[r].from)}
        /\ done(r, 2)
  /\ disturbed' = (disturbed \/ (deps' = 0 /\ deps # 0)) /\ UNCHANGED <<origin, dash, serving, dc>>

\* Docker, at best effort.
rebuildDashboard(r) ==
  /\ run[r].at = "dashboard" /\ dash' \in {dash, tree} /\ At(r, "restart") /\ writeStatus(r, "running")
  /\ UNCHANGED <<origin, tree, deps, serving, lock, dc, disturbed>>

\* pm2 restart: each service starts on what is on disk, or the restart does not land on it.
restartServices(r) ==
  /\ run[r].at \in {"restart", "again"}
  /\ serving' \in [Services -> {Booted} \cup {serving[s] : s \in Services}]
  /\ \A s \in Services : serving'[s] \in {Booted, serving[s]}
  /\ run' = [run EXCEPT ![r].at = IF run[r].at = "restart" THEN "verify" ELSE "check", ![r].want = tree]
  /\ UNCHANGED <<origin, tree, deps, dash, lock, progress, silent, dc, disturbed>>

\* Each service is up, and says it runs the commit that is checked out.
Verified_UpOnly(r) == \A s \in Services : serving[s] # 0
Verified(r) == \A s \in Services : serving[s] = run[r].want

verifyOk(r) ==
  /\ run[r].at \in {"verify", "check"}
  /\ IF Verified(r) THEN done(r, IF run[r].at = "verify" THEN 0 ELSE 2)
     ELSE IF run[r].at = "check" THEN done(r, 3)
     ELSE At(r, "rollback") /\ UNCHANGED <<lock, progress, silent>>
  /\ disturbed' = (disturbed \/ (run[r].at = "check" /\ ~Verified(r)))
  /\ UNCHANGED <<origin, machine, dc>>

rollBack(r) ==
  /\ \/ run[r].at = "rollback" /\ tree' = run[r].from /\ At(r, "reinstall") /\ UNCHANGED deps
     \/ run[r].at = "reinstall" /\ deps' \in {0, Needs(tree)} /\ At(r, "again") /\ UNCHANGED tree
  /\ disturbed' = (disturbed \/ (deps' = 0 /\ deps # 0))
  /\ UNCHANGED <<origin, dash, serving, lock, progress, silent, dc>>

\* Ten minutes for the whole of it, a reinstall included: the script is killed where it stands.
RollbackTimesOut(r) ==
  /\ run[r].at = "reinstall" /\ deps' = 0 /\ done(r, 3) /\ disturbed' = TRUE
  /\ UNCHANGED <<origin, tree, dash, serving, dc>>

---------------------------------------------------------------------------
(* Around it.                                                               *)

\* The machine goes down, or somebody kills it: nothing is cleaned up.
UpdateKilled(r) ==
  /\ Alive(r) /\ run' = [run EXCEPT ![r].at = "over", ![r].code = 9] /\ disturbed' = TRUE
  /\ UNCHANGED <<origin, machine, lock, progress, silent, dc>>

\* A service dies and pm2 starts it again, on what is on disk by then.
Crash(s) ==
  /\ serving' = [serving EXCEPT ![s] = Booted] /\ disturbed' = TRUE
  /\ UNCHANGED <<origin, tree, deps, dash, lock, run, progress, silent, dc>>

\* Six minutes of an install or a rebuild.
SixMinutes ==
  /\ progress.state = "running" /\ ~silent /\ silent' = TRUE
  /\ UNCHANGED <<origin, machine, lock, run, progress, dc, disturbed>>

\* Discord's own command: pull, install, queue the good news, restart; no lock, no check.
doUpdateAsmltr ==
  /\ \/ /\ chat = "off" /\ tree' = origin /\ chat' = "install" /\ UNCHANGED deps
        /\ disturbed' = (disturbed \/ \E q \in Runs : Busy(q))
     \/ /\ chat = "install" /\ deps' \in {deps, 0, Needs(tree)}
        /\ chat' = IF deps' = Needs(tree) THEN "restart" ELSE "over"
        /\ disturbed' = (disturbed \/ deps' # Needs(tree)) /\ UNCHANGED tree
  /\ UNCHANGED <<origin, dash, serving, lock, run, progress, silent, told>>

queueAnnouncement ==
  /\ chat = "restart" /\ chat' = "booting" /\ serving' = [s \in Services |-> Booted]
  /\ UNCHANGED <<origin, tree, deps, dash, lock, run, progress, silent, told, disturbed>>

\* The manager, once it is up, says what was queued.
drainAnnouncements ==
  /\ chat = "booting" /\ (\E s \in Services : serving[s] # 0) /\ chat' = "over" /\ told' = TRUE
  /\ UNCHANGED <<origin, machine, lock, run, progress, silent, disturbed>>

UpdateNext ==
  \/ Released \/ SixMinutes \/ doUpdateAsmltr \/ queueAnnouncement \/ drainAnnouncements
  \/ \E s \in Services : Crash(s)
  \/ \E r \in Runs : \/ spawnUpdateSession(r) \/ acquireLock(r) \/ resolve(r) \/ checkout(r) \/ npmCi(r)
                     \/ rebuildDashboard(r) \/ restartServices(r) \/ verifyOk(r) \/ rollBack(r)
                     \/ RollbackTimesOut(r) \/ UpdateKilled(r)

---------------------------------------------------------------------------
vars == <<scene, backupVars, updateVars>>

TypeOK == scene \in {"backup", "update"} /\ BackupTypeOK /\ UpdateTypeOK

Init ==
  /\ scene \in {"backup", "update"} /\ BackupInit /\ UpdateInit
  /\ (scene = "update" => remoteUp)

Next ==
  /\ UNCHANGED scene
  /\ \/ scene = "backup" /\ BackupNext /\ UNCHANGED updateVars
     \/ scene = "update" /\ UpdateNext /\ UNCHANGED backupVars

Spec == Init /\ [][Next]_vars

---------------------------------------------------------------------------
\* The file touched last is never pruned, whoever prunes and whatever else is being made.
NewestIsKept ==
  [][local # <<>> => \E i \in 1..Len(local') : local'[i].id = local[Len(local)].id]_vars

\* A configuration file that a restore overwrote, killed or not, is in the stash.
OverwrittenIsStashed == \A f \in Config : over[f] # -1 => stash[f] = over[f]

\* The same of the home store it merges over.
HomeIsStashed == \A f \in Home : over[f] # -1 => stash[f] = over[f]

\* A database restored holds what the archive holds when the services open it.
RestoredAsSaved ==
  [][activate => \A d \in Dbs : main'[d] = restore.of[d]]_vars

\* While there is an archive that can be restored, there goes on being one.
Restorable(s) == \E i \in 1..Len(s) : s[i].whole
WholeOneStays == [][Restorable(local) => Restorable(local')]_vars

\* The schedule leaves no more archives of its own than its retention and the ones being made.
RetentionHolds == Cardinality({i \in 1..Len(local) : local[i].by}) <= MaxCount + Cardinality(Jobs)

\* An update nobody disturbed ends with every service on what is checked out, the new commit
\* when it says success and the old one when it says rolled back.
EndsWhereItSays ==
  [][\A r \in Runs \ Dry : run[r].at # "over" /\ run'[r].at = "over" /\ run'[r].code \in {0, 2} /\ ~disturbed'
       => /\ tree' = (IF run'[r].code = 0 THEN run[r].to ELSE run[r].from)
          /\ \A s \in Services : serving'[s] = tree']_vars

\* No service is restarted on dependencies that are not those of the code, but for a rollback.
RestartedOnItsDeps ==
  \A r \in Runs : run[r].at = "restart" /\ ~disturbed => deps = Needs(tree)

\* The install is skipped only when the installed dependencies are those of the code.
SkipIsRight == \A r \in Runs : run[r].at = "dashboard" /\ ~willDeps(r) => deps = Needs(tree)

\* One update at a time.
OneUpdate == Cardinality({r \in Runs : Busy(r)}) <= 1

\* A dry run changes nothing, the lock included.
DryChangesNothing ==
  [][\A r \in Dry : resolve(r) => lock' = lock]_vars

\* A run that finds nothing to do finds the services on what is checked out.
UpToDateIsServed ==
  \A r \in Runs : run[r].code = 4 => \A s \in Services : serving[s] = tree

\* Progress shown as stale is that of a process that is gone.
StaleIsGone == silent /\ progress.state = "running" => \A r \in progress.of : ~Alive(r)

\* "All systems back online", it says.
AnnouncedIsTrue == [][told' /\ ~told => \A s \in Services : serving'[s] = tree']_vars
=============================================================================

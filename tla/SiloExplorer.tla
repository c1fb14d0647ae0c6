----------------------------- MODULE SiloExplorer -----------------------------
(***************************************************************************)
(* Data silos: the directories (shared/silo.js over the local driver of     *)
(* shared/storage.js), the core's routes over them (server.js, /v2/silos),  *)
(* the dashboard's file explorer (Silos.vue) whose requests are answered    *)
(* later than the page moves on, and the core and the command line that     *)
(* file their artifacts in the Self silo meanwhile.  A directory is a silo  *)
(* when it holds .silo/manifest.json.  The core handles a request in one    *)
(* step: the driver is synchronous; a crash can fall between two of its     *)
(* writes.  Folders inside a silo are left out: entries carry full paths.   *)
(***************************************************************************)
EXTENDS Integers, Sequences, FiniteSets

CONSTANTS
  Ids,        \* the ids a silo may have, "self" among them
  Earlier,    \* those readdir returns before "self"
  Paths,      \* the files a silo may hold
  Texts,      \* what a file may say; 0 is "no file"
  MaxActs,    \* bound: what users and the assistant do
  MaxCrashes  \* bound: crashes of the core

VARIABLES
  marker,    \* per id: its manifest.json: absent, torn, lacking its id and type, or whole
  kind,      \* per id: the type in the manifest
  disk,      \* per id: what each file holds
  picked,    \* selectedId
  shown,     \* the entries listed, and the silo they were read from
  editor,    \* selectedFile, or Closed
  asks,      \* requests on their way to the core, and answers on their way back
  born,      \* how many editors were opened
  fallen,    \* artifacts written outside every silo, the Self silo unreadable
  acts,
  crashes

vars == <<marker, kind, disk, picked, shown, editor, asks, born, fallen, acts, crashes>>

Closed == <<>>
Nothing == [p \in Paths |-> 0]
Held(s) == {p \in Paths : disk[s][p] # 0}

TypeOK ==
  /\ marker \in [Ids -> {"absent", "torn", "anonymous", "whole"}]
  /\ kind \in [Ids -> {"self", "generic"}]
  /\ disk \in [Ids -> [Paths -> Texts \cup {0}]]
  /\ picked \in Ids
  /\ shown.silo \in Ids /\ shown.paths \subseteq Paths
  /\ editor # Closed =>
       /\ editor.path \in Paths /\ editor.silo \in Ids
       /\ editor.draft \in Texts \cup {0} /\ editor.dirty \in BOOLEAN
  /\ \A a \in asks : a.at \in {"core", "page"} /\ a.silo \in Ids
  /\ fallen \in BOOLEAN

Init ==
  /\ marker = [s \in Ids |-> IF s = "self" THEN "whole" ELSE "absent"]
  /\ kind = [s \in Ids |-> IF s = "self" THEN "self" ELSE "generic"]
  /\ \E t \in Texts : disk = [s \in Ids |-> IF s = "self" THEN [p \in Paths |-> t] ELSE Nothing]
  /\ picked = "self" /\ shown = [silo |-> "self", paths |-> Paths]
  /\ editor = Closed /\ asks = {} /\ born = 0
  /\ fallen = FALSE /\ acts = 0 /\ crashes = 0

Act == acts < MaxActs /\ acts' = acts + 1
Core == <<marker, kind, disk, fallen>>
Page == <<picked, shown, editor, born>>

---------------------------------------------------------------------------
(* shared/silo.js: what is found, opened, created and removed.              *)

(* open, of an id: the manifest has to be there; what it says does not matter *)
CanOpen(s) == marker[s] # "absent"

(* list().find(type = self): the first one in directory order *)
SelfSilos == {s \in Ids : marker[s] = "whole" /\ kind[s] = "self"}
SelfSilo == CHOOSE s \in SelfSilos :
  \/ s \in Earlier
  \/ SelfSilos \cap Earlier = {} /\ (s = "self" \/ "self" \notin SelfSilos)

(* ensureSelf: the Self silo, created under the id "self" when there is none *)
SelfReady == SelfSilos # {} \/ marker["self"] = "absent"
EnsuredSelf == IF SelfSilos # {} THEN SelfSilo ELSE "self"

(* openSilo of server.js: the id "self" stands for the Self silo, any other for itself *)
Target(s) == IF s = "self" THEN EnsuredSelf ELSE s
Opens_Unchecked(s) == TRUE
Opens(s) == IF s = "self" THEN SelfReady ELSE CanOpen(s)

(* the manifest of the Self silo when ensureSelf had to create it *)
MustCreate(s) == s = "self" /\ SelfSilos = {}
Ensured(s) == IF MustCreate(s) THEN [marker EXCEPT !["self"] = "whole"] ELSE marker
EnsuredKind(s) == IF MustCreate(s) THEN [kind EXCEPT !["self"] = "self"] ELSE kind

create(s, k) ==
  /\ marker[s] = "absent"
  /\ marker' = [marker EXCEPT ![s] = "whole"] /\ kind' = [kind EXCEPT ![s] = k]
  /\ UNCHANGED <<disk, fallen>>

remove(s) ==
  /\ CanOpen(s)
  /\ marker' = [marker EXCEPT ![s] = "absent"] /\ disk' = [disk EXCEPT ![s] = Nothing]
  /\ UNCHANGED <<kind, fallen>>

(* setManifest merges the patch into what it could read: into nothing when torn *)
setManifest(s) ==
  /\ marker' = [Ensured(s) EXCEPT ![Target(s)] = IF @ = "torn" THEN "anonymous" ELSE @]
  /\ kind' = EnsuredKind(s)
  /\ UNCHANGED <<disk, fallen>>

(* put, mkdir, mv and rm of the local driver, under the silo's directory *)
Stored(s, p, t) ==
  /\ disk' = [disk EXCEPT ![Target(s)][p] = t]
  /\ marker' = Ensured(s) /\ kind' = EnsuredKind(s) /\ UNCHANGED fallen

(* an rm without a path resolves to the silo's own directory *)
Emptied(s) ==
  /\ disk' = [disk EXCEPT ![Target(s)] = Nothing]
  /\ marker' = [marker EXCEPT ![Target(s)] = "absent"] /\ UNCHANGED <<kind, fallen>>

(* selfSub, for an upload, a recording or an artifact: into the Self silo, or beside it *)
Artifact(p, t) ==
  /\ Act
  /\ IF SelfReady THEN Stored("self", p, t)
     ELSE fallen' = TRUE /\ UNCHANGED <<marker, kind, disk>>
  /\ UNCHANGED <<Page, asks, crashes>>

---------------------------------------------------------------------------
(* Silos.vue: every handler sends a request, and goes on when the answer    *)
(* comes back.                                                              *)

Ask(op, s, p, t, n) == [op |-> op, silo |-> s, path |-> p, text |-> t, no |-> n, kind |-> "none",
                        at |-> "core", got |-> Nothing, ok |-> FALSE]
Send(a) == asks' = asks \cup {a}
AnyPath == CHOOSE p \in Paths : TRUE
Listing(s) == Ask("ls", s, AnyPath, 0, 0)

(* selectSilo: the watch closes the editor and lists the silo *)
selectSilo(s) ==
  /\ Act /\ s # picked /\ marker[s] = "whole"
  /\ picked' = s /\ editor' = Closed /\ Send(Listing(s))
  /\ UNCHANGED <<Core, shown, born, crashes>>

openFile(p) ==
  /\ Act /\ p \in shown.paths
  /\ Send(Ask("open", picked, p, 0, 0))
  /\ UNCHANGED <<Core, Page, crashes>>

onDraftInput(t) ==
  /\ Act /\ editor # Closed /\ t # editor.draft
  /\ editor' = [editor EXCEPT !.draft = t, !.dirty = t # editor.content]
  /\ UNCHANGED <<Core, picked, shown, asks, born, crashes>>

(* the silo is the one selected now, the path the file's *)
saveFile ==
  /\ Act /\ editor # Closed /\ editor.dirty
  /\ Send(Ask("put", picked, editor.path, editor.draft, editor.no))
  /\ UNCHANGED <<Core, Page, crashes>>

deleteEntry(p) ==
  /\ Act /\ p \in shown.paths
  /\ Send(Ask("rm", picked, p, 0, 0))
  /\ UNCHANGED <<Core, Page, crashes>>

onUpload(p, t) ==
  /\ Act /\ Send(Ask("put", picked, p, t, 0))
  /\ UNCHANGED <<Core, Page, crashes>>

createSilo(s, k) ==
  /\ Act /\ Send([Ask("create", s, AnyPath, 0, 0) EXCEPT !.kind = k])
  /\ UNCHANGED <<Core, Page, crashes>>

saveManifest ==
  /\ Act /\ Send(Ask("patch", picked, AnyPath, 0, 0))
  /\ UNCHANGED <<Core, Page, crashes>>

(* the page and the core both refuse the id "self" *)
deleteSilo ==
  /\ Act /\ picked # "self" /\ Send(Ask("remove", picked, AnyPath, 0, 0))
  /\ UNCHANGED <<Core, Page, crashes>>

(* DELETE /v2/silos/:id/file and `asmltr silo rm`, the path forgotten *)
RemoveNoPath(s) ==
  /\ Act /\ Send(Ask("rmAll", s, AnyPath, 0, 0))
  /\ UNCHANGED <<Core, Page, crashes>>

(* the core's handler of one request, and its answer *)
Serve(a) ==
  /\ a.at = "core"
  /\ LET s == a.silo
         Answer(ok, got) == asks' = (asks \ {a}) \cup {[a EXCEPT !.at = "page", !.ok = ok, !.got = got]}
     IN \/ /\ Opens(s)
           /\ \/ a.op \in {"ls", "open"} /\ Answer(TRUE, disk[Target(s)])
                 /\ marker' = Ensured(s) /\ kind' = EnsuredKind(s) /\ UNCHANGED <<disk, fallen>>
              \/ a.op = "put" /\ Stored(s, a.path, a.text) /\ Answer(TRUE, Nothing)
              \/ a.op = "rm" /\ Stored(s, a.path, 0) /\ Answer(TRUE, Nothing)
              \/ a.op = "rmAll" /\ Emptied(s) /\ Answer(TRUE, Nothing)
              \/ a.op = "patch" /\ setManifest(s) /\ Answer(TRUE, Nothing)
        \/ a.op = "create" /\ create(s, a.kind) /\ Answer(TRUE, Nothing)
        \/ a.op = "remove" /\ s # "self" /\ remove(s) /\ Answer(TRUE, Nothing)
        \/ /\ \/ a.op = "create" /\ marker[s] # "absent"
              \/ a.op = "remove" /\ (s = "self" \/ ~CanOpen(s))
              \/ a.op \notin {"create", "remove"} /\ ~Opens(s)
           /\ Answer(FALSE, Nothing) /\ UNCHANGED Core
  /\ UNCHANGED <<Page, acts, crashes>>

---------------------------------------------------------------------------
(* What each handler does with its answer.                                  *)

(* loadDir: whatever is selected by now; a failure empties the list *)
Listed(a) ==
  /\ a.op = "ls"
  /\ shown' = [silo |-> a.silo, paths |-> {p \in Paths : a.got[p] # 0}]
  /\ asks' = asks \ {a} /\ UNCHANGED <<picked, editor, born>>

Opened(a) ==
  /\ a.op = "open"
  /\ IF a.ok /\ a.got[a.path] # 0
     THEN /\ editor' = [path |-> a.path, silo |-> a.silo, content |-> a.got[a.path],
                        draft |-> a.got[a.path], dirty |-> FALSE, no |-> born + 1,
                        kept |-> a.got[a.path]]
          /\ born' = born + 1
     ELSE UNCHANGED <<editor, born>>
  /\ asks' = asks \ {a} /\ UNCHANGED <<picked, shown>>

(* saveFile goes on: the draft as it is now counts as saved.  "kept" is a    *)
(* history variable: what the core was really given                         *)
Saved(a) ==
  /\ a.op = "put" /\ a.no # 0
  /\ editor' = IF a.ok /\ editor # Closed /\ editor.no = a.no
               THEN [editor EXCEPT !.content = editor.draft, !.dirty = FALSE, !.kept = a.text]
               ELSE editor
  /\ asks' = asks \ {a} /\ UNCHANGED <<picked, shown, born>>

(* an upload or a delete: the directory is listed again, which closes the editor *)
Changed(a) ==
  /\ a.op \in {"rm", "rmAll"} \/ (a.op = "put" /\ a.no = 0)
  /\ editor' = IF a.ok THEN Closed ELSE editor
  /\ asks' = (asks \ {a}) \cup (IF a.ok THEN {Listing(picked)} ELSE {})
  /\ UNCHANGED <<picked, shown, born>>

(* createSilo selects the new silo, deleteSilo the Self silo; both reload the rail *)
SilosChanged(a) ==
  /\ a.op \in {"create", "remove", "patch"}
  /\ LET now == CASE a.ok /\ a.op = "create" -> a.silo
                  [] a.ok /\ a.op = "remove" -> "self"
                  [] OTHER -> picked
     IN /\ picked' = now
        /\ editor' = IF now # picked THEN Closed ELSE editor
        /\ asks' = (asks \ {a}) \cup (IF now # picked THEN {Listing(now)} ELSE {})
  /\ UNCHANGED <<shown, born>>

Answered(a) ==
  /\ a.at = "page"
  /\ Listed(a) \/ Opened(a) \/ Saved(a) \/ Changed(a) \/ SilosChanged(a)
  /\ UNCHANGED <<Core, acts, crashes>>

(* The core dies while it handles a request: a manifest half written, a silo *)
(* half removed (its manifest first).  What was on its way is lost.          *)
Crash ==
  /\ crashes < MaxCrashes /\ crashes' = crashes + 1
  /\ \/ UNCHANGED marker
     \/ \E a \in asks : /\ a.at = "core" /\ a.op = "patch" /\ Opens(a.silo)
                        /\ marker' = [marker EXCEPT ![Target(a.silo)] = "torn"]
     \/ \E a \in asks : /\ a.at = "core" /\ a.op = "remove" /\ a.silo # "self"
                        /\ marker' = [marker EXCEPT ![a.silo] = "absent"]
  /\ asks' = {[a EXCEPT !.at = "page", !.ok = FALSE, !.got = Nothing] : a \in asks}
  /\ UNCHANGED <<kind, disk, fallen, Page, acts>>

Next ==
  \/ \E p \in Paths, t \in Texts : Artifact(p, t) \/ onUpload(p, t)
  \/ \E s \in Ids : selectSilo(s) \/ RemoveNoPath(s) \/ createSilo(s, "generic") \/ createSilo(s, "self")
  \/ \E p \in Paths : openFile(p) \/ deleteEntry(p)
  \/ \E t \in Texts : onDraftInput(t)
  \/ saveFile \/ saveManifest \/ deleteSilo \/ Crash
  \/ \E a \in asks : Serve(a) \/ Answered(a)

Spec == Init /\ [][Next]_vars

---------------------------------------------------------------------------
(* A write that reaches the core after its silo was deleted is refused: no  *)
(* file appears in a directory that is no silo, where nothing would list it,*)
(* back it up or delete it again.                                           *)
NoStraysWritten ==
  [][\A s \in Ids, p \in Paths : disk'[s][p] \notin {0, disk[s][p]} => marker'[s] # "absent"]_vars

(* An edit is saved in the silo it was read from.                           *)
EditsStayHome ==
  [][\A a \in asks' \ asks : (a.op = "put" /\ a.no # 0 /\ a.at = "core") => a.silo = editor.silo]_vars

(* A file shown as saved holds, at the core, what the editor shows.         *)
SavedMeansSaved == editor # Closed /\ ~editor.dirty => editor.draft = editor.kept

(* What is deleted is what was listed.                                      *)
DeletesWhatItShows ==
  [][\A a \in asks' \ asks : (a.op = "rm" /\ a.at = "core") => a.silo = shown.silo]_vars

(* A silo's identity is protected from edits.                               *)
IdentityKept == \A s \in Ids : marker[s] # "anonymous"

(* The Self silo cannot be deleted.                                         *)
SelfStays == [][SelfSilos # {} /\ SelfSilos' # {} => SelfSilo' = SelfSilo]_vars
SelfNotDeleted == [][SelfSilos # {} => marker'[SelfSilo] # "absent"]_vars

(* A new silo is empty.                                                     *)
CreatedEmpty ==
  [][\A s \in Ids : marker[s] = "absent" /\ marker'[s] = "whole" /\ disk'[s] = disk[s]
       => disk'[s] = Nothing]_vars

(* Artifacts never fall outside the silos.                                  *)
NoneScattered == ~fallen
=============================================================================

---------------------------- MODULE WikiWorkspace ----------------------------
(***************************************************************************)
(* The files opencode reads: a directory per feature that follows the wiki *)
(* in the database (agent/opencode_compat/wiki_workspace.py).              *)
(*                                                                         *)
(* A request commits first and tells the projector after, one call at a    *)
(* time behind the projector's lock.  What it tells is what it did; where  *)
(* the documents are by then the projector reads again.  Between the       *)
(* commit and the call other requests commit and call, the server can go   *)
(* down, and a call that fails is not repeated.                            *)
(*                                                                         *)
(* One feature with one folder of documents, and its reports as one value. *)
(* A path is the path of the folder and the leaf of the document.          *)
(***************************************************************************)
EXTENDS Integers, FiniteSets, NoValue

CONSTANTS
    Papers,         \* ids of documents; rows of one path are read by id
    Dirs, Labels,   \* what the folder and a document can be called
    Changers,       \* requests that can be under way together
    MaxTexts,       \* bound: versions of a document, and of the reports
    MaxChanges      \* bound: changes that are committed

Spots == Dirs \X Labels
Kinds == {"index", "published", "moved", "deleted", "restored", "archived", "unarchived", "report"}
Ways == Spots \cup {<<dir>> : dir \in Dirs} \cup {None}
EventRow ==
    [kind : Kinds, old : Ways, new : Ways, ids : SUBSET Papers, wide : BOOLEAN, moved : BOOLEAN]

ASSUME WorkspaceAssumption ==
    /\ Papers \subseteq Nat /\ IsFiniteSet(Papers) /\ MaxChanges \in Nat
    /\ MaxTexts \in Nat \ {0} /\ Dirs # {} /\ Labels # {}
    /\ None \notin Dirs \cup Nat \cup (Papers \X (1..MaxTexts)) \cup EventRow

VARIABLES
    wiki,    \* the database: the folder, the documents, the reports, active
    shelf,   \* the workspace: a file per path, the reports, the manifest
    told,    \* per request what it has committed and not projected yet
    past     \* changes so far, and what has happened beside single requests

workspaceVars == <<wiki, shelf, told, past>>

NoPaper == [dir |-> None, leaf |-> None, text |-> 0, live |-> FALSE]
Spot(d) == <<wiki.rows[d].dir, wiki.rows[d].leaf>>
Live == {d \in Papers : wiki.rows[d].live}
Shown(d) == wiki.rows[d].live /\ wiki.rows[d].text > 0
Page(d) == <<d, wiki.rows[d].text>>

NoFiles == [p \in Spots |-> None]
\* What the exporter makes of the feature as it is.
Exported ==
    [p \in Spots |->
       IF wiki.active /\ \E d \in Papers : Shown(d) /\ Spot(d) = p
       THEN Page(CHOOSE d \in Papers : Shown(d) /\ Spot(d) = p)
       ELSE None]
ExportedReports == IF wiki.active THEN wiki.report ELSE 0
\* Mutant of Counted: every version of a document is counted.
CountedVersions ==
    IF ~wiki.active THEN 0
    ELSE Cardinality({x \in Papers \X (1..MaxTexts) :
                        Shown(x[1]) /\ x[2] <= wiki.rows[x[1]].text})
Counted == IF wiki.active THEN Cardinality({d \in Papers : Shown(d)}) ELSE 0
Export == [files |-> Exported, reports |-> ExportedReports, count |-> Counted]
Bare == [files |-> NoFiles, reports |-> 0, count |-> None]

Quiet == \A r \in Changers : told[r] = None
Moving == \E r \in Changers : told[r] # None /\ told[r].kind = "moved"
Unheld(p) == \A d \in Live : Spot(d) # p

\* A server is started on a wiki that may hold something already.
WorkspaceInit ==
    \E d \in Papers, exported \in BOOLEAN :
      LET dir == CHOOSE x \in Dirs : TRUE
          leaf == CHOOSE x \in Labels : TRUE
      IN
      /\ wiki = [dir |-> dir, folder |-> TRUE, active |-> TRUE, report |-> 1,
                 rows |-> [e \in Papers |->
                   IF e = d THEN [dir |-> dir, leaf |-> leaf, text |-> 1, live |-> TRUE]
                   ELSE NoPaper]]
      /\ shelf = IF exported THEN Export ELSE Bare
      /\ told = [r \in Changers |-> None]
      /\ past = [changes |-> 0,
                 seen |-> IF exported THEN {} ELSE {"lost"}]

-----------------------------------------------------------------------------
(* What requests commit *)

Event(kind, old, new, ids, wide) ==
    [kind |-> kind, old |-> old, new |-> new, ids |-> ids, wide |-> wide,
     moved |-> FALSE]
About(kind, ids) == Event(kind, None, None, ids, FALSE)

\* The end of a handler: the commit, and then the events it stashed.
Commit(r, new, event, beside) ==
    /\ told[r] = None /\ past.changes < MaxChanges
    /\ wiki' = new
    /\ told' = [told EXCEPT ![r] = event]
    /\ past' = [changes |-> past.changes + 1,
                seen |-> past.seen \cup beside
                           \cup IF Quiet THEN {}
                                ELSE IF event.kind = "moved" \/ Moving THEN {"overlap", "crossed"}
                                ELSE {"overlap"}]
    /\ UNCHANGED shelf

CreatePaper(r, d, leaf) ==
    /\ wiki.rows[d] = NoPaper /\ wiki.folder /\ Unheld(<<wiki.dir, leaf>>)
    /\ Commit(r, [wiki EXCEPT !.rows[d] =
                    [dir |-> wiki.dir, leaf |-> leaf, text |-> 0, live |-> TRUE]],
              About("index", {}), {})

UpdateFeature(r) ==
    wiki.active /\ Commit(r, wiki, About("index", {}), {})

\* Publishing, rolling back and importing end alike.
Publish(r, d) ==
    /\ wiki.rows[d].live /\ wiki.rows[d].text < MaxTexts
    /\ Commit(r, [wiki EXCEPT !.rows[d].text = @ + 1], About("published", {d}), {})

RenamePaper(r, d, leaf) ==
    /\ wiki.rows[d].live /\ Unheld(<<wiki.rows[d].dir, leaf>>)
    /\ Commit(r, [wiki EXCEPT !.rows[d].leaf = leaf],
              Event("moved", Spot(d), <<wiki.rows[d].dir, leaf>>, {d}, FALSE), {})

Within == {d \in Live : wiki.rows[d].dir = wiki.dir}
Rehung(dir) ==
    [wiki EXCEPT !.dir = dir,
                 !.rows = [d \in Papers |->
                    IF d \in Within THEN [wiki.rows[d] EXCEPT !.dir = dir]
                    ELSE wiki.rows[d]]]
CanRehang(dir) ==
    /\ wiki.folder /\ dir # wiki.dir
    /\ \A d \in Within : Unheld(<<dir, wiki.rows[d].leaf>>)

RenameFolder(r, dir) ==
    /\ CanRehang(dir)
    /\ Commit(r, Rehung(dir), Event("moved", <<wiki.dir>>, <<dir>>, Within, Within # {}), {})

\* Dragging a folder names the folder alone, and a folder is nothing to project.
DragFolder(r, dir) ==
    /\ CanRehang(dir)
    /\ Commit(r, Rehung(dir), Event("moved", <<wiki.dir>>, <<dir>>, {}, FALSE),
              IF Within = {} THEN {} ELSE {"dragged"})

DeletePaper(r, d) ==
    /\ wiki.rows[d].live
    /\ Commit(r, [wiki EXCEPT !.rows[d].live = FALSE],
              Event("deleted", Spot(d), None, {d}, FALSE), {})

SetLive(ids, live) ==
    [d \in Papers |-> IF d \in ids THEN [wiki.rows[d] EXCEPT !.live = live]
                      ELSE wiki.rows[d]]
DeleteFolder(r) ==
    /\ wiki.folder
    /\ Commit(r, [wiki EXCEPT !.folder = FALSE, !.rows = SetLive(Within, FALSE)],
              Event("deleted", <<wiki.dir>>, None, Within, Within # {}), {})

RestorePaper(r, d) ==
    /\ wiki.rows[d] # NoPaper /\ ~wiki.rows[d].live /\ wiki.folder
    /\ Unheld(Spot(d))
    /\ Commit(r, [wiki EXCEPT !.rows[d].live = TRUE], About("restored", {d}), {})

\* Everything below the path of the folder comes back.
RestoreFolder(r) ==
    LET below == {d \in Papers : wiki.rows[d].dir = wiki.dir}
    IN /\ ~wiki.folder
       /\ \A d, e \in below : Spot(d) = Spot(e) => d = e
       /\ Commit(r, [wiki EXCEPT !.folder = TRUE, !.rows = SetLive(below, TRUE)],
                 About("restored", below), {})

ArchiveFeature(r) ==
    /\ wiki.active
    /\ Commit(r, [wiki EXCEPT !.active = FALSE], About("archived", {}), {})

RestoreFeature(r) ==
    /\ ~wiki.active
    /\ Commit(r, [wiki EXCEPT !.active = TRUE], About("unarchived", {}), {})

WriteReports(r) ==
    /\ wiki.report < MaxTexts
    /\ Commit(r, [wiki EXCEPT !.report = @ + 1], About("report", {}), {})

-----------------------------------------------------------------------------
(* The projector *)

\* Mutant of Projected: the feature's state is not asked.
ProjectedAnyway(ids) ==
    [p \in Spots |->
       LET here == {d \in ids : Spot(d) = p}
           last == {d \in here : \A e \in here : e <= d}
       IN IF here = {} THEN shelf.files[p]
          ELSE IF \E d \in last : Shown(d) THEN Page(CHOOSE d \in last : TRUE)
          ELSE None]
\* The files once the documents have been read again and written in the order
\* of their paths and ids; those of a feature that is not active go.
Projected(ids) ==
    [p \in Spots |->
       LET here == {d \in ids : Spot(d) = p}
           last == {d \in here : \A e \in here : e <= d}
       IN IF ~wiki.active THEN None
          ELSE IF here = {} THEN shelf.files[p]
          ELSE IF \E d \in last : Shown(d) THEN Page(CHOOSE d \in last : TRUE)
          ELSE None]

\* Mutant of MovedFile: the file is copied.
CopiedFile(old, new) ==
    IF shelf.files[old] = None THEN shelf.files
    ELSE [shelf.files EXCEPT ![new] = shelf.files[old]]
\* A file goes to its new path, and its directory with what is in it; what was
\* there before is lost.
MovedFile(old, new) ==
    IF shelf.files[old] = None THEN shelf.files
    ELSE [p \in Spots |-> IF p = new THEN shelf.files[old]
                          ELSE IF p = old THEN None
                          ELSE shelf.files[p]]
MovedTree(old, new) ==
    IF \A leaf \in Labels : shelf.files[<<old, leaf>>] = None THEN shelf.files
    ELSE [p \in Spots |-> IF p[1] = new THEN shelf.files[<<old, p[2]>>]
                          ELSE IF p[1] = old THEN None
                          ELSE shelf.files[p]]

Gone(spots) == [p \in Spots |-> IF p \in spots THEN None ELSE shelf.files[p]]

\* Mutant of Refreshed: the manifest is left alone.
FilesOnly(files) == [shelf EXCEPT !.files = files]
\* The indexes and the manifest are written with every call.
Refreshed(files) == [shelf EXCEPT !.files = files, !.count = Counted]

\* Mutant of AfterMove: the documents are not read again.
NotReadAgain(e) == Refreshed(shelf.files)
AfterMove(e) == Refreshed(Projected(e.ids))

\* What a call makes of the workspace.
Result(e) ==
    CASE e.kind = "index" -> Refreshed(shelf.files)
      [] e.kind \in {"published", "restored"} -> Refreshed(Projected(e.ids))
      [] e.kind = "moved" /\ e.moved -> AfterMove(e)
      [] e.kind = "moved" /\ ~e.moved /\ e.wide -> FilesOnly(MovedTree(e.old[1], e.new[1]))
      [] e.kind = "moved" /\ ~e.moved /\ ~e.wide -> Refreshed(MovedFile(e.old, e.new))
      [] e.kind = "deleted" /\ e.wide -> Refreshed(Gone({Spot(d) : d \in e.ids}))
      [] e.kind = "deleted" /\ ~e.wide -> Refreshed(Gone({e.old}))
      [] e.kind = "unarchived" -> Export
      [] e.kind = "archived" -> [files |-> NoFiles, reports |-> 0, count |-> Counted]
      [] e.kind = "report" ->
           [files |-> IF wiki.active THEN shelf.files ELSE NoFiles,
            reports |-> ExportedReports, count |-> Counted]

\* Nodes that are no documents are nothing to do.
Nothing(e) == e.kind \in {"moved", "deleted", "restored"} /\ e.ids = {}

Drain(r) ==
    LET e == told[r]
        again == e # None /\ e.kind = "moved" /\ ~e.moved /\ ~Nothing(e)
        alone == \A s \in Changers \ {r} : told[s] = None
    IN /\ e # None
       /\ shelf' = IF Nothing(e) THEN shelf ELSE Result(e)
       /\ told' = [told EXCEPT ![r] = IF again THEN [e EXCEPT !.moved = TRUE] ELSE None]
       /\ past' = IF e.kind = "unarchived" /\ alone THEN [past EXCEPT !.seen = {}] ELSE past
       /\ UNCHANGED wiki

\* A call fails, or the server goes down before it: nobody calls again.
Lose(r) ==
    /\ told[r] # None
    /\ told' = [told EXCEPT ![r] = None]
    /\ past' = [past EXCEPT !.seen = @ \cup {"lost"}]
    /\ UNCHANGED <<wiki, shelf>>

\* The server starts: only a workspace without a manifest is exported.
Bootstrap ==
    /\ Quiet /\ shelf.count = None
    /\ shelf' = Export
    /\ past' = [past EXCEPT !.seen = {}]
    /\ UNCHANGED <<wiki, told>>

-----------------------------------------------------------------------------

Change(r) ==
    \/ \E d \in Papers :
         \/ \E leaf \in Labels : CreatePaper(r, d, leaf) \/ RenamePaper(r, d, leaf)
         \/ Publish(r, d) \/ DeletePaper(r, d)
    \/ \E dir \in Dirs : RenameFolder(r, dir) \/ DragFolder(r, dir)
    \/ DeleteFolder(r) \/ RestoreFolder(r)
    \/ ArchiveFeature(r) \/ RestoreFeature(r) \/ UpdateFeature(r) \/ WriteReports(r)

WorkspaceNext ==
    \/ \E r \in Changers :
         \/ Change(r) \/ Drain(r) \/ Lose(r)
         \/ \E d \in Papers : RestorePaper(r, d)
    \/ Bootstrap

\* A document comes back while its folder has the path it had.
InPlaceNext ==
    \/ \E r \in Changers :
         \/ Change(r) \/ Drain(r) \/ Lose(r)
         \/ \E d \in Papers : wiki.rows[d].dir = wiki.dir /\ RestorePaper(r, d)
    \/ Bootstrap
WorkspaceSpec == WorkspaceInit /\ [][InPlaceNext]_workspaceVars

-----------------------------------------------------------------------------

\* The documents and the files have paths that can be, and the manifest counts
\* no more documents than there are.
WorkspaceTypeOK ==
    /\ wiki.dir \in Dirs /\ wiki.report \in 1..MaxTexts
    /\ \A d \in Papers : wiki.rows[d] = NoPaper \/ Spot(d) \in Spots
    /\ shelf.files \in [Spots -> {None} \cup (Papers \X (1..MaxTexts))]
    /\ shelf.count \in {None} \cup 0..Cardinality(Papers)
    /\ past.changes \in 0..MaxChanges
    /\ past.seen \subseteq {"overlap", "crossed", "lost", "dragged"}

\* When no request is under way, and since the last export or rebuild every
\* change was projected before the next was made, the workspace is what an
\* export would make: each file where its document is, and no other.
MirrorsTree ==
    Quiet /\ past.seen = {} => shelf = Export

\* Requests that overlap may leave a document without its file, but no file
\* behind: each shows a document there is, at the path of that document, with its
\* last text.  (Not so when one of them moves documents: its file goes where the
\* request said, and may then lie on the newer one of another document.)
FilesAreCurrent ==
    Quiet /\ past.seen \subseteq {"overlap"} =>
      \A p \in Spots : shelf.files[p] # None =>
        wiki.active /\ \E d \in Live : Spot(d) = p /\ shelf.files[p] = Page(d)

\* However requests overlapped, once they are done nothing of an archived
\* feature is left to be read.
ArchivedLeavesNothing ==
    Quiet /\ "lost" \notin past.seen /\ ~wiki.active =>
      shelf.files = NoFiles /\ shelf.reports = 0

\* And the manifest has the number of documents there are.
ManifestCounts ==
    Quiet /\ "lost" \notin past.seen => shelf.count = Counted
=============================================================================

------------------------------- MODULE MCWiki -------------------------------
(***************************************************************************)
(* The parts of a wiki space in one run: a behaviour takes one of them.    *)
(* The variables of the others are None.                                   *)
(***************************************************************************)
EXTENDS WikiTree, WikiOrdering, WikiDocuments, WikiImport, WikiWorkspace

VARIABLE part
parts == <<vars, place, docVars, importVars, workspaceVars>>

ImportSource == <<<<9, 1>>, <<9, 2, 6, 3>>, <<9, 2, 4>>>>
ImportBases == {<<5>>}
ImportUserPaths == {<<5, 1>>, <<5, 6>>, <<9, 2, 4>>}

DocumentParts == {"edits", "edits one each"}
ImportParts == {"import", "job"}

WikiInit ==
    /\ part \in {"tree", "order", "workspace"} \cup DocumentParts \cup ImportParts
    /\ IF part = "tree" THEN Init
       ELSE tree = None /\ legacy = None /\ files = None /\ report = None
    /\ IF part = "order" THEN OrderingInit ELSE place = None
    /\ IF part \in DocumentParts THEN DocumentsInit
       ELSE versions = None /\ current = None /\ drafts = None /\ req = None
    /\ IF part \in ImportParts THEN ImportInit
       ELSE nodes = None /\ imp = None /\ item = None /\ job = None /\ inreq = None
    /\ IF part = "workspace" THEN WorkspaceInit
       ELSE wiki = None /\ shelf = None /\ told = None /\ past = None

WikiNext ==
    /\ part' = part
    /\ \/ /\ part = "tree" /\ Careful
          /\ UNCHANGED <<place, docVars, importVars, workspaceVars>>
       \/ /\ part = "order" /\ OrderingNext
          /\ UNCHANGED <<vars, docVars, importVars, workspaceVars>>
       \/ /\ part = "edits" /\ DocumentsNext
          /\ UNCHANGED <<vars, place, importVars, workspaceVars>>
       \/ /\ part = "edits one each" /\ OneEachNext
          /\ UNCHANGED <<vars, place, importVars, workspaceVars>>
       \/ /\ part \in ImportParts /\ PatientNext
          /\ IF part = "import" THEN job' = job ELSE imp' = imp
          /\ UNCHANGED <<vars, place, docVars, workspaceVars>>
       \/ /\ part = "workspace" /\ InPlaceNext
          /\ UNCHANGED <<vars, place, docVars, importVars>>
WikiSpec == WikiInit /\ [][WikiNext]_<<parts, part>>

\* The import session alone.
ImportSpec == WikiInit /\ part = "import" /\ [][WikiNext]_<<parts, part>>

-----------------------------------------------------------------------------
\* The parts keep their shape, and no row is without what it belongs to.
WikiTypeOK ==
    /\ part = "tree" => TypeOK
    /\ part = "order" => OrderingTypeOK
    /\ part \in DocumentParts => DocumentsTypeOK
    /\ part \in ImportParts => ImportTypeOK
    /\ part = "workspace" => WorkspaceTypeOK

\* Paths and parents tell one and the same tree, through moves, deletion,
\* restoration, purging and what the older APIs put in (WikiTree).
TreeIsSound == part = "tree" => PathsFollowTree /\ OnePathOneNode /\ Acyclic

\* Moves keep the order of the others (WikiOrdering).
OrderIsKept == [][part = "order" => OthersKeepOrder]_place

\* However publishes and rollbacks overlap, versions are numbered as they came,
\* and the document shows the last (WikiDocuments).
HistoryInSequence == part \in DocumentParts => VersionsInSequence

\* Nobody's save, publish, rollback or deletion touches the draft of another
\* user while every user has at most one request under way (WikiDocuments).
DraftsAreOwn == [][part = "edits one each" => OnlyOwnDrafts]_docVars

\* What an import makes is complete and in its place, and nobody waits in vain for
\* it (WikiImport).
ImportIsWhole ==
    part \in ImportParts => SettledIsCarriedOut /\ CompletedIsWhole /\ DirectoryIsKept /\ JobIsWhole

\* An import does no more than it was told to: nothing after it has ended, and
\* nothing to what others have unless the user said so (WikiImport).
ImportKeepsOff ==
    [][(part \in ImportParts) => EndedStaysEnded /\ NothingGoesUnasked]_importVars

\* opencode reads the wiki as it is (WikiWorkspace).
WorkspaceFollows ==
    part = "workspace" => ManifestCounts /\ MirrorsTree /\ FilesAreCurrent /\ ArchivedLeavesNothing
=============================================================================

------------------------------ MODULE WikiTree ------------------------------
(***************************************************************************)
(* The nodes of one wiki space (wiki/tree, wiki/sync, wiki/cleanup.py) and *)
(* the three things that make nodes beside the user: assets, documents     *)
(* that came through the older documents API, and reports.                 *)
(*                                                                         *)
(* Every node stores its parent and, a second time, the whole path; who    *)
(* belongs to a subtree is decided by the path, where a node is shown by   *)
(* the parent.  The module is about the two staying in agreement.          *)
(*                                                                         *)
(* Names are numbers: a name stands for all the texts that normalise to    *)
(* one leaf.  A leaf is a name and the number a collision gave it.  Who    *)
(* asks may write here.  The order of siblings is module WikiOrdering's.   *)
(***************************************************************************)
EXTENDS Integers, Sequences, FiniteSets, NoValue

CONSTANTS
    Nodes,      \* ids of nodes users, uploads and reports make
    KB, RP,     \* ids of the system folders knowledge-base and reports
    Names,      \* what a node can be called
    Suffixes,   \* the numbers a collision can put behind a name, from 1
    Documents,  \* rows of the older documents table
    Reports     \* rows of the reports table

ASSUME TreeAssumption ==
    /\ Nodes \cup {KB, RP} \subseteq Nat /\ {KB, RP} \cap Nodes = {} /\ KB # RP
    /\ Names \subseteq 1..99 /\ None \notin Nat
    /\ Suffixes \subseteq Nat /\ 1 \in Suffixes
    /\ Documents \cap Reports = {} /\ None \notin Documents \cup Reports

VARIABLES
    tree,    \* the rows of wiki_nodes, by id
    legacy,  \* per document of the older API: its state and file name
    files,   \* the names under which a file is stored for the older API
    report   \* the title of each report that exists

vars == <<tree, legacy, files, report>>

Roots == {KB, RP}
Ids == Nodes \cup Roots
RootName(r) == IF r = KB THEN 100 ELSE 101
Leaves == (Names \cup {100, 101}) \X Suffixes
Types == {"folder", "document", "asset", "report_ref"}

\* gone: 0 for an active node, 1 soft-deleted, 2 soft-deleted for longer than
\* the retention.  owner: the older document or the report it stands for.
Row(parent, type, name, path, owner) ==
    [parent |-> parent, type |-> type, name |-> name, path |-> path,
     gone |-> 0, owner |-> owner]
RootRow(r) == Row(None, "folder", RootName(r), <<<<RootName(r), 1>>>>, None)

Init ==
    /\ tree = [r \in Roots |-> RootRow(r)]
    /\ legacy = [d \in Documents |-> [state |-> "none", name |-> None]]
    /\ files = {}
    /\ report = [r \in Reports |-> None]

-----------------------------------------------------------------------------
(* Paths *)

Exists == DOMAIN tree
Active == {n \in Exists : tree[n].gone = 0}
PathOf(n) == IF n = None THEN <<>> ELSE tree[n].path
Join(p, name) == Append(PathOf(p), <<name, 1>>)
Under(path, top) == Len(path) > Len(top) /\ SubSeq(path, 1, Len(top)) = top
Subtree(n, rows) ==
    {m \in rows : m = n \/ Under(tree[m].path, tree[n].path)}
Holders(path, rows) == {m \in rows : tree[m].path = path}
Available(path, own) == Holders(path, Active \ own) = {}

\* The first free name in a folder.  The query behind it expects one row at
\* most and raises on two, so a name asked for may be held only once.
Numbered(p, name, k) == Append(PathOf(p), <<name, k>>)
IsFirstFree(p, name, k, rows) ==
    /\ Holders(Numbered(p, name, k), rows) = {}
    /\ \A i \in Suffixes : i < k => Cardinality(Holders(Numbered(p, name, i), rows)) = 1

\* New ids are larger than all that are in use.
NewId(n) == n \in Nodes /\ \A m \in Exists \cap Nodes : m < n
Insert(n, row) ==
    [m \in Exists \cup {n} |-> IF m = n THEN row ELSE tree[m]]

\* Mutant of Moved: the paths below are left alone.
MovedAlone(n, p, name, path) ==
    [tree EXCEPT ![n].parent = p, ![n].name = name, ![n].path = path]
\* What a node and its active subtree become when it is hung elsewhere.
Moved(n, p, name, path) ==
    LET old == tree[n].path
        own == Subtree(n, Active)
    IN [m \in Exists |->
          IF m = n THEN [tree[n] EXCEPT !.parent = p, !.name = name, !.path = path]
          ELSE IF m \in own
               THEN [tree[m] EXCEPT !.path =
                       path \o SubSeq(@, Len(old) + 1, Len(@))]
          ELSE tree[m]]
Fits(n, p, name, path) ==
    LET own == Subtree(n, Active)
        moved == Moved(n, p, name, path)
    IN \A m \in own : Available(moved[m].path, own)

-----------------------------------------------------------------------------
(* Requests on nodes *)

\* Mutant of Mutable: system folders are not protected.
MutableAny(n) == n \in Exists
Mutable(n) == n \in Exists \ Roots
Parents == {None} \cup Active

CreateNode(p, type, name) ==
    /\ p \in Parents
    /\ \E n \in Nodes :
         /\ NewId(n)
         /\ Available(Join(p, name), {})
         /\ tree' = Insert(n, Row(p, type, name, Join(p, name), None))
    /\ UNCHANGED <<legacy, files, report>>

\* An upload never conflicts: its leaf is numbered until it is free.
UploadAsset(p, name) ==
    /\ p \in Parents
    /\ \E n \in Nodes, k \in Suffixes :
         /\ NewId(n)
         /\ IsFirstFree(p, name, k, Active)
         /\ tree' = Insert(n, Row(p, "asset", name, Numbered(p, name, k), None))
    /\ UNCHANGED <<legacy, files, report>>

\* Promoting a session attachment makes a document or an asset the same way.
PromoteAttachment(p, name) ==
    CreateNode(p, "document", name) \/ UploadAsset(p, name)

\* Mutant of Reachable: only the node itself is refused.
ReachableOther(n, p) == p # n
\* A target may not be the node or lie below it; whether it does is read off
\* the paths.
Reachable(n, p) == p # n /\ ~Under(PathOf(p), tree[n].path)

\* PUT: a parent that is given is checked, one that is left alone is not.
UpdateNode(n, p, name) ==
    /\ Mutable(n) /\ n \in Active
    /\ \/ p = tree[n].parent
       \/ p \in Parents /\ Reachable(n, p)
    /\ <<p, name>> # <<tree[n].parent, tree[n].name>>
    /\ Fits(n, p, name, Join(p, name))
    /\ tree' = Moved(n, p, name, Join(p, name))
    /\ UNCHANGED <<legacy, files, report>>

\* POST move; the order of the siblings is that of module WikiOrdering.
MoveNode(n, p) ==
    /\ Mutable(n) /\ n \in Active /\ tree[n].type \in {"folder", "document"}
    /\ p \in Parents /\ p # tree[n].parent
    /\ p # None => tree[p].type = "folder" /\ p # RP /\ Reachable(n, p)
    /\ Fits(n, p, tree[n].name, Join(p, tree[n].name))
    /\ tree' = Moved(n, p, tree[n].name, Join(p, tree[n].name))
    /\ UNCHANGED <<legacy, files, report>>

SetGone(rows, g) ==
    [m \in Exists |-> IF m \in rows THEN [tree[m] EXCEPT !.gone = g] ELSE tree[m]]

DeleteNode(n) ==
    /\ Mutable(n) /\ n \in Active
    /\ tree' = SetGone(Subtree(n, Active), 1)
    /\ UNCHANGED <<legacy, files, report>>

\* Mutant of RestoreNode: nothing is asked of the paths.
RestoreUnchecked(n) ==
    /\ Mutable(n) /\ n \notin Active /\ tree[n].parent \in Parents
    /\ tree' = SetGone(Subtree(n, Exists), 0)
    /\ UNCHANGED <<legacy, files, report>>
\* Restoring brings back every row whose path is below that of the node, when
\* and how it was deleted is not asked.  Two of them with one path are refused
\* by the index on active paths, and the request fails.
RestoreNode(n) ==
    LET own == Subtree(n, Exists)
    IN /\ Mutable(n) /\ n \notin Active
       /\ tree[n].parent \in Parents
       /\ \A m \in own : Available(tree[m].path, own)
       /\ \A m, k \in own : tree[m].path = tree[k].path => m = k
       /\ tree' = SetGone(own, 0)
       /\ UNCHANGED <<legacy, files, report>>

-----------------------------------------------------------------------------
(* Retention *)

GrowOld ==
    /\ \E n \in Exists : tree[n].gone = 1
    /\ tree' = SetGone({n \in Exists : tree[n].gone = 1}, 2)
    /\ UNCHANGED <<legacy, files, report>>

\* A row goes with its document; children that stay lose their parent.
Without(rows) ==
    [m \in Exists \ rows |->
       IF tree[m].parent \in rows THEN [tree[m] EXCEPT !.parent = None] ELSE tree[m]]

Purge ==
    LET old == {n \in Exists : tree[n].gone = 2}
    IN /\ old # {}
       /\ tree' = Without(old)
       /\ UNCHANGED <<legacy, files, report>>

-----------------------------------------------------------------------------
(* The older documents API and reports *)

NodeOf(owner) == {n \in Exists : tree[n].owner = owner}

\* A document of the older API gets its node under the knowledge base, under
\* the first name no row has, deleted ones included.
SyncDocument(d, name) ==
    \E n \in Nodes, k \in Suffixes :
      /\ NewId(n)
      /\ IsFirstFree(KB, name, k, Exists)
      /\ tree' = Insert(n, Row(KB, "document", name, Numbered(KB, name, k), d))

UploadDocument(d, name) ==
    /\ legacy[d].state = "none"
    /\ SyncDocument(d, name)
    /\ legacy' = [legacy EXCEPT ![d] = [state |-> "active", name |-> name]]
    /\ files' = files \cup {name}
    /\ UNCHANGED report

\* The file is written before it is validated, and removed when it is refused;
\* whose file it was before is not asked.
RefuseDocument(name) ==
    /\ files' = files \ {name}
    /\ UNCHANGED <<tree, legacy, report>>

\* Its node is soft-deleted, and only that node.
DeleteDocument(d) ==
    /\ legacy[d].state = "active"
    /\ legacy' = [legacy EXCEPT ![d].state = "deleted"]
    /\ tree' = SetGone(NodeOf(d) \cap Active, 1)
    /\ UNCHANGED <<files, report>>

\* A report's node is put (back) under the reports folder under its title, its
\* own leaf counting as free; what hangs below it is left alone.
SyncReport(r, title) ==
    \/ /\ NodeOf(r) = {}
       /\ \E n \in Nodes, k \in Suffixes :
            /\ NewId(n)
            /\ IsFirstFree(RP, title, k, Exists)
            /\ tree' = Insert(n, Row(RP, "report_ref", title, Numbered(RP, title, k), r))
    \/ \E n \in NodeOf(r), k \in Suffixes :
         /\ Holders(Numbered(RP, title, k), Exists) \subseteq {n}
         /\ \A i \in Suffixes : i < k =>
              \E m \in Exists \ {n} : Holders(Numbered(RP, title, i), Exists) = {m}
         /\ tree' = [tree EXCEPT ![n].parent = RP, ![n].name = title,
                                 ![n].path = Numbered(RP, title, k)]

WriteReport(r, title) ==
    /\ SyncReport(r, title)
    /\ report' = [report EXCEPT ![r] = title]
    /\ UNCHANGED <<legacy, files>>

\* Reading the tree of a feature gives every active document of the older API
\* that has no row a new one, and puts every report in its place; one file that
\* cannot be read fails the request.  One step here is one turn of its loops.
Readable == \A d \in Documents : legacy[d].state = "active" => legacy[d].name \in files

BackfillDocument(d) ==
    /\ Readable
    /\ legacy[d].state = "active" /\ NodeOf(d) = {}
    /\ SyncDocument(d, legacy[d].name)
    /\ UNCHANGED <<legacy, files, report>>

BackfillReport(r) ==
    /\ Readable
    /\ report[r] # None
    /\ SyncReport(r, report[r])
    /\ UNCHANGED <<legacy, files, report>>

DeleteReport(r) ==
    /\ report[r] # None
    /\ report' = [report EXCEPT ![r] = None]
    /\ tree' = Without(NodeOf(r))
    /\ UNCHANGED <<legacy, files>>

-----------------------------------------------------------------------------

\* What users do with parents from a set.
UserStep(parents) ==
    \/ \E p \in parents, name \in Names :
         \/ \E type \in {"folder", "document"} : CreateNode(p, type, name)
         \/ UploadAsset(p, name)
         \/ PromoteAttachment(p, name)
    \/ \E n \in Active :
         \/ \E p \in parents :
              MoveNode(n, p) \/ \E name \in Names : UpdateNode(n, p, name)
         \/ \E name \in Names : UpdateNode(n, tree[n].parent, name)
         \/ DeleteNode(n)

OlderStep ==
    \/ \E d \in Documents, name \in Names : UploadDocument(d, name)
    \/ \E name \in Names : RefuseDocument(name)
    \/ \E d \in Documents : DeleteDocument(d) \/ BackfillDocument(d)
    \/ \E r \in Reports, title \in Names : WriteReport(r, title)
    \/ \E r \in Reports : DeleteReport(r) \/ BackfillReport(r)

Restore == \E n \in Exists : RestoreNode(n)
Next == UserStep(Parents) \/ OlderStep \/ Restore \/ GrowOld \/ Purge
Spec == Init /\ [][Next]_vars

-----------------------------------------------------------------------------
(* What the tree promises, and to whom *)

\* The rows, the older documents and the reports keep their shape, and the two
\* system folders are always there (spaces/service.py).
TypeOK ==
    /\ Roots \subseteq Exists /\ Exists \subseteq Ids
    /\ \A n \in Exists :
         /\ tree[n].parent \in Ids \cup {None}
         /\ tree[n].type \in Types
         /\ tree[n].name \in Names \cup {100, 101}
         /\ tree[n].path \in Seq(Leaves)
         /\ tree[n].gone \in 0..2
         /\ tree[n].owner \in Documents \cup Reports \cup {None}
    /\ legacy \in [Documents -> [state : {"none", "active", "deleted"},
                                 name : Names \cup {None}]]
    /\ files \subseteq Names
    /\ report \in [Reports -> Names \cup {None}]

\* An active node hangs on an active one, and its path is the path of that one
\* and a leaf of its own name.
PathsFollowTree ==
    \A n \in Active :
      /\ tree[n].parent \in Parents
      /\ \E k \in Suffixes :
           tree[n].path = Append(PathOf(tree[n].parent), <<tree[n].name, k>>)

\* No two active nodes have one path.
OnePathOneNode ==
    \A m, n \in Active : tree[m].path = tree[n].path => m = n

\* Whoever goes up from a node gets out at the top.
Acyclic ==
    \A rows \in SUBSET Exists :
      rows # {} => \E n \in rows : tree[n].parent \notin rows

\* What the workbench offers: nodes are made and hung in folders, and a subtree
\* is restored while all of its rows still hang where their paths say.
Containers == {None} \cup {p \in Exists : tree[p].type = "folder"}
Untouched(n) ==
    \A m \in Subtree(n, Exists) : \/ m = n /\ tree[n].parent = None
      \/ /\ tree[m].parent \in Active \cup Subtree(n, Exists)
         /\ \E k \in Suffixes :
              tree[m].path = Append(PathOf(tree[m].parent), <<tree[m].name, k>>)
CarefulRestore == \E n \in Exists : Untouched(n) /\ RestoreNode(n)
Careful ==
    UserStep(Parents \cap Containers) \/ OlderStep \/ CarefulRestore \/ GrowOld \/ Purge
CarefulSpec == Init /\ [][Careful]_vars
=============================================================================

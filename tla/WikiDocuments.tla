---------------------------- MODULE WikiDocuments ----------------------------
(***************************************************************************)
(* One wiki document: its versions, the drafts users keep of it, and the   *)
(* requests that write them (wiki/documents).  A request reads first and   *)
(* writes in a second step; what it read may be old by then, and only the  *)
(* unique indexes and the row ids stand between two requests.              *)
(***************************************************************************)
EXTENDS Integers, Sequences, FiniteSets, NoValue

CONSTANTS
    Users, Bodies,
    Edits,          \* requests that can be open at a time
    Rows,           \* ids of draft rows; a free one can be given again
    MaxVersions     \* bound: versions that are made

ASSUME DocumentsAssumption ==
    MaxVersions \in Nat /\ None \notin Bodies \cup Rows \cup Users

VARIABLES
    versions,   \* the rows of wiki_document_versions in the order they came
    current,    \* the version the document points at; 0 for none
    drafts,     \* per user the draft row, or None
    req         \* per request what it asks for and what it has read

docVars == <<versions, current, drafts, req>>

Idle == [op |-> "none", user |-> None, body |-> None, row |-> None, no |-> 0]
NoDraft == [row |-> None, body |-> None]

DocumentsInit ==
    /\ versions = <<>> /\ current = 0
    /\ drafts = [u \in Users |-> NoDraft]
    /\ req = [r \in Edits |-> Idle]

NextVersionNo ==
    LET numbers == {0} \cup {versions[i].no : i \in DOMAIN versions}
    IN 1 + CHOOSE n \in numbers : \A m \in numbers : m <= n

Ask(r, op, u, body) ==
    /\ req[r].op = "none"
    /\ req' = [req EXCEPT ![r] =
         [op |-> op, user |-> u, body |-> body, row |-> drafts[u].row,
          no |-> NextVersionNo]]
    /\ UNCHANGED <<versions, current, drafts>>

AskDraft(r, u, body) == Ask(r, "save", u, body)
AskDelete(r, u) == Ask(r, "delete", u, None)
\* Publishing takes the body it is sent, or else the draft it reads.
AskPublish(r, u, body) ==
    LET text == IF body # None THEN body ELSE drafts[u].body
    IN text # None /\ Ask(r, "publish", u, text)
AskRollback(r, u, i) ==
    i \in DOMAIN versions /\ Ask(r, "rollback", u, versions[i].body)

EditDone(r) == req' = [req EXCEPT ![r] = Idle]

\* A draft that was there is updated by its row id, one that was not is
\* inserted; a row that went meanwhile, or one that came, fails the request.
\* Mutant of WriteDraft: the update does not ask whose row it is.
WriteAnyDraft(r) ==
    /\ req[r].op = "save"
    /\ drafts' = [drafts EXCEPT ![req[r].user].body = req[r].body]
    /\ EditDone(r) /\ UNCHANGED <<versions, current>>
WriteDraft(r) ==
    LET u == req[r].user
    IN /\ req[r].op = "save"
       /\ IF req[r].row = None
          THEN \/ /\ drafts[u] = NoDraft
                  /\ \E row \in Rows \ {drafts[v].row : v \in Users} :
                       drafts' = [drafts EXCEPT ![u] = [row |-> row, body |-> req[r].body]]
               \/ drafts[u] # NoDraft /\ UNCHANGED drafts
          ELSE drafts' = [v \in Users |->
                 IF drafts[v].row = req[r].row
                 THEN [drafts[v] EXCEPT !.body = req[r].body] ELSE drafts[v]]
       /\ EditDone(r) /\ UNCHANGED <<versions, current>>

\* Mutant of DropDraft: publishing clears the drafts of the document.
DropDrafts(row) ==
    drafts' = IF row # None THEN [v \in Users |-> NoDraft] ELSE drafts
DropDraft(row) ==
    drafts' = [v \in Users |->
      IF row # None /\ drafts[v].row = row THEN NoDraft ELSE drafts[v]]

DeleteDraft(r) ==
    /\ req[r].op = "delete"
    /\ DropDraft(req[r].row)
    /\ EditDone(r) /\ UNCHANGED <<versions, current>>

\* Mutant of Collides: no unique index on the document and the number.
NeverCollides(r) == req[r].no = 0
Collides(r) == \E i \in DOMAIN versions : versions[i].no = req[r].no

\* The number was taken meanwhile: the index refuses it, the request fails.
VersionRefused(r) ==
    /\ req[r].op \in {"publish", "rollback"} /\ Collides(r)
    /\ EditDone(r) /\ UNCHANGED <<versions, current, drafts>>

AddVersion(r) ==
    /\ ~Collides(r) /\ Len(versions) < MaxVersions
    /\ versions' = Append(versions, [no |-> req[r].no, body |-> req[r].body])
    /\ current' = Len(versions')

PublishDocument(r) ==
    /\ req[r].op = "publish"
    /\ AddVersion(r) /\ DropDraft(req[r].row) /\ EditDone(r)

\* A rollback is a new version with an old body; drafts stay.
RollbackToVersion(r) ==
    /\ req[r].op = "rollback"
    /\ AddVersion(r) /\ EditDone(r) /\ UNCHANGED drafts

Asks(r) ==
    \E u \in Users :
      \/ AskDelete(r, u)
      \/ \E body \in Bodies : AskDraft(r, u, body)
      \/ \E body \in Bodies \cup {None} : AskPublish(r, u, body)
      \/ \E i \in 1..MaxVersions : AskRollback(r, u, i)
Answers(r) ==
    \/ WriteDraft(r) \/ DeleteDraft(r) \/ VersionRefused(r)
    \/ PublishDocument(r) \/ RollbackToVersion(r)
DocumentsNext == \E r \in Edits : Asks(r) \/ Answers(r)

\* Versions, drafts and requests keep their shape, and the document shows a version
\* there is.
DocumentsTypeOK ==
    /\ \A i \in DOMAIN versions : versions[i] \in [no : Nat, body : Bodies]
    /\ current \in 0..Len(versions)
    /\ drafts \in [Users -> [row : Rows, body : Bodies] \cup {NoDraft}]
    /\ \A r \in Edits : req[r].row \in Rows \cup {None}

\* However publishes and rollbacks overlap, versions are numbered as they
\* came, without a gap, and the document shows the one that came last.
VersionsInSequence ==
    /\ \A i \in DOMAIN versions : versions[i].no = i
    /\ current = Len(versions)

\* Nobody's save, publish, rollback or deletion touches the draft of another
\* user, as long as no user has two requests under way: the row a request has
\* read is its user's then.  (With two, the row can be gone and its id given to
\* the draft of another user, which the late one writes.)
OneEach == \A q, r \in Edits : q # r /\ req[q].op # "none" => req[q].user # req[r].user
OneEachNext == DocumentsNext /\ OneEach'
Owner(r) == req[r].user
OnlyOwnDrafts ==
    \A u \in Users : drafts[u] # NoDraft /\ drafts'[u] # drafts[u] =>
      \E r \in Edits : Owner(r) = u /\ req'[r] = Idle
=============================================================================

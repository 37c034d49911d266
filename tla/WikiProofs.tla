------------------------------ MODULE WikiProofs ------------------------------
(***************************************************************************)
(* Proofs about the parts of a wiki space: the documents with their drafts *)
(* and versions, the order of siblings, and the workspace opencode reads,  *)
(* for any set of documents, requests, items, users and texts.             *)
(***************************************************************************)
EXTENDS MCWiki, TLAPS, FiniteSetTheorems

-----------------------------------------------------------------------------
(* Documents: versions in sequence, drafts of their own *)

Asked == {"save", "delete", "publish", "rollback"}
DraftRow == [row : Rows, body : Bodies]
EditRow ==
    [op : Asked \cup {"none"}, user : Users \cup {None}, body : Bodies \cup {None},
     row : Rows \cup {None}, no : Nat]

\* What holds of a document at all times: versions are numbered as they came, and a
\* request that will make one has read a number no larger than the next.
DocumentInv ==
    /\ versions \in Seq([no : Nat, body : Bodies])
    /\ \A i \in 1 .. Len(versions) : versions[i].no = i
    /\ current = Len(versions)
    /\ drafts \in [Users -> DraftRow \cup {NoDraft}]
    /\ req \in [Edits -> EditRow]
    /\ \A r \in Edits : req[r].op \in Asked =>
         /\ req[r].user \in Users
         /\ req[r].op # "delete" => req[r].body \in Bodies
         /\ req[r].no \in 1 .. Len(versions) + 1

\* The number a request reads is the one behind the last version (_next_version_no).
LEMMA NextIsBehindLast ==
    ASSUME DocumentInv
    PROVE  NextVersionNo = Len(versions) + 1
<1> DEFINE numbers == {0} \cup {versions[i].no : i \in DOMAIN versions}
<1> DEFINE last == CHOOSE n \in numbers : \A m \in numbers : m <= n
<1>1. Len(versions) \in Nat /\ DOMAIN versions = 1 .. Len(versions)
  BY DEF DocumentInv
<1>2. numbers = 0 .. Len(versions)
  BY <1>1 DEF DocumentInv
<1> HIDE DEF numbers
<1>3. \E n \in numbers : \A m \in numbers : m <= n
  <2>1. Len(versions) \in numbers /\ \A m \in numbers : m <= Len(versions)
    BY <1>1, <1>2
  <2> QED
    BY <2>1
<1>4. last \in numbers /\ \A m \in numbers : m <= last
  BY <1>3
<1> HIDE DEF last
<1>5. last = Len(versions)
  <2>1. last \in 0 .. Len(versions) /\ Len(versions) \in numbers
    BY <1>1, <1>2, <1>4
  <2>2. Len(versions) <= last
    BY <1>4, <2>1
  <2>3. \A a, b \in Int : a <= b /\ b <= a => a = b
    OBVIOUS
  <2>4. last <= Len(versions) /\ last \in Int /\ Len(versions) \in Int
    BY <1>1, <2>1
  <2> QED
    BY <2>2, <2>3, <2>4
<1>6. NextVersionNo = 1 + last
  BY DEF NextVersionNo, last, numbers
<1> QED
  BY <1>1, <1>5, <1>6

\* A request that asks reads its own user's row and the next number, and nothing
\* is written.
LEMMA AskingKeeps ==
    ASSUME DocumentsAssumption, DocumentInv, NEW r \in Edits, Asks(r)
    PROVE  /\ DocumentInv'
           /\ req[r].op = "none" /\ UNCHANGED <<versions, current, drafts>>
           /\ req'[r].op \in Asked /\ req'[r].user \in Users
           /\ req'[r].row = drafts[req'[r].user].row
           /\ \A q \in Edits \ {r} : req'[q] = req[q]
<1>1. PICK u \in Users, op \in Asked, body \in Bodies \cup {None} :
        Ask(r, op, u, body) /\ (op # "delete" => body \in Bodies)
  <2>1. ASSUME NEW u \in Users, AskDelete(r, u) PROVE Ask(r, "delete", u, None)
    BY <2>1 DEF AskDelete
  <2>2. ASSUME NEW u \in Users, NEW body \in Bodies, AskDraft(r, u, body)
        PROVE  Ask(r, "save", u, body)
    BY <2>2 DEF AskDraft
  <2>3. ASSUME NEW u \in Users, NEW body \in Bodies \cup {None}, AskPublish(r, u, body)
        PROVE  \E text \in Bodies : Ask(r, "publish", u, text)
    <3>1. drafts[u].body \in Bodies \cup {None}
      BY DEF DocumentInv, DraftRow, NoDraft
    <3> QED
      BY <2>3, <3>1 DEF AskPublish
  <2>4. ASSUME NEW u \in Users, NEW i \in 1 .. MaxVersions, AskRollback(r, u, i)
        PROVE  \E text \in Bodies : Ask(r, "rollback", u, text)
    <3>1. i \in DOMAIN versions => versions[i].body \in Bodies
      <4>1. DOMAIN versions = 1 .. Len(versions)
        BY DEF DocumentInv
      <4>2. \A j \in 1 .. Len(versions) : versions[j] \in [no : Nat, body : Bodies]
        <5> DEFINE V == [no : Nat, body : Bodies]
        <5>1. versions \in Seq(V)
          BY DEF DocumentInv
        <5> HIDE DEF V
        <5>2. \A j \in 1 .. Len(versions) : versions[j] \in V
          BY <5>1
        <5> QED
          BY <5>2 DEF V
      <4> QED
        BY <4>1, <4>2
    <3> QED
      BY <2>4, <3>1 DEF AskRollback
  <2>5. {"delete", "save", "publish", "rollback"} \subseteq Asked
    BY DEF Asked
  <2> QED
    BY <2>1, <2>2, <2>3, <2>4, <2>5 DEF Asks
<1> DEFINE new == [op |-> op, user |-> u, body |-> body, row |-> drafts[u].row,
                   no |-> NextVersionNo]
<1>2. /\ req[r].op = "none" /\ UNCHANGED <<versions, current, drafts>>
      /\ req' = [req EXCEPT ![r] = new]
  BY <1>1 DEF Ask
<1>3. NextVersionNo = Len(versions) + 1 /\ Len(versions) \in Nat
  BY NextIsBehindLast DEF DocumentInv
<1>4. drafts[u].row \in Rows \cup {None}
  BY DEF DocumentInv, DraftRow, NoDraft
<1>5. new \in EditRow
  BY <1>3, <1>4 DEF EditRow
<1>6. req'[r] = new /\ \A q \in Edits \ {r} : req'[q] = req[q]
  BY <1>2 DEF DocumentInv
<1>7. req' \in [Edits -> EditRow]
  BY <1>2, <1>5 DEF DocumentInv
<1>8. new.op = op /\ new.user = u /\ new.body = body /\ new.row = drafts[u].row
      /\ new.no = Len(versions) + 1
  BY <1>3
<1> HIDE DEF new
<1>9. ASSUME NEW q \in Edits, req'[q].op \in Asked
      PROVE  /\ req'[q].user \in Users
             /\ req'[q].op # "delete" => req'[q].body \in Bodies
             /\ req'[q].no \in 1 .. Len(versions') + 1
  <2>1. CASE q = r
    BY <2>1, <1>1, <1>2, <1>3, <1>6, <1>8
  <2>2. CASE q # r
    BY <2>2, <1>2, <1>6, <1>9 DEF DocumentInv
  <2> QED
    BY <2>1, <2>2
<1>10. DocumentInv'
  BY <1>2, <1>7, <1>9 DEF DocumentInv
<1> QED
  BY <1>1, <1>2, <1>6, <1>8, <1>10

\* What a request leaves behind when it is answered.
LEMMA AnsweringFrees ==
    ASSUME DocumentInv, NEW r \in Edits, EditDone(r)
    PROVE  /\ req' \in [Edits -> EditRow]
           /\ req'[r] = Idle /\ req'[r].op \notin Asked
           /\ \A q \in Edits \ {r} : req'[q] = req[q]
<1>1. Idle \in EditRow /\ Idle.op \notin Asked
  BY DEF Idle, EditRow, Asked
<1> QED
  BY <1>1 DEF DocumentInv, EditDone

\* A row of drafts that is written or dropped stays one.
LEMMA DraftsKeepShape ==
    ASSUME DocumentsAssumption, DocumentInv, NEW r \in Edits,
           WriteDraft(r) \/ DropDraft(req[r].row) \/ UNCHANGED drafts
    PROVE  drafts' \in [Users -> DraftRow \cup {NoDraft}]
<1>1. ASSUME WriteDraft(r) PROVE drafts' \in [Users -> DraftRow \cup {NoDraft}]
  <2> DEFINE u == req[r].user
  <2>1. u \in Users /\ req[r].body \in Bodies
    BY <1>1 DEF WriteDraft, DocumentInv, Asked
  <2>2. CASE req[r].row = None
    <3>1. CASE UNCHANGED drafts
      BY <3>1 DEF DocumentInv
    <3>2. CASE \E row \in Rows : drafts' = [drafts EXCEPT ![u] = [row |-> row, body |-> req[r].body]]
      BY <3>2, <2>1 DEF DocumentInv, DraftRow
    <3> QED
      BY <1>1, <2>2, <3>1, <3>2 DEF WriteDraft
  <2>3. CASE req[r].row # None
    <3>1. drafts' = [v \in Users |->
                 IF drafts[v].row = req[r].row
                 THEN [drafts[v] EXCEPT !.body = req[r].body] ELSE drafts[v]]
      BY <1>1, <2>3 DEF WriteDraft
    <3>2. ASSUME NEW v \in Users
          PROVE  drafts'[v] \in DraftRow \cup {NoDraft}
      <4>1. drafts[v] \in DraftRow \cup {NoDraft}
        BY DEF DocumentInv
      <4>2. CASE drafts[v].row = req[r].row
        <5>1. drafts[v] \in DraftRow
          BY <4>1, <4>2, <2>3 DEF NoDraft
        <5>2. [drafts[v] EXCEPT !.body = req[r].body] \in DraftRow
          BY <5>1, <2>1 DEF DraftRow
        <5> QED
          BY <3>1, <4>2, <5>2
      <4> QED
        BY <3>1, <4>1, <4>2
    <3> QED
      BY <3>1, <3>2
  <2> QED
    BY <2>2, <2>3
<1>2. ASSUME DropDraft(req[r].row) PROVE drafts' \in [Users -> DraftRow \cup {NoDraft}]
  BY <1>2 DEF DropDraft, DocumentInv
<1> QED
  BY <1>1, <1>2 DEF DocumentInv

LEMMA DocumentStep ==
    ASSUME DocumentsAssumption, DocumentInv, DocumentsNext
    PROVE  DocumentInv'
<1>1. PICK r \in Edits : Asks(r) \/ Answers(r)
  BY DEF DocumentsNext
<1>2. CASE Asks(r)
  BY <1>2, AskingKeeps
<1>3. CASE Answers(r)
  <2>1. EditDone(r) /\ req[r].op \in Asked
    BY <1>3 DEF Answers, WriteDraft, DeleteDraft, VersionRefused, PublishDocument,
      RollbackToVersion, AddVersion, Asked
  <2>2. drafts' \in [Users -> DraftRow \cup {NoDraft}]
    <3>1. WriteDraft(r) \/ DropDraft(req[r].row) \/ UNCHANGED drafts
      BY <1>3 DEF Answers, DeleteDraft, VersionRefused, PublishDocument, RollbackToVersion
    <3> QED
      BY <3>1, DraftsKeepShape
  <2>3. /\ versions' \in Seq([no : Nat, body : Bodies])
        /\ \A i \in 1 .. Len(versions') : versions'[i].no = i
        /\ current' = Len(versions')
        /\ Len(versions) <= Len(versions')
    <3>1. CASE UNCHANGED <<versions, current>>
      BY <3>1 DEF DocumentInv
    <3>2. CASE AddVersion(r) /\ req[r].op \in {"publish", "rollback"}
      <4>1. req[r].no = Len(versions) + 1 /\ req[r].body \in Bodies /\ Len(versions) \in Nat
        BY <2>1, <3>2, SMTT(40) DEF AddVersion, Collides, DocumentInv
      <4>2. [no |-> req[r].no, body |-> req[r].body] \in [no : Nat, body : Bodies]
        BY <4>1
      <4>3. /\ versions' = Append(versions, [no |-> req[r].no, body |-> req[r].body])
            /\ current' = Len(versions')
        BY <3>2 DEF AddVersion
      <4> QED
        BY <4>1, <4>2, <4>3 DEF DocumentInv
    <3> QED
      BY <1>3, <3>1, <3>2 DEF Answers, WriteDraft, DeleteDraft, VersionRefused,
        PublishDocument, RollbackToVersion
  <2>4. ASSUME NEW q \in Edits, req'[q].op \in Asked
        PROVE  /\ req'[q].user \in Users
               /\ req'[q].op # "delete" => req'[q].body \in Bodies
               /\ req'[q].no \in 1 .. Len(versions') + 1
    <3>1. q # r /\ req'[q] = req[q]
      BY <2>1, <2>4, AnsweringFrees
    <3>2. Len(versions) \in Nat /\ Len(versions') \in Nat
      BY <2>3 DEF DocumentInv
    <3> QED
      BY <2>3, <2>4, <3>1, <3>2 DEF DocumentInv
  <2> QED
    BY <2>1, <2>2, <2>3, <2>4, AnsweringFrees DEF DocumentInv
<1> QED
  BY <1>1, <1>2, <1>3

\* While every user has one request at most, what a request has read of its user's
\* draft is so still, and a row is one user's.
DraftOwners ==
    /\ OneEach
    /\ \A r \in Edits : req[r].op \in Asked => drafts[req[r].user].row = req[r].row
    /\ \A u, v \in Users : drafts[u].row = drafts[v].row /\ drafts[u].row # None => u = v

\* A request changes the draft of its own user alone, and rows stay apart.
LEMMA OwnDraftAlone ==
    ASSUME DocumentsAssumption, DocumentInv, DraftOwners, NEW r \in Edits, Answers(r)
    PROVE  /\ req[r].user \in Users
           /\ \A v \in Users \ {req[r].user} : drafts'[v] = drafts[v]
           /\ \A u, v \in Users : drafts'[u].row = drafts'[v].row /\ drafts'[u].row # None
                => u = v
<1> DEFINE w == req[r].user
<1>1. w \in Users /\ drafts[w].row = req[r].row /\ req[r].op \in Asked
  BY DEF Answers, WriteDraft, DeleteDraft, VersionRefused, PublishDocument,
    RollbackToVersion, AddVersion, Asked, DocumentInv, DraftOwners
<1>2. None \notin Rows /\ \A v \in Users : drafts[v] \in DraftRow \cup {NoDraft}
  BY DEF DocumentsAssumption, DocumentInv
<1>3. \A v \in Users : drafts[v].row = req[r].row /\ req[r].row # None => v = w
  BY <1>1 DEF DraftOwners
<1>4. CASE UNCHANGED drafts
  BY <1>1, <1>4 DEF DraftOwners
<1>5. CASE DropDraft(req[r].row)
  <2>1. \A v \in Users : drafts'[v] = IF req[r].row # None /\ drafts[v].row = req[r].row
                                      THEN NoDraft ELSE drafts[v]
    BY <1>5 DEF DropDraft
  <2>2. NoDraft.row = None
    BY DEF NoDraft
  <2>3. \A v \in Users : drafts'[v].row = drafts[v].row \/ drafts'[v].row = None
    BY <2>1, <2>2
  <2> QED
    BY <1>1, <1>3, <2>1, <2>3 DEF DraftOwners
<1>6. CASE WriteDraft(r)
  <2>1. CASE req[r].row # None
    <3>1. \A v \in Users : drafts'[v] =
                 IF drafts[v].row = req[r].row
                 THEN [drafts[v] EXCEPT !.body = req[r].body] ELSE drafts[v]
      BY <1>6, <2>1 DEF WriteDraft
    <3>2. ASSUME NEW v \in Users PROVE drafts'[v].row = drafts[v].row
      <4>1. drafts[v].row = [drafts[v] EXCEPT !.body = req[r].body].row
        BY <1>2 DEF DraftRow, NoDraft
      <4> QED
        BY <3>1, <4>1
    <3>3. \A v \in Users \ {w} : drafts'[v] = drafts[v]
      BY <1>3, <2>1, <3>1
    <3> QED
      BY <1>1, <3>2, <3>3 DEF DraftOwners
  <2>2. CASE req[r].row = None /\ ~(UNCHANGED drafts)
    <3>1. PICK row \in Rows \ {drafts[v].row : v \in Users} :
            drafts' = [drafts EXCEPT ![w] = [row |-> row, body |-> req[r].body]]
      BY <1>6, <2>2 DEF WriteDraft
    <3>2. /\ drafts'[w] = [row |-> row, body |-> req[r].body]
          /\ \A v \in Users \ {w} : drafts'[v] = drafts[v]
      BY <1>1, <3>1 DEF DocumentInv
    <3>3. drafts'[w].row = row
      BY <3>2
    <3>4. \A v \in Users : drafts[v].row # row
      BY <3>1
    <3>5. ASSUME NEW u \in Users, NEW v \in Users,
                 drafts'[u].row = drafts'[v].row, drafts'[u].row # None
          PROVE  u = v
      BY <3>2, <3>3, <3>4, <3>5 DEF DraftOwners
    <3> QED
      BY <1>1, <3>2, <3>5
  <2> QED
    BY <1>4, <2>1, <2>2
<1> QED
  BY <1>4, <1>5, <1>6 DEF Answers, DeleteDraft, VersionRefused, PublishDocument,
    RollbackToVersion

LEMMA OwnersStep ==
    ASSUME DocumentsAssumption, DocumentInv, DraftOwners, OneEachNext
    PROVE  DraftOwners' /\ OnlyOwnDrafts
<1>1. PICK r \in Edits : Asks(r) \/ Answers(r)
  BY DEF DocumentsNext, OneEachNext
<1>2. OneEach'
  BY DEF OneEachNext
<1>3. CASE Asks(r)
  <2>1. /\ UNCHANGED drafts
        /\ req'[r].row = drafts[req'[r].user].row
        /\ \A q \in Edits \ {r} : req'[q] = req[q]
    BY <1>3, AskingKeeps
  <2>2. OnlyOwnDrafts
    BY <2>1 DEF OnlyOwnDrafts
  <2>3. \A q \in Edits : req'[q].op \in Asked => drafts'[req'[q].user].row = req'[q].row
    BY <2>1 DEF DraftOwners
  <2> QED
    BY <1>2, <2>1, <2>2, <2>3 DEF DraftOwners
<1>4. CASE Answers(r)
  <2> DEFINE w == req[r].user
  <2>1. /\ w \in Users
        /\ \A v \in Users \ {w} : drafts'[v] = drafts[v]
        /\ \A u, v \in Users : drafts'[u].row = drafts'[v].row /\ drafts'[u].row # None
                => u = v
    BY <1>4, OwnDraftAlone
  <2>2. EditDone(r) /\ req[r].op \in Asked /\ req[r].op # "none"
    BY <1>4 DEF Answers, WriteDraft, DeleteDraft, VersionRefused, PublishDocument,
      RollbackToVersion, AddVersion, Asked
  <2>3. req'[r] = Idle /\ req'[r].op \notin Asked /\ \A q \in Edits \ {r} : req'[q] = req[q]
    BY <2>2, AnsweringFrees
  <2>4. OnlyOwnDrafts
    BY <2>1, <2>3 DEF OnlyOwnDrafts, Owner
  <2>5. ASSUME NEW q \in Edits, req'[q].op \in Asked
        PROVE  drafts'[req'[q].user].row = req'[q].row
    <3>1. q # r /\ req'[q] = req[q]
      BY <2>3, <2>5
    <3>2. req[q].user # w /\ req[q].user \in Users
      BY <2>2, <2>5, <3>1 DEF DraftOwners, OneEach, DocumentInv
    <3> QED
      BY <2>1, <2>5, <3>1, <3>2 DEF DraftOwners
  <2> QED
    BY <1>2, <2>1, <2>4, <2>5 DEF DraftOwners
<1> QED
  BY <1>1, <1>3, <1>4

DocumentsKept ==
    /\ part \in DocumentParts => DocumentInv
    /\ part = "edits one each" => DraftOwners

\* There is no version, no draft and no request to begin with.
LEMMA DocumentsBegin == ASSUME DocumentsAssumption, WikiInit PROVE DocumentsKept
<1> SUFFICES ASSUME part \in DocumentParts PROVE DocumentInv /\ DraftOwners
  BY DEF DocumentsKept, DocumentParts
<1>1. DocumentsInit
  BY DEF WikiInit
<1>2. \A r \in Edits : req[r] = Idle /\ req[r].op \notin Asked /\ req[r].op = "none"
  BY <1>1 DEF DocumentsInit, Idle, Asked
<1>3. req \in [Edits -> EditRow]
  <2>1. Idle \in EditRow
    BY DEF Idle, EditRow
  <2> QED
    BY <1>1, <2>1 DEF DocumentsInit
<1>4. DocumentInv
  BY <1>1, <1>2, <1>3 DEF DocumentInv, DocumentsInit
<1>5. \A u \in Users : drafts[u].row = None
  BY <1>1 DEF DocumentsInit, NoDraft
<1> QED
  BY <1>2, <1>4, <1>5 DEF DraftOwners, OneEach

\* A step of the document part keeps it, and one of another part leaves it alone.
LEMMA DocumentsStay ==
    ASSUME DocumentsAssumption, DocumentsKept, [WikiNext]_<<parts, part>>
    PROVE  /\ DocumentsKept'
           /\ [part = "edits one each" => OnlyOwnDrafts]_docVars
<1>1. CASE UNCHANGED <<part, docVars>>
  BY <1>1 DEF DocumentsKept, DocumentInv, DraftOwners, OneEach, docVars
<1>2. CASE part \in DocumentParts /\ part' = part /\ (part = "edits" => DocumentsNext)
           /\ (part = "edits one each" => OneEachNext)
  <2>1. DocumentsNext
    BY <1>2 DEF DocumentParts, OneEachNext
  <2>2. DocumentInv'
    BY <1>2, <2>1, DocumentStep DEF DocumentsKept
  <2>3. part = "edits one each" => DraftOwners' /\ OnlyOwnDrafts
    BY <1>2, OwnersStep DEF DocumentsKept
  <2> QED
    BY <1>2, <2>2, <2>3 DEF DocumentsKept
<1>3. CASE part \notin DocumentParts /\ part' = part
  BY <1>3 DEF DocumentsKept, DocumentParts
<1> QED
  BY <1>1, <1>2, <1>3 DEF WikiNext, DocumentParts, ImportParts, parts, docVars

\* However publishes and rollbacks overlap, versions are numbered as they came and the
\* document shows the last (api/wiki/documents and wiki/documents/service.py).
THEOREM DocumentsStayInSequence == WikiSpec => []HistoryInSequence
<1>1. DocumentsKept => HistoryInSequence
  <2>1. DocumentInv => DOMAIN versions = 1 .. Len(versions)
    BY DEF DocumentInv
  <2> QED
    BY <2>1 DEF DocumentsKept, HistoryInSequence, DocumentInv, VersionsInSequence
<1> QED
  BY <1>1, DocumentsAssumption, DocumentsBegin, DocumentsStay, PTL DEF WikiSpec

\* While every user has at most one request under way, nobody's request touches the
\* draft of another user.
THEOREM DraftsStayOwn == WikiSpec => DraftsAreOwn
<1> QED
  BY DocumentsAssumption, DocumentsBegin, DocumentsStay, PTL DEF WikiSpec, DraftsAreOwn

-----------------------------------------------------------------------------
(* Ordering: the others keep their order *)

\* Among rows with numbers as orders, what comes before what is a strict order.
LEMMA PrecedingIsStrict ==
    ASSUME OrderingAssumption, OrderingTypeOK,
           NEW i \in Items, NEW j \in Items, NEW k \in Items
    PROVE  /\ ~Precedes(i, i)
           /\ Precedes(i, j) /\ Precedes(j, k) => Precedes(i, k)
<1>1. /\ place[i].order \in Nat /\ place[j].order \in Nat /\ place[k].order \in Nat
      /\ i \in Nat /\ j \in Nat /\ k \in Nat
  BY DEF OrderingAssumption, OrderingTypeOK
<1> QED
  BY <1>1 DEF Precedes

\* A rank is a number, and whoever comes before another has a smaller one.
LEMMA RanksFollowOrder ==
    ASSUME OrderingAssumption, OrderingTypeOK, NEW row \in SUBSET Items,
           NEW j \in row, NEW k \in row
    PROVE  /\ Rank(j, row) \in Nat
           /\ Precedes(j, k) => Rank(j, row) < Rank(k, row)
<1> DEFINE J == {x \in row : Precedes(x, j)}
<1> DEFINE K == {x \in row : Precedes(x, k)}
<1>1. IsFiniteSet(Items)
  BY DEF OrderingAssumption
<1>2. IsFiniteSet(J) /\ IsFiniteSet(K)
  BY <1>1, FS_Subset
<1>3. Cardinality(J) \in Nat /\ Cardinality(K) \in Nat
  BY <1>2, FS_CardinalityType
<1>4. ASSUME Precedes(j, k) PROVE Cardinality(J) < Cardinality(K)
  <2>1. J \subseteq K
    <3>1. \A x \in row : Precedes(x, j) => Precedes(x, k)
      BY <1>4, PrecedingIsStrict
    <3> QED
      BY <3>1
  <2>2. j \in K /\ j \notin J
    BY <1>4, PrecedingIsStrict
  <2>3. Cardinality(J) <= Cardinality(K) /\ (Cardinality(K) = Cardinality(J) => K = J)
    BY <1>2, <2>1, FS_Subset
  <2> QED
    BY <1>3, <2>2, <2>3
<1> QED
  BY <1>3, <1>4 DEF Rank

OrderRow == [folder : Folders \cup {None}, order : Nat, active : BOOLEAN]

\* The row a move leaves of an item, and where the items it passes go.
LEMMA MovingKeepsOthers ==
    ASSUME OrderingAssumption, OrderingTypeOK, NEW i \in Items, NEW f \in Folders,
           NEW index \in Int, Move(i, f, index)
    PROVE  /\ OrderingTypeOK'
           /\ \A j, k \in Items \ {i} :
                /\ place[j].active /\ place[k].active /\ place[j].folder = place[k].folder
                /\ Precedes(j, k)
                => Precedes(j, k)'
<1> DEFINE others == Children(f) \ {i}
           left == Children(place[i].folder) \ {i}
           at == Clamp(index, Cardinality(others))
           order(j) == IF j = i THEN at
                    ELSE IF j \in others
                         THEN Rank(j, others) + (IF Rank(j, others) >= at THEN 1 ELSE 0)
                    ELSE IF j \in left THEN Rank(j, left)
                    ELSE place[j].order
<1>1. place' = [j \in Items |->
            [place[j] EXCEPT !.order = order(j),
                             !.folder = IF j = i THEN f ELSE @]]
  BY DEF Move
<1>2. others \in SUBSET Items /\ left \in SUBSET Items
  BY DEF Children
<1>3. at \in Nat
  <2>1. Cardinality(others) \in Nat
    BY <1>2, FS_Subset, FS_CardinalityType DEF OrderingAssumption
  <2> QED
    BY <2>1 DEF Clamp
<1>4. \A j \in Items : place[j] \in OrderRow
  BY DEF OrderingTypeOK, OrderRow
<1> HIDE DEF at
<1>5. ASSUME NEW j \in Items PROVE order(j) \in Nat
  <2>1. j \in others => Rank(j, others) \in Nat
    BY <1>2, RanksFollowOrder
  <2>2. j \in left => Rank(j, left) \in Nat
    BY <1>2, RanksFollowOrder
  <2>3. place[j].order \in Nat
    BY <1>4 DEF OrderRow
  <2> QED
    BY <1>3, <2>1, <2>2, <2>3
<1>6. ASSUME NEW j \in Items, NEW k \in Items, j # i, k # i,
             place[j].active, place[k].active, place[j].folder = place[k].folder,
             Precedes(j, k)
      PROVE  order(j) < order(k) \/ (order(j) = place[j].order /\ order(k) = place[k].order)
  <2>1. (j \in others <=> k \in others) /\ (j \in left <=> k \in left)
    BY <1>6 DEF Children
  <2>2. CASE j \in others
    <3>1. /\ Rank(j, others) \in Nat /\ Rank(k, others) \in Nat
          /\ Rank(j, others) < Rank(k, others)
      BY <1>2, <1>6, <2>1, <2>2, RanksFollowOrder
    <3>2. /\ order(j) = Rank(j, others) + (IF Rank(j, others) >= at THEN 1 ELSE 0)
          /\ order(k) = Rank(k, others) + (IF Rank(k, others) >= at THEN 1 ELSE 0)
      BY <1>6, <2>1, <2>2
    <3> HIDE DEF order, others
    <3> QED
      BY <1>3, <3>1, <3>2
  <2>3. CASE j \notin others /\ j \in left
    <3>1. Rank(j, left) < Rank(k, left)
      BY <1>2, <1>6, <2>1, <2>3, RanksFollowOrder
    <3>2. order(j) = Rank(j, left) /\ order(k) = Rank(k, left)
      BY <1>6, <2>1, <2>3
    <3> QED
      BY <3>1, <3>2
  <2>4. CASE j \notin others /\ j \notin left
    BY <1>6, <2>1, <2>4
  <2> QED
    BY <2>2, <2>3, <2>4
<1> HIDE DEF order, others, left
<1>7. ASSUME NEW j \in Items
      PROVE  place'[j] \in OrderRow /\ place'[j].order = order(j)
  <2>1. place'[j] = [place[j] EXCEPT !.order = order(j), !.folder = IF j = i THEN f ELSE @]
    BY <1>1
  <2> QED
    BY <1>4, <1>5, <2>1 DEF OrderRow
<1>8. OrderingTypeOK'
  <2>1. place' \in [Items -> OrderRow]
    BY <1>1, <1>7
  <2> QED
    BY <2>1 DEF OrderingTypeOK, OrderRow
<1>9. ASSUME NEW j \in Items \ {i}, NEW k \in Items \ {i},
             place[j].active, place[k].active, place[j].folder = place[k].folder,
             Precedes(j, k)
      PROVE  Precedes(j, k)'
  <2>1. order(j) < order(k) \/ (order(j) = place[j].order /\ order(k) = place[k].order)
    BY <1>6, <1>9
  <2> QED
    BY <1>7, <1>9, <2>1 DEF Precedes
<1> QED
  BY <1>8, <1>9

LEMMA OrderingStep ==
    ASSUME OrderingAssumption, OrderingTypeOK, OrderingNext
    PROVE  OrderingTypeOK' /\ OthersKeepOrder
<1>1. \A j \in Items : place[j] \in OrderRow
  BY DEF OrderingTypeOK, OrderRow
<1>2. ASSUME NEW i \in Items, place' \in [Items -> OrderRow],
             \A j \in Items \ {i} : place'[j] = place[j]
      PROVE  OrderingTypeOK' /\ OthersKeepOrder
  <2>1. \A j, k \in Items \ {i} : Precedes(j, k) => Precedes(j, k)'
    BY <1>2 DEF Precedes
  <2> QED
    BY <1>2, <2>1 DEF OrderingTypeOK, OrderRow, OthersKeepOrder
<1>3. ASSUME NEW i \in Items, Toggle(i) PROVE OrderingTypeOK' /\ OthersKeepOrder
  <2>1. /\ place' = [place EXCEPT ![i].active = ~@]
        /\ [place[i] EXCEPT !.active = ~@] \in OrderRow
    BY <1>1, <1>3 DEF Toggle, OrderRow
  <2> QED
    BY <1>2, <2>1 DEF OrderingTypeOK, OrderRow
<1>4. ASSUME NEW i \in Items, NEW f \in Folders, Create(i, f)
      PROVE  OrderingTypeOK' /\ OthersKeepOrder
  <2>1. /\ place' = [place EXCEPT ![i] = [folder |-> f, order |-> 0, active |-> TRUE]]
        /\ [folder |-> f, order |-> 0, active |-> TRUE] \in OrderRow
    BY <1>4 DEF Create, OrderRow
  <2> QED
    BY <1>2, <2>1 DEF OrderingTypeOK, OrderRow
<1>5. ASSUME NEW i \in Items, NEW f \in Folders, NEW order \in 0 .. 1, Put(i, f, order)
      PROVE  OrderingTypeOK' /\ OthersKeepOrder
  <2>1. place' = [place EXCEPT ![i].folder = f, ![i].order = order]
    BY <1>5 DEF Put
  <2>2. place' = [place EXCEPT ![i] = [place[i] EXCEPT !.folder = f, !.order = order]]
    BY <2>1 DEF OrderingTypeOK
  <2>3. [place[i] EXCEPT !.folder = f, !.order = order] \in OrderRow
    <3>1. order \in Nat /\ place[i] \in OrderRow
      BY <1>1
    <3>2. \A n \in Nat, row \in OrderRow : [row EXCEPT !.folder = f, !.order = n] \in OrderRow
      BY DEF OrderRow
    <3> QED
      BY <3>1, <3>2
  <2> QED
    BY <1>2, <2>2, <2>3 DEF OrderingTypeOK, OrderRow
<1>6. ASSUME NEW i \in Items, NEW f \in Folders, NEW index \in -1 .. Cardinality(Items),
             Move(i, f, index)
      PROVE  OrderingTypeOK' /\ OthersKeepOrder
  <2>1. index \in Int
    OBVIOUS
  <2> QED
    BY <1>6, <2>1, MovingKeepsOthers DEF OthersKeepOrder
<1> QED
  BY <1>3, <1>4, <1>5, <1>6 DEF OrderingNext

OrderingKept == part = "order" => OrderingTypeOK

LEMMA OrderingBegin == ASSUME WikiInit PROVE OrderingKept
<1> SUFFICES ASSUME part = "order" PROVE OrderingTypeOK
  BY DEF OrderingKept
<1>1. place = [i \in Items |-> Free]
  BY DEF WikiInit, OrderingInit
<1> QED
  BY <1>1 DEF OrderingTypeOK, Free

LEMMA OrderingStays ==
    ASSUME OrderingAssumption, OrderingKept, [WikiNext]_<<parts, part>>
    PROVE  /\ OrderingKept'
           /\ [part = "order" => OthersKeepOrder]_place
<1>1. CASE UNCHANGED <<part, place>>
  BY <1>1 DEF OrderingKept, OrderingTypeOK
<1>2. CASE part = "order" /\ part' = part /\ OrderingNext
  BY <1>2, OrderingStep DEF OrderingKept
<1>3. CASE part # "order" /\ part' = part
  BY <1>3 DEF OrderingKept
<1> QED
  BY <1>1, <1>2, <1>3 DEF WikiNext, parts

\* Moving a sibling keeps the order of the others (wiki/tree/ordering.py).
THEOREM OrderStaysKept == WikiSpec => OrderIsKept
<1> QED
  BY OrderingAssumption, OrderingBegin, OrderingStays, PTL DEF WikiSpec, OrderIsKept

-----------------------------------------------------------------------------
(* The workspace: what opencode reads *)

PaperRow == [dir : Dirs, leaf : Labels, text : 0 .. MaxTexts, live : BOOLEAN]
PageRow == Papers \X (1 .. MaxTexts)
WikiRow == [dir : Dirs, folder : BOOLEAN, active : BOOLEAN, report : 1 .. MaxTexts,
            rows : [Papers -> PaperRow \cup {NoPaper}]]

WorkspaceShape ==
    /\ wiki \in [dir : Dirs, folder : BOOLEAN, active : BOOLEAN, report : 1 .. MaxTexts,
                 rows : [Papers -> PaperRow \cup {NoPaper}]]
    /\ shelf \in [files : [Spots -> PageRow \cup {None}], reports : 0 .. MaxTexts,
                  count : {None} \cup 0 .. Cardinality(Papers)]
    /\ told \in [Changers -> EventRow \cup {None}]
    /\ past \in [changes : 0 .. MaxChanges,
                 seen : SUBSET {"overlap", "crossed", "lost", "dragged"}]

\* What the projector still has to be told, and what of it.
Due(r) == told[r] # None
Single(e) == ~e.wide /\ e.ids # {}
FirstMove(e) == e.kind = "moved" /\ ~e.moved /\ ~Nothing(e)
Rereads == {"published", "restored", "moved"}

\* Documents that are there are in the folder, each at a path of its own.
Housed ==
    /\ \A d \in Live : wiki.folder /\ wiki.rows[d].dir = wiki.dir
    /\ \A d, e \in Live : Spot(d) = Spot(e) => d = e

\* What an event says is of its kind.
EventShape(e) ==
    /\ e.kind = "moved" /\ e.wide =>
         \E a, b \in Dirs : a # b /\ e.old = <<a>> /\ e.new = <<b>>
    /\ e.kind = "moved" /\ Single(e) =>
         e.old \in Spots /\ e.new \in Spots /\ e.old # e.new /\ \E d \in Papers : e.ids = {d}
    /\ e.kind = "deleted" /\ Single(e) => e.old \in Spots
    /\ e.wide => e.ids # {}

Lossless == "lost" \notin past.seen
Calm == past.seen \subseteq {"overlap"}

\* The manifest is right, or a call that writes it is to come.
CountSettles == Lossless =>
    \/ shelf.count = Counted
    \/ \E r \in Changers : Due(r) /\ ~Nothing(told[r])

\* The files of an archived feature are gone, or the call that removes them is to come.
ArchiveSettles == Lossless /\ ~wiki.active =>
    \/ shelf.files = NoFiles /\ shelf.reports = 0
    \/ \E r \in Changers : Due(r) /\ told[r].kind = "archived"

\* Where the file at a path belongs: to another one while a move is half done.
Shift(e, p) ==
    IF e.wide THEN IF p[1] = e.old[1] THEN <<e.new[1], p[2]>> ELSE p
    ELSE IF p = e.old THEN e.new ELSE p
BelongsAt(d, p) ==
    \/ Spot(d) = p /\ \A r \in Changers : Due(r) => ~FirstMove(told[r])
    \/ \E r \in Changers : Due(r) /\ FirstMove(told[r]) /\ Spot(d) = Shift(told[r], p)

\* A file is that of a document that is there, with its last text, at its path; what
\* is not so yet is about to be.
FileSettles(d, p) ==
    /\ wiki.active \/ \E r \in Changers : Due(r) /\ told[r].kind = "archived"
    /\ BelongsAt(d, p)
    /\ \/ shelf.files[p] = Page(d)
       \/ \E r \in Changers : Due(r) /\ told[r].kind = "published" /\ d \in told[r].ids
    /\ \/ wiki.rows[d].live
       \/ \E r \in Changers : Due(r) /\ told[r].kind = "deleted" /\ d \in told[r].ids
FilesSettle == Calm =>
    \A p \in Spots : shelf.files[p] # None => FileSettles(shelf.files[p][1], p)

\* A move that did not cross another request is alone.
MovesAlone == Calm =>
    \A r, s \in Changers : Due(r) /\ Due(s) /\ told[r].kind = "moved" => r = s
DeletedWhere == Calm => \A r \in Changers :
    Due(r) /\ told[r].kind = "deleted" /\ Single(told[r]) =>
      \A d \in told[r].ids : Spot(d) = told[r].old

\* When nothing has overlapped, one request at most is under way, and what the
\* workspace lacks is what it is about to write.
OneAtATime == past.seen = {} => \A r, s \in Changers : Due(r) /\ Due(s) => r = s
ShownSettles == past.seen = {} /\ wiki.active => \A d \in Papers : Shown(d) =>
    \/ shelf.files[Spot(d)] = Page(d)
    \/ \E r \in Changers : Due(r) /\
         \/ told[r].kind = "unarchived"
         \/ told[r].kind \in Rereads /\ d \in told[r].ids
ReportsSettle == past.seen = {} =>
    \/ shelf.reports = ExportedReports
    \/ \E r \in Changers : Due(r) /\ told[r].kind \in {"report", "archived", "unarchived"}
EventSole(e) ==
    /\ e.kind \in Rereads => e.ids \subseteq Live
    /\ e.kind = "moved" /\ e.wide => Live \subseteq e.ids
    /\ e.kind = "moved" /\ Single(e) =>
         \A d \in Live : Spot(d) \in {e.old, e.new} => d \in e.ids
    /\ e.kind = "deleted" /\ e.wide => Live = {}
    /\ e.kind = "deleted" /\ Single(e) => \A d \in Live : Spot(d) # e.old
    /\ e.kind = "archived" => ~wiki.active
SoleSettles == past.seen = {} => \A r \in Changers : Due(r) => EventSole(told[r])

EventsShaped == \A r \in Changers : Due(r) => EventShape(told[r])

WorkspaceInv ==
    /\ WorkspaceShape /\ Housed /\ EventsShaped
    /\ CountSettles /\ ArchiveSettles
    /\ FilesSettle /\ MovesAlone /\ DeletedWhere
    /\ OneAtATime /\ ShownSettles /\ ReportsSettle /\ SoleSettles

-----------------------------------------------------------------------------
(* What an export makes, and what it shows when all is settled *)

\* None is no page, number, directory or event.
LEMMA NoneIsNothing ==
    ASSUME WorkspaceAssumption
    PROVE  /\ None \notin PageRow /\ None \notin Nat /\ None \notin Dirs
           /\ None \notin EventRow
BY DEF WorkspaceAssumption, PageRow

\* The shape of a row, and a page that is shown.
LEMMA RowsFit ==
    ASSUME WorkspaceAssumption, wiki \in WikiRow, NEW d \in Papers
    PROVE  /\ wiki.rows[d] \in PaperRow \cup {NoPaper}
           /\ wiki.rows[d].live => wiki.rows[d] \in PaperRow
           /\ wiki.rows[d] \in PaperRow => Spot(d) \in Spots
           /\ wiki.rows[d] = NoPaper => Spot(d) \notin Spots /\ ~wiki.rows[d].live
           /\ wiki.rows[d].text \in 0 .. MaxTexts
           /\ wiki.rows[d].live \in BOOLEAN
           /\ Shown(d) => Page(d) \in PageRow /\ Spot(d) \in Spots /\ d \in Live
           /\ Page(d)[1] = d
<1>1. wiki.rows[d] \in PaperRow \cup {NoPaper}
  BY DEF WikiRow
<1>2. /\ NoPaper.live = FALSE /\ NoPaper.text = 0 /\ NoPaper.dir = None
      /\ NoPaper.leaf = None
  BY DEF NoPaper
<1>3. wiki.rows[d].live => wiki.rows[d] \in PaperRow
  BY <1>1, <1>2
<1>4. wiki.rows[d] \in PaperRow => Spot(d) \in Spots
  BY DEF Spot, Spots, PaperRow
<1>5. wiki.rows[d] = NoPaper => Spot(d) \notin Spots /\ ~wiki.rows[d].live
  BY <1>2, NoneIsNothing DEF Spot, Spots
<1>6. wiki.rows[d].text \in 0 .. MaxTexts /\ wiki.rows[d].live \in BOOLEAN
  <2>1. 0 \in 0 .. MaxTexts
    BY DEF WorkspaceAssumption
  <2>2. \A row \in PaperRow : row.text \in 0 .. MaxTexts /\ row.live \in BOOLEAN
    BY DEF PaperRow
  <2> QED
    BY <1>1, <1>2, <2>1, <2>2
<1>7. Shown(d) => Page(d) \in PageRow
  BY <1>6 DEF Shown, Page, PageRow, WorkspaceAssumption
<1>8. Page(d)[1] = d
  BY DEF Page
<1> QED
  BY <1>1, <1>3, <1>4, <1>5, <1>6, <1>7, <1>8 DEF Shown, Live

\* The same of a workspace that has its shape.
LEMMA RowsShaped ==
    ASSUME WorkspaceAssumption, WorkspaceShape, NEW d \in Papers
    PROVE  /\ wiki.rows[d] \in PaperRow \cup {NoPaper}
           /\ wiki.rows[d].live => wiki.rows[d] \in PaperRow
           /\ wiki.rows[d] \in PaperRow => Spot(d) \in Spots
           /\ wiki.rows[d] = NoPaper => Spot(d) \notin Spots /\ ~wiki.rows[d].live
           /\ wiki.rows[d].text \in 0 .. MaxTexts
           /\ wiki.rows[d].live \in BOOLEAN
           /\ Shown(d) => Page(d) \in PageRow /\ Spot(d) \in Spots /\ d \in Live
           /\ Page(d)[1] = d
BY RowsFit DEF WorkspaceShape, WikiRow

\* An export shows each document that is shown at its path, and nothing else.
LEMMA ExportFits ==
    ASSUME WorkspaceAssumption, wiki \in WikiRow, Housed
    PROVE  /\ Exported \in [Spots -> PageRow \cup {None}]
           /\ \A d \in Papers : wiki.active /\ Shown(d) => Exported[Spot(d)] = Page(d)
           /\ \A p \in Spots : Exported[p] # None =>
                wiki.active /\ \E d \in Papers : Shown(d) /\ Spot(d) = p /\ Exported[p] = Page(d)
           /\ Counted \in 0 .. Cardinality(Papers)
           /\ ExportedReports \in 0 .. MaxTexts
<1>1. ASSUME NEW p \in Spots
      PROVE  IF wiki.active /\ \E d \in Papers : Shown(d) /\ Spot(d) = p
             THEN \E d \in Papers : Shown(d) /\ Spot(d) = p /\ Exported[p] = Page(d)
             ELSE Exported[p] = None
  <2> DEFINE c == CHOOSE d \in Papers : Shown(d) /\ Spot(d) = p
  <2>1. (\E d \in Papers : Shown(d) /\ Spot(d) = p) => c \in Papers /\ Shown(c) /\ Spot(c) = p
    OBVIOUS
  <2>2. Exported[p] = IF wiki.active /\ \E d \in Papers : Shown(d) /\ Spot(d) = p
                      THEN Page(c) ELSE None
    BY DEF Exported
  <2> HIDE DEF c
  <2> QED
    BY <2>1, <2>2
<1>2. \A p \in Spots : Exported[p] \in PageRow \cup {None}
  BY <1>1, RowsFit
<1>3. Exported \in [Spots -> PageRow \cup {None}]
  <2>1. Exported = [p \in Spots |-> Exported[p]]
    BY DEF Exported
  <2> QED
    BY <1>2, <2>1
<1>4. ASSUME NEW d \in Papers, wiki.active, Shown(d) PROVE Exported[Spot(d)] = Page(d)
  <2>1. Spot(d) \in Spots /\ d \in Live
    BY <1>4, RowsFit
  <2>2. PICK e \in Papers : Shown(e) /\ Spot(e) = Spot(d) /\ Exported[Spot(d)] = Page(e)
    BY <1>1, <1>4, <2>1
  <2>3. e \in Live
    BY <2>2, RowsFit
  <2> QED
    BY <2>1, <2>2, <2>3 DEF Housed
<1>5. Counted \in 0 .. Cardinality(Papers)
  <2>1. /\ IsFiniteSet({d \in Papers : Shown(d)})
        /\ Cardinality({d \in Papers : Shown(d)}) <= Cardinality(Papers)
    BY FS_Subset DEF WorkspaceAssumption
  <2>2. Cardinality({d \in Papers : Shown(d)}) \in Nat /\ Cardinality(Papers) \in Nat
    BY <2>1, FS_CardinalityType DEF WorkspaceAssumption
  <2> QED
    BY <2>1, <2>2 DEF Counted
<1>6. ExportedReports \in 0 .. MaxTexts
  BY DEF ExportedReports, WikiRow, WorkspaceAssumption
<1> QED
  BY <1>1, <1>3, <1>4, <1>5, <1>6

\* The same of a workspace that has its shape.
LEMMA ExportPointwise ==
    ASSUME WorkspaceAssumption, WorkspaceShape, Housed
    PROVE  /\ Exported \in [Spots -> PageRow \cup {None}]
           /\ \A d \in Papers : wiki.active /\ Shown(d) => Exported[Spot(d)] = Page(d)
           /\ \A p \in Spots : Exported[p] # None =>
                wiki.active /\ \E d \in Papers : Shown(d) /\ Spot(d) = p /\ Exported[p] = Page(d)
           /\ Counted \in 0 .. Cardinality(Papers)
           /\ ExportedReports \in 0 .. MaxTexts
BY ExportFits DEF WorkspaceShape, WikiRow

\* A workspace that has just been exported, with nobody under way, has all that is
\* asked of it, whatever came before.
LEMMA ExportSettles ==
    ASSUME WorkspaceAssumption, WorkspaceShape, Housed, Quiet, shelf = Export
    PROVE  WorkspaceInv
<1>1. \A r \in Changers : ~Due(r)
  BY DEF Quiet, Due
<1>2. shelf.files = Exported /\ shelf.reports = ExportedReports /\ shelf.count = Counted
  BY DEF Export
<1>3. FilesSettle
  <2> SUFFICES ASSUME NEW p \in Spots, shelf.files[p] # None
               PROVE  FileSettles(shelf.files[p][1], p)
    BY DEF FilesSettle
  <2>1. PICK d \in Papers : Shown(d) /\ Spot(d) = p /\ Exported[p] = Page(d) /\ wiki.active
    BY <1>2, ExportPointwise
  <2>2. shelf.files[p][1] = d
    BY <1>2, <2>1, RowsShaped
  <2> QED
    BY <1>1, <1>2, <2>1, <2>2 DEF FileSettles, BelongsAt, Shown
<1>4. ShownSettles
  BY <1>2, ExportPointwise DEF ShownSettles
<1>5. ArchiveSettles
  <2>1. ~wiki.active => shelf.files = NoFiles /\ shelf.reports = 0
    BY <1>2 DEF Exported, NoFiles, ExportedReports
  <2> QED
    BY <2>1 DEF ArchiveSettles
<1> QED
  BY <1>1, <1>2, <1>3, <1>4, <1>5 DEF WorkspaceInv, CountSettles, MovesAlone, DeletedWhere,
    OneAtATime, ReportsSettle, SoleSettles, EventsShaped

\* The same of the state after a step.
LEMMA ExportSettlesAfter ==
    ASSUME WorkspaceAssumption
    PROVE  (WorkspaceShape /\ Housed /\ Quiet /\ shelf = Export => WorkspaceInv)'
<1>1. WorkspaceShape /\ Housed /\ Quiet /\ shelf = Export => WorkspaceInv
  BY ExportSettles
<1> QED
  BY <1>1, PTL

\* What the invariant says when nobody is under way.
LEMMA SettledFollows ==
    ASSUME WorkspaceAssumption, WorkspaceInv
    PROVE  ManifestCounts /\ MirrorsTree /\ FilesAreCurrent /\ ArchivedLeavesNothing
<1>1. Quiet => \A r \in Changers : ~Due(r)
  BY DEF Quiet, Due
<1>2. ManifestCounts
  BY <1>1 DEF ManifestCounts, WorkspaceInv, CountSettles, Lossless
<1>3. ArchivedLeavesNothing
  BY <1>1 DEF ArchivedLeavesNothing, WorkspaceInv, ArchiveSettles, Lossless
<1>4. ASSUME Quiet, Calm, NEW p \in Spots, shelf.files[p] # None
      PROVE  wiki.active /\ \E d \in Live : Spot(d) = p /\ shelf.files[p] = Page(d)
  <2> DEFINE d == shelf.files[p][1]
  <2>1. FileSettles(d, p)
    BY <1>4 DEF WorkspaceInv, FilesSettle
  <2>2. d \in Papers
    BY <1>4 DEF WorkspaceInv, WorkspaceShape, PageRow
  <2> QED
    BY <1>1, <1>4, <2>1, <2>2 DEF FileSettles, BelongsAt, Live
<1>5. FilesAreCurrent
  BY <1>4 DEF FilesAreCurrent, Calm
<1>6. ASSUME Quiet, past.seen = {} PROVE shelf = Export
  <2>1. Calm /\ Lossless
    BY <1>6 DEF Calm, Lossless
  <2>2. shelf.count = Counted /\ shelf.reports = ExportedReports
    BY <1>1, <1>6, <2>1 DEF WorkspaceInv, CountSettles, ReportsSettle
  <2>3. ASSUME NEW p \in Spots PROVE shelf.files[p] = Exported[p]
    <3>0. WorkspaceShape /\ Housed
      BY DEF WorkspaceInv
    <3>1. CASE shelf.files[p] # None
      <4>1. PICK d \in Live : Spot(d) = p /\ shelf.files[p] = Page(d)
        BY <1>4, <1>6, <2>1, <3>1
      <4>2. wiki.active
        BY <1>4, <1>6, <2>1, <3>1
      <4>3. Shown(d)
        <5>1. Page(d) \in PageRow /\ wiki.rows[d].live /\ d \in Papers
          BY <3>1, <4>1 DEF WorkspaceInv, WorkspaceShape, Live
        <5>2. wiki.rows[d].text \in 1 .. MaxTexts
          BY <5>1 DEF Page, PageRow
        <5> QED
          BY <5>1, <5>2 DEF Shown, WorkspaceAssumption
      <4> QED
        BY <3>0, <4>1, <4>2, <4>3, ExportPointwise DEF Live
    <3>2. CASE shelf.files[p] = None /\ Exported[p] # None
      <4>1. PICK d \in Papers : Shown(d) /\ Spot(d) = p /\ Exported[p] = Page(d) /\ wiki.active
        BY <3>0, <3>2, ExportPointwise
      <4>2. shelf.files[p] = Page(d)
        BY <1>1, <1>6, <4>1 DEF WorkspaceInv, ShownSettles
      <4> QED
        BY <3>2, <4>1, <4>2
    <3> QED
      BY <3>1, <3>2
  <2>4. shelf.files = Exported
    <3>1. shelf.files \in [Spots -> PageRow \cup {None}]
      BY DEF WorkspaceInv, WorkspaceShape
    <3>2. Exported \in [Spots -> PageRow \cup {None}]
      BY ExportPointwise DEF WorkspaceInv
    <3> QED
      BY <2>3, <3>1, <3>2
  <2>5. shelf = [files |-> shelf.files, reports |-> shelf.reports, count |-> shelf.count]
    BY DEF WorkspaceInv, WorkspaceShape
  <2> QED
    BY <2>2, <2>4, <2>5 DEF Export
<1>7. MirrorsTree
  BY <1>6 DEF MirrorsTree
<1> QED
  BY <1>2, <1>3, <1>5, <1>7
-----------------------------------------------------------------------------
(* Requests that commit *)

\* What a commit writes, and what it says of other requests.
LEMMA CommitFrame ==
    ASSUME WorkspaceAssumption, WorkspaceShape, NEW r \in Changers, NEW new,
           NEW e \in EventRow, NEW beside \in SUBSET {"overlap", "dragged"},
           Commit(r, new, e, beside)
    PROVE  /\ wiki' = new /\ shelf' = shelf /\ ~Due(r)
           /\ told' \in [Changers -> EventRow \cup {None}]
           /\ told'[r] = e /\ e # None /\ \A s \in Changers \ {r} : told'[s] = told[s]
           /\ past' \in [changes : 0 .. MaxChanges,
                         seen : SUBSET {"overlap", "crossed", "lost", "dragged"}]
           /\ past.seen \subseteq past'.seen
           /\ past'.seen = {} => past.seen = {} /\ Quiet /\ beside = {}
           /\ past'.seen \subseteq {"overlap"} =>
                /\ Calm /\ beside \subseteq {"overlap"}
                /\ Quiet \/ (e.kind # "moved" /\ ~Moving)
<1>1. /\ wiki' = new /\ shelf' = shelf /\ told[r] = None
      /\ told' = [told EXCEPT ![r] = e] /\ past.changes < MaxChanges
  BY DEF Commit
<1> DEFINE extra == IF Quiet THEN {}
                    ELSE IF e.kind = "moved" \/ Moving THEN {"overlap", "crossed"}
                    ELSE {"overlap"}
<1>2. past' = [changes |-> past.changes + 1, seen |-> past.seen \cup beside \cup extra]
  BY DEF Commit
<1>3. extra \subseteq {"overlap", "crossed"} /\ (~Quiet => "overlap" \in extra)
      /\ (~Quiet /\ (e.kind = "moved" \/ Moving) => "crossed" \in extra)
  OBVIOUS
<1> HIDE DEF extra
<1>4. past.changes \in 0 .. MaxChanges /\ MaxChanges \in Nat
      /\ past.seen \in SUBSET {"overlap", "crossed", "lost", "dragged"}
  BY DEF WorkspaceShape, WorkspaceAssumption
<1>5. past'.seen = past.seen \cup beside \cup extra
  BY <1>2
<1>6. past' \in [changes : 0 .. MaxChanges,
                 seen : SUBSET {"overlap", "crossed", "lost", "dragged"}]
  <2>1. past.changes + 1 \in 0 .. MaxChanges
    BY <1>1, <1>4
  <2>2. past.seen \cup beside \cup extra \in SUBSET {"overlap", "crossed", "lost", "dragged"}
    BY <1>3, <1>4
  <2> QED
    BY <1>2, <2>1, <2>2
<1>7. told' \in [Changers -> EventRow \cup {None}] /\ told'[r] = e
      /\ \A s \in Changers \ {r} : told'[s] = told[s]
  BY <1>1 DEF WorkspaceShape
<1>8. past'.seen \subseteq {"overlap"} => Calm /\ beside \subseteq {"overlap"}
  BY <1>5 DEF Calm
<1>9. past'.seen \subseteq {"overlap"} => Quiet \/ (e.kind # "moved" /\ ~Moving)
  <2>1. "crossed" \in extra => ~(past'.seen \subseteq {"overlap"})
    BY <1>5
  <2> QED
    BY <1>3, <2>1
<1>10. past'.seen = {} => past.seen = {} /\ Quiet /\ beside = {}
  BY <1>3, <1>5
<1>11. e # None
  BY NoneIsNothing
<1> QED
  BY <1>1, <1>5, <1>6, <1>7, <1>8, <1>9, <1>10, <1>11 DEF Due

\* The path a file belongs at is a path.
LEMMA ShiftedIsSpot ==
    ASSUME NEW e \in EventRow, EventShape(e), FirstMove(e), NEW p \in Spots
    PROVE  Shift(e, p) \in Spots
<1>1. e.wide \in BOOLEAN
  BY DEF EventRow
<1>2. CASE e.wide
  <2>1. PICK a, b \in Dirs : e.old = <<a>> /\ e.new = <<b>>
    BY <1>2 DEF EventShape, FirstMove
  <2>2. p[1] \in Dirs /\ p[2] \in Labels
    BY DEF Spots
  <2>3. e.new[1] = b
    BY <2>1
  <2>4. <<e.new[1], p[2]>> \in Spots
    BY <2>2, <2>3 DEF Spots
  <2> QED
    BY <1>2, <2>4 DEF Shift
<1>3. CASE ~e.wide
  <2>1. e.new \in Spots
    BY <1>3 DEF EventShape, FirstMove, Single, Nothing
  <2> QED
    BY <1>3, <2>1 DEF Shift
<1> QED
  BY <1>2, <1>3

\* The document of a file has a row.
LEMMA FileHasRow ==
    ASSUME WorkspaceAssumption, WorkspaceInv, NEW p \in Spots, NEW d \in Papers,
           BelongsAt(d, p)
    PROVE  wiki.rows[d] # NoPaper
<1>1. Spot(d) \in Spots
  <2>1. ASSUME NEW r \in Changers, Due(r), FirstMove(told[r])
        PROVE  Shift(told[r], p) \in Spots
    BY <2>1, ShiftedIsSpot DEF WorkspaceInv, WorkspaceShape, EventsShaped, Due
  <2> QED
    BY <2>1 DEF BelongsAt
<1> QED
  BY <1>1, RowsShaped DEF WorkspaceInv

\* A commit keeps what is promised if it keeps rows apart, tells what it did, and
\* what it did is of its kind.
LEMMA CommitKeeps ==
    ASSUME WorkspaceAssumption, WorkspaceInv, NEW r \in Changers, NEW new \in WikiRow,
           NEW e \in EventRow, NEW beside \in SUBSET {"overlap", "dragged"},
           Commit(r, new, e, beside),
           Housed', EventShape(e), ~e.moved,
           Nothing(e) => Counted' = Counted,
           \/ wiki'.active = wiki.active
           \/ e.kind = "archived"
           \/ e.kind = "unarchived" /\ wiki'.active,
           \/ ExportedReports' = ExportedReports
           \/ e.kind \in {"report", "archived", "unarchived"},
           e.kind # "moved" =>
             \A d \in Papers : wiki.rows[d] # NoPaper => Spot(d)' = Spot(d),
           \A d \in Papers : wiki.rows[d] # NoPaper =>
             Page(d)' = Page(d) \/ (e.kind = "published" /\ d \in e.ids),
           \A d \in Live : wiki'.rows[d].live \/ (e.kind = "deleted" /\ d \in e.ids),
           e.kind = "deleted" /\ Single(e) => \A d \in e.ids : Spot(d)' = e.old,
           beside = {} => EventSole(e)',
           beside = {} => \A d \in Papers : Shown(d)' /\ wiki'.active =>
             \/ e.kind = "unarchived"
             \/ e.kind \in Rereads /\ d \in e.ids
             \/ Shown(d) /\ wiki.active /\ Spot(d)' = Spot(d) /\ Page(d)' = Page(d),
           e.kind = "moved" /\ beside \subseteq {"overlap"} =>
             \A d \in Live : Spot(d)' = IF FirstMove(e) THEN Shift(e, Spot(d)) ELSE Spot(d)
    PROVE  WorkspaceInv'
<1> USE DEF WorkspaceInv
<1>1. /\ wiki' = new /\ shelf' = shelf /\ ~Due(r)
      /\ told' \in [Changers -> EventRow \cup {None}]
      /\ told'[r] = e /\ e # None /\ \A s \in Changers \ {r} : told'[s] = told[s]
      /\ past' \in [changes : 0 .. MaxChanges,
                    seen : SUBSET {"overlap", "crossed", "lost", "dragged"}]
      /\ past.seen \subseteq past'.seen
  BY CommitFrame
<1>2. past'.seen = {} => past.seen = {} /\ Quiet /\ beside = {}
  BY CommitFrame
<1>3. Calm' => Calm /\ beside \subseteq {"overlap"}
               /\ (Quiet \/ (e.kind # "moved" /\ ~Moving))
  BY CommitFrame DEF Calm
<1>4. \A s \in Changers : Due(s)' <=> s = r \/ Due(s)
  BY <1>1 DEF Due
<1>5. \A s \in Changers : Due(s) => s # r /\ told'[s] = told[s]
  BY <1>1
<1>6. Quiet => \A s \in Changers : ~Due(s)
  BY DEF Quiet, Due
<1>7. ~Moving => \A s \in Changers : Due(s) => told[s].kind # "moved"
  BY DEF Moving, Due
<1>8. WorkspaceShape'
  BY <1>1 DEF WorkspaceShape, WikiRow
<1>9. EventsShaped'
  BY <1>1, <1>4, <1>5 DEF EventsShaped
<1>10. CountSettles'
  <2>1. Lossless' => Lossless
    BY <1>1 DEF Lossless
  <2>2. shelf'.count = shelf.count
    BY <1>1
  <2>3. CASE Nothing(e)
    BY <1>1, <1>4, <1>5, <2>1, <2>2, <2>3 DEF CountSettles
  <2>4. CASE ~Nothing(e)
    BY <1>1, <1>4, <2>4 DEF CountSettles
  <2> QED
    BY <2>3, <2>4
<1>11. ArchiveSettles'
  <2>1. Lossless' => Lossless
    BY <1>1 DEF Lossless
  <2>2. CASE e.kind = "archived"
    BY <1>1, <1>4, <2>2 DEF ArchiveSettles
  <2>3. CASE e.kind # "archived"
    <3>1. ~wiki'.active => ~wiki.active
      BY <2>3
    <3>2. NoFiles' = NoFiles
      BY DEF NoFiles
    <3> QED
      BY <1>1, <1>4, <1>5, <2>1, <3>1, <3>2 DEF ArchiveSettles
  <2> QED
    BY <2>2, <2>3
<1>12. MovesAlone'
  BY <1>1, <1>3, <1>4, <1>5, <1>6, <1>7 DEF MovesAlone
<1>13. OneAtATime'
  BY <1>2, <1>4, <1>6 DEF OneAtATime
<1>14. SoleSettles'
  BY <1>1, <1>2, <1>4, <1>6 DEF SoleSettles
<1>15. ReportsSettle'
  BY <1>1, <1>2, <1>4, <1>6 DEF ReportsSettle
<1>16. ShownSettles'
  <2> SUFFICES ASSUME past'.seen = {}, wiki'.active, NEW d \in Papers, Shown(d)'
               PROVE  \/ shelf'.files[Spot(d)'] = Page(d)'
                      \/ \E s \in Changers : Due(s)' /\
                           \/ told'[s].kind = "unarchived"
                           \/ told'[s].kind \in Rereads /\ d \in told'[s].ids
    BY DEF ShownSettles, Rereads
  <2>0. \/ e.kind = "unarchived"
        \/ e.kind \in Rereads /\ d \in e.ids
        \/ Shown(d) /\ wiki.active /\ Spot(d)' = Spot(d) /\ Page(d)' = Page(d)
    BY <1>2
  <2>1. CASE e.kind = "unarchived" \/ (e.kind \in Rereads /\ d \in e.ids)
    BY <1>1, <1>4, <2>1
  <2>2. CASE Shown(d) /\ wiki.active /\ Spot(d)' = Spot(d) /\ Page(d)' = Page(d)
    <3>1. shelf.files[Spot(d)] = Page(d)
      BY <1>2, <1>6, <2>2 DEF ShownSettles
    <3> QED
      BY <1>1, <2>2, <3>1
  <2> QED
    BY <2>0, <2>1, <2>2
<1>17. DeletedWhere'
  <2> SUFFICES ASSUME Calm', NEW s \in Changers, Due(s)', told'[s].kind = "deleted",
                      Single(told[s])', NEW d \in told'[s].ids
               PROVE  Spot(d)' = told'[s].old
    BY DEF DeletedWhere
  <2>1. CASE s = r
    BY <1>1, <2>1 DEF Single
  <2>2. CASE s # r
    <3>1. Due(s) /\ told'[s] = told[s] /\ Single(told[s])
      BY <1>4, <1>5, <2>2 DEF Single
    <3>2. Spot(d) = told[s].old /\ told[s].old \in Spots
      BY <1>3, <3>1 DEF DeletedWhere, EventsShaped, EventShape
    <3>3. d \in Papers
      BY <3>1 DEF WorkspaceShape, Due, EventRow
    <3>4. wiki.rows[d] # NoPaper
      BY <3>2, <3>3, RowsShaped
    <3>5. e.kind # "moved"
      BY <1>3, <1>6, <3>1
    <3> QED
      BY <3>1, <3>2, <3>3, <3>4, <3>5
  <2> QED
    BY <2>1, <2>2
<1>18. FilesSettle'
  <2> SUFFICES ASSUME Calm', NEW p \in Spots, shelf'.files[p] # None
               PROVE  FileSettles(shelf.files[p][1], p)'
    BY DEF FilesSettle
  <2>0. PICK d \in Papers : d = shelf.files[p][1] /\ d = shelf'.files[p][1]
    <3>1. shelf.files[p] \in PageRow
      BY <1>1 DEF WorkspaceShape
    <3> QED
      BY <1>1, <3>1 DEF PageRow
  <2>1. FileSettles(d, p) /\ shelf'.files[p] = shelf.files[p]
    BY <1>1, <1>3, <2>0 DEF FilesSettle
  <2>2. wiki.rows[d] # NoPaper
    BY <2>1, FileHasRow DEF FileSettles
  <2>3. wiki'.active \/ \E s \in Changers : Due(s)' /\ told'[s].kind = "archived"
    <3>1. CASE e.kind = "archived"
      BY <1>1, <1>4, <3>1
    <3>2. CASE e.kind # "archived"
      BY <1>4, <1>5, <2>1, <3>2 DEF FileSettles
    <3> QED
      BY <3>1, <3>2
  <2>4. \/ shelf'.files[p] = Page(d)'
        \/ \E s \in Changers : Due(s)' /\ told'[s].kind = "published" /\ d \in told'[s].ids
    <3>1. CASE e.kind = "published" /\ d \in e.ids
      BY <1>1, <1>4, <3>1
    <3>2. CASE Page(d)' = Page(d)
      BY <1>4, <1>5, <2>1, <3>2 DEF FileSettles
    <3> QED
      BY <2>2, <3>1, <3>2
  <2>5. \/ wiki'.rows[d].live
        \/ \E s \in Changers : Due(s)' /\ told'[s].kind = "deleted" /\ d \in told'[s].ids
    <3>1. CASE wiki.rows[d].live
      <4>1. d \in Live
        BY <3>1 DEF Live
      <4> QED
        BY <1>1, <1>4, <4>1
    <3>2. CASE ~wiki.rows[d].live
      BY <1>4, <1>5, <2>1, <3>2 DEF FileSettles
    <3> QED
      BY <3>1, <3>2
  <2>6. BelongsAt(d, p)'
    <3>1. CASE e.kind = "moved"
      <4>1. \A s \in Changers : ~Due(s)
        BY <1>3, <1>6, <3>1
      <4>2. Spot(d) = p /\ wiki.rows[d].live
        BY <2>1, <4>1 DEF FileSettles, BelongsAt
      <4>3. Spot(d)' = IF FirstMove(e) THEN Shift(e, p) ELSE p
        BY <1>3, <3>1, <4>2 DEF Live
      <4>4. \A s \in Changers : Due(s)' <=> s = r
        BY <1>4, <4>1
      <4>5. CASE FirstMove(e)
        <5>1. Due(r)' /\ FirstMove(told[r])' /\ Spot(d)' = Shift(told[r], p)'
          BY <1>1, <4>3, <4>4, <4>5 DEF FirstMove, Shift, Nothing
        <5> QED
          BY <5>1 DEF BelongsAt
      <4>6. CASE ~FirstMove(e)
        <5>1. \A s \in Changers : Due(s)' => ~FirstMove(told[s])'
          BY <1>1, <4>4, <4>6 DEF FirstMove, Nothing
        <5> QED
          BY <4>3, <4>6, <5>1 DEF BelongsAt
      <4> QED
        BY <4>5, <4>6
    <3>2. CASE e.kind # "moved"
      <4>1. \A s \in Changers : Due(s) => told[s].kind # "moved"
        BY <1>3, <1>6, <1>7
      <4>2. Spot(d) = p
        BY <2>1, <4>1 DEF FileSettles, BelongsAt, FirstMove
      <4>3. \A s \in Changers : Due(s)' => told'[s].kind # "moved"
        BY <1>1, <1>4, <1>5, <3>2, <4>1
      <4>4. Spot(d)' = p
        BY <2>2, <3>2, <4>2
      <4>5. \A s \in Changers : Due(s)' => ~FirstMove(told[s])'
        BY <4>3 DEF FirstMove
      <4> QED
        BY <4>4, <4>5 DEF BelongsAt
    <3> QED
      BY <3>1, <3>2
  <2>7. FileSettles(d, p)'
    BY <2>3, <2>4, <2>5, <2>6 DEF FileSettles
  <2> QED
    BY <2>0, <2>7
<1> QED
  BY <1>8, <1>9, <1>10, <1>11, <1>12, <1>13, <1>14, <1>15, <1>16, <1>17, <1>18

\* An event that says no more than its kind and documents.
LEMMA AboutFields ==
    ASSUME NEW kind \in Kinds, NEW ids \in SUBSET Papers
    PROVE  \E e \in EventRow :
             /\ e = About(kind, ids)
             /\ e.kind = kind /\ e.ids = ids /\ ~e.wide /\ ~e.moved
<1>1. None \in Ways
  BY DEF Ways
<1> DEFINE e == [kind |-> kind, old |-> None, new |-> None, ids |-> ids, wide |-> FALSE,
                 moved |-> FALSE]
<1>2. e \in EventRow
  BY <1>1 DEF EventRow
<1>3. e = About(kind, ids)
  BY DEF About, Event
<1>4. e.kind = kind /\ e.ids = ids /\ ~e.wide /\ ~e.moved
  OBVIOUS
<1> HIDE DEF e
<1> QED
  BY <1>2, <1>3, <1>4

\* The number of documents is that of what is shown.
LEMMA SameCount ==
    ASSUME wiki'.active = wiki.active, \A d \in Papers : Shown(d)' <=> Shown(d)
    PROVE  Counted' = Counted
<1>1. {d \in Papers : Shown(d)}' = {d \in Papers : Shown(d)}
  OBVIOUS
<1> QED
  BY <1>1 DEF Counted

\* Events that no document is moved, deleted or read again for.
LEMMA PlainCommitKeeps ==
    ASSUME WorkspaceAssumption, WorkspaceInv, NEW r \in Changers, NEW new \in WikiRow,
           NEW kind \in {"index", "archived", "unarchived", "report"},
           Commit(r, new, About(kind, {}), {}),
           \A d \in Papers : \/ new.rows[d] = wiki.rows[d]
                             \/ wiki.rows[d] = NoPaper /\ new.rows[d].text = 0,
           Housed',
           \/ new.active = wiki.active
           \/ kind = "archived" /\ ~new.active
           \/ kind = "unarchived" /\ new.active,
           kind = "archived" => ~new.active,
           new.report = wiki.report \/ kind = "report"
    PROVE  WorkspaceInv'
<1>1. PICK e \in EventRow : /\ e = About(kind, {})
                            /\ e.kind = kind /\ e.ids = {} /\ ~e.wide /\ ~e.moved
  BY AboutFields DEF Kinds
<1>2. Commit(r, new, e, {}) /\ wiki' = new
  BY <1>1 DEF Commit
<1>3. EventShape(e) /\ ~Nothing(e) /\ ~FirstMove(e)
  BY <1>1 DEF EventShape, Single, Nothing, FirstMove
<1>4. EventSole(e)'
  BY <1>1, <1>2 DEF EventSole, Single, Rereads
<1>5. \A d \in Papers : wiki.rows[d] # NoPaper => wiki'.rows[d] = wiki.rows[d]
  BY <1>2
<1>6. \A d \in Papers : wiki.rows[d] # NoPaper => Spot(d)' = Spot(d) /\ Page(d)' = Page(d)
  BY <1>5 DEF Spot, Page
<1>7. \A d \in Live : wiki'.rows[d].live
  BY <1>5, RowsShaped DEF WorkspaceInv, Live, NoPaper
<1>8. \A d \in Papers : Shown(d)' => Shown(d) /\ Spot(d)' = Spot(d) /\ Page(d)' = Page(d)
  <2>1. ~NoPaper.live
    BY DEF NoPaper
  <2>2. ASSUME NEW d \in Papers, Shown(d)', wiki.rows[d] = NoPaper PROVE FALSE
    <3>1. new.rows[d].live /\ new.rows[d].text > 0
      BY <1>2, <2>2 DEF Shown
    <3>2. new.rows[d].text # 0
      BY <3>1
    <3>3. new.rows[d] = NoPaper
      BY <2>2, <3>2
    <3> QED
      BY <2>1, <3>1, <3>3
  <2> QED
    BY <1>5, <1>6, <2>2 DEF Shown
<1>9. ExportedReports' = ExportedReports \/ e.kind \in {"report", "archived", "unarchived"}
  BY <1>1, <1>2 DEF ExportedReports
<1>10. \/ wiki'.active = wiki.active
       \/ e.kind = "archived"
       \/ e.kind = "unarchived" /\ wiki'.active
  BY <1>1, <1>2
<1>11. \A d \in Papers : Shown(d)' /\ wiki'.active =>
             \/ e.kind = "unarchived"
             \/ e.kind \in Rereads /\ d \in e.ids
             \/ Shown(d) /\ wiki.active /\ Spot(d)' = Spot(d) /\ Page(d)' = Page(d)
  BY <1>1, <1>2, <1>8
<1>12. e.kind # "moved" /\ e.kind # "deleted"
  BY <1>1
<1> QED
  BY <1>1, <1>2, <1>3, <1>4, <1>6, <1>7, <1>9, <1>10, <1>11, <1>12, CommitKeeps

\* A document is made without a text.
LEMMA CreateKeeps ==
    ASSUME WorkspaceAssumption, WorkspaceInv, NEW r \in Changers, NEW d \in Papers,
           NEW leaf \in Labels, CreatePaper(r, d, leaf)
    PROVE  WorkspaceInv'
<1> DEFINE row == [dir |-> wiki.dir, leaf |-> leaf, text |-> 0, live |-> TRUE]
<1> DEFINE new == [wiki EXCEPT !.rows[d] = row]
<1>1. wiki \in WikiRow
  BY DEF WorkspaceInv, WorkspaceShape, WikiRow
<1>2. row \in PaperRow
  BY <1>1 DEF PaperRow, WikiRow, WorkspaceAssumption
<1>3. /\ new \in WikiRow /\ new.rows[d] = row
      /\ \A c \in Papers \ {d} : new.rows[c] = wiki.rows[c]
      /\ new.active = wiki.active /\ new.report = wiki.report /\ new.dir = wiki.dir
      /\ new.folder = wiki.folder
  BY <1>1, <1>2 DEF WikiRow
<1>4. /\ wiki.rows[d] = NoPaper /\ wiki.folder /\ Unheld(<<wiki.dir, leaf>>)
      /\ Commit(r, new, About("index", {}), {})
  BY DEF CreatePaper
<1>5. row.text = 0 /\ row.dir = wiki.dir /\ row.leaf = leaf
  OBVIOUS
<1> HIDE DEF new, row
<1>6. wiki' = new
  BY <1>4 DEF Commit
<1>7. \A c \in Papers \ {d} : Spot(c)' = Spot(c) /\ (c \in Live' <=> c \in Live)
  BY <1>3, <1>6 DEF Spot, Live
<1>8. Spot(d)' = <<wiki.dir, leaf>>
  BY <1>3, <1>5, <1>6 DEF Spot
<1>9. Housed'
  <2>1. \A c \in Live' : wiki'.folder /\ wiki'.rows[c].dir = wiki'.dir
    BY <1>3, <1>4, <1>5, <1>6, <1>7 DEF WorkspaceInv, Housed, Live
  <2>2. ASSUME NEW b \in Live', NEW c \in Live', Spot(b)' = Spot(c)' PROVE b = c
    <3>1. b \in Papers /\ c \in Papers
      BY DEF Live
    <3> QED
      BY <1>4, <1>7, <1>8, <2>2, <3>1 DEF WorkspaceInv, Housed, Unheld
  <2> QED
    BY <2>1, <2>2 DEF Housed
<1> QED
  BY <1>3, <1>4, <1>5, <1>9, PlainCommitKeeps

\* The feature is updated, archived or restored, or its reports are written.
LEMMA PlainChangesKeep ==
    ASSUME WorkspaceAssumption, WorkspaceInv, NEW r \in Changers,
           \/ UpdateFeature(r) \/ ArchiveFeature(r) \/ RestoreFeature(r) \/ WriteReports(r)
    PROVE  WorkspaceInv'
<1>1. wiki \in WikiRow
  BY DEF WorkspaceInv, WorkspaceShape, WikiRow
<1>2. ASSUME NEW new \in WikiRow, wiki' = new, new.rows = wiki.rows, new.dir = wiki.dir,
             new.folder = wiki.folder
      PROVE  Housed' /\ \A d \in Papers : new.rows[d] = wiki.rows[d]
  BY <1>2 DEF WorkspaceInv, Housed, Live, Spot
<1>3. CASE UpdateFeature(r)
  <2>1. Commit(r, wiki, About("index", {}), {}) /\ wiki' = wiki
    BY <1>3 DEF UpdateFeature, Commit
  <2> QED
    BY <1>1, <1>2, <2>1, PlainCommitKeeps
<1>4. CASE ArchiveFeature(r)
  <2> DEFINE new == [wiki EXCEPT !.active = FALSE]
  <2>1. Commit(r, new, About("archived", {}), {}) /\ wiki' = new
    BY <1>4 DEF ArchiveFeature, Commit
  <2>2. /\ new \in WikiRow /\ new.rows = wiki.rows /\ new.dir = wiki.dir
        /\ new.folder = wiki.folder /\ new.report = wiki.report /\ ~new.active
    BY <1>1 DEF WikiRow
  <2> QED
    BY <1>2, <2>1, <2>2, PlainCommitKeeps
<1>5. CASE RestoreFeature(r)
  <2> DEFINE new == [wiki EXCEPT !.active = TRUE]
  <2>1. Commit(r, new, About("unarchived", {}), {}) /\ wiki' = new
    BY <1>5 DEF RestoreFeature, Commit
  <2>2. /\ new \in WikiRow /\ new.rows = wiki.rows /\ new.dir = wiki.dir
        /\ new.folder = wiki.folder /\ new.report = wiki.report /\ new.active
    BY <1>1 DEF WikiRow
  <2> QED
    BY <1>2, <2>1, <2>2, PlainCommitKeeps
<1>6. CASE WriteReports(r)
  <2> DEFINE new == [wiki EXCEPT !.report = @ + 1]
  <2>1. /\ Commit(r, new, About("report", {}), {}) /\ wiki' = new
        /\ wiki.report < MaxTexts
    BY <1>6 DEF WriteReports, Commit
  <2>2. wiki.report + 1 \in 1 .. MaxTexts
    BY <1>1, <2>1 DEF WikiRow, WorkspaceAssumption
  <2>3. /\ new \in WikiRow /\ new.rows = wiki.rows /\ new.dir = wiki.dir
        /\ new.folder = wiki.folder /\ new.active = wiki.active
    BY <1>1, <2>2 DEF WikiRow
  <2> QED
    BY <1>2, <2>1, <2>3, PlainCommitKeeps
<1> QED
  BY <1>3, <1>4, <1>5, <1>6

\* All documents that are there are within the folder.
LEMMA LiveWithin == ASSUME Housed PROVE Within = Live
BY DEF Within, Housed, Live

\* Documents stay in the folder and apart from each other.
LEMMA HousedStays ==
    ASSUME Housed, wiki'.folder = wiki.folder, wiki'.dir = wiki.dir,
           \A c \in Live' : c \in Live /\ wiki'.rows[c].dir = wiki.rows[c].dir,
           \A b, c \in Live' : Spot(b)' = Spot(c)' => b = c
    PROVE  Housed'
BY DEF Housed

\* A document gets its next text.
LEMMA PublishKeeps ==
    ASSUME WorkspaceAssumption, WorkspaceInv, NEW r \in Changers, NEW d \in Papers,
           Publish(r, d)
    PROVE  WorkspaceInv'
<1> DEFINE new == [wiki EXCEPT !.rows[d].text = @ + 1]
<1>1. wiki \in WikiRow
  BY DEF WorkspaceInv, WorkspaceShape, WikiRow
<1>2. wiki.rows[d].live /\ wiki.rows[d].text < MaxTexts /\ wiki.rows[d] \in PaperRow
  BY RowsShaped DEF Publish, WorkspaceInv
<1>3. [wiki.rows[d] EXCEPT !.text = @ + 1] \in PaperRow
  <2>1. wiki.rows[d].text + 1 \in 0 .. MaxTexts
    BY <1>2 DEF PaperRow, WorkspaceAssumption
  <2> QED
    BY <1>2, <2>1 DEF PaperRow
<1>4. /\ new \in WikiRow
      /\ new.rows[d] = [wiki.rows[d] EXCEPT !.text = @ + 1]
      /\ \A c \in Papers \ {d} : new.rows[c] = wiki.rows[c]
      /\ new.active = wiki.active /\ new.report = wiki.report /\ new.dir = wiki.dir
      /\ new.folder = wiki.folder
  BY <1>1, <1>3 DEF WikiRow
<1>5. /\ new.rows[d].dir = wiki.rows[d].dir /\ new.rows[d].leaf = wiki.rows[d].leaf
      /\ new.rows[d].live
  BY <1>2, <1>4 DEF PaperRow
<1>6. Commit(r, new, About("published", {d}), {}) /\ wiki' = new
  BY DEF Publish, Commit
<1> HIDE DEF new
<1>7. PICK e \in EventRow : /\ e = About("published", {d})
                            /\ e.kind = "published" /\ e.ids = {d} /\ ~e.wide /\ ~e.moved
  BY AboutFields DEF Kinds
<1>8. \A c \in Papers : Spot(c)' = Spot(c) /\ (c \in Live' <=> c \in Live)
  BY <1>2, <1>4, <1>5, <1>6 DEF Spot, Live
<1>9. \A c \in Papers \ {d} : Page(c)' = Page(c) /\ (Shown(c)' <=> Shown(c))
  BY <1>4, <1>6 DEF Page, Shown
<1>10. Housed'
  <2>1. \A c \in Live' : c \in Papers
    BY DEF Live
  <2>2. \A c \in Papers : wiki'.rows[c].dir = wiki.rows[c].dir
    BY <1>4, <1>5, <1>6
  <2>3. \A b, c \in Live : Spot(b) = Spot(c) => b = c
    BY DEF WorkspaceInv, Housed
  <2>4. \A b, c \in Live' : Spot(b)' = Spot(c)' => b = c
    BY <1>8, <2>1, <2>3
  <2> QED
    BY <1>4, <1>6, <1>8, <2>1, <2>2, <2>4, HousedStays DEF WorkspaceInv
<1>11. EventShape(e) /\ ~Nothing(e)
  BY <1>7 DEF EventShape, Single, Nothing
<1>12. d \in Live'
  BY <1>5, <1>6 DEF Live
<1>13. EventSole(e)'
  BY <1>7, <1>12 DEF EventSole, Single
<1>14. ExportedReports' = ExportedReports
  BY <1>4, <1>6 DEF ExportedReports
<1>15. \A c \in Live : wiki'.rows[c].live
  BY <1>8 DEF Live
<1>16. e.kind # "moved" /\ e.kind # "deleted" /\ e.kind \in Rereads
  BY <1>7 DEF Rereads
<1>17. Commit(r, new, e, {}) /\ wiki'.active = wiki.active
  BY <1>4, <1>6, <1>7
<1>18. \A c \in Papers : Shown(c)' /\ wiki'.active =>
             \/ e.kind = "unarchived"
             \/ e.kind \in Rereads /\ c \in e.ids
             \/ Shown(c) /\ wiki.active /\ Spot(c)' = Spot(c) /\ Page(c)' = Page(c)
  BY <1>7, <1>8, <1>9, <1>16, <1>17
<1>19. \A c \in Papers : Page(c)' = Page(c) \/ (e.kind = "published" /\ c \in e.ids)
  BY <1>7, <1>9
<1> QED
  BY <1>4, <1>7, <1>8, <1>10, <1>11, <1>13, <1>14, <1>15, <1>16, <1>17, <1>18, <1>19,
    CommitKeeps

\* A document gets another path.
LEMMA RenameKeeps ==
    ASSUME WorkspaceAssumption, WorkspaceInv, NEW r \in Changers, NEW d \in Papers,
           NEW leaf \in Labels, RenamePaper(r, d, leaf)
    PROVE  WorkspaceInv'
<1> DEFINE new == [wiki EXCEPT !.rows[d].leaf = leaf]
<1>1. wiki \in WikiRow
  BY DEF WorkspaceInv, WorkspaceShape, WikiRow
<1>2. /\ wiki.rows[d].live /\ wiki.rows[d] \in PaperRow /\ d \in Live
      /\ Unheld(<<wiki.rows[d].dir, leaf>>)
  BY RowsShaped DEF RenamePaper, WorkspaceInv, Live
<1>3. [wiki.rows[d] EXCEPT !.leaf = leaf] \in PaperRow
  BY <1>2 DEF PaperRow
<1>4. /\ new \in WikiRow
      /\ new.rows[d] = [wiki.rows[d] EXCEPT !.leaf = leaf]
      /\ \A c \in Papers \ {d} : new.rows[c] = wiki.rows[c]
      /\ new.active = wiki.active /\ new.report = wiki.report /\ new.dir = wiki.dir
      /\ new.folder = wiki.folder
  BY <1>1, <1>3 DEF WikiRow
<1>5. /\ new.rows[d].dir = wiki.rows[d].dir /\ new.rows[d].leaf = leaf
      /\ new.rows[d].live /\ new.rows[d].text = wiki.rows[d].text
  BY <1>2, <1>4 DEF PaperRow
<1> DEFINE to == <<wiki.rows[d].dir, leaf>>
<1>6. Commit(r, new, Event("moved", Spot(d), to, {d}, FALSE), {}) /\ wiki' = new
  BY DEF RenamePaper, Commit
<1> HIDE DEF new
<1>7. Spot(d) \in Spots /\ to \in Spots /\ Spot(d) # to /\ \A c \in Live : Spot(c) # to
  <2>1. wiki.rows[d].dir \in Dirs
    BY <1>2 DEF PaperRow
  <2> QED
    BY <1>2, <2>1, RowsShaped DEF WorkspaceInv, Unheld, Spots
<1>8. Spot(d)' = to
  BY <1>5, <1>6 DEF Spot
<1> HIDE DEF to
<1>9. PICK e \in EventRow :
        /\ e = Event("moved", Spot(d), to, {d}, FALSE)
        /\ e.kind = "moved" /\ e.old = Spot(d) /\ e.new = to /\ e.ids = {d} /\ ~e.wide
        /\ ~e.moved
  <2>1. Spot(d) \in Ways /\ to \in Ways
    BY <1>7 DEF Ways
  <2> DEFINE f == [kind |-> "moved", old |-> Spot(d), new |-> to, ids |-> {d},
                   wide |-> FALSE, moved |-> FALSE]
  <2>2. f \in EventRow
    BY <2>1 DEF EventRow, Kinds
  <2>3. f = Event("moved", Spot(d), to, {d}, FALSE)
    BY DEF Event
  <2>4. f.kind = "moved" /\ f.old = Spot(d) /\ f.new = to /\ f.ids = {d} /\ ~f.wide /\ ~f.moved
    OBVIOUS
  <2> HIDE DEF f
  <2> QED
    BY <2>2, <2>3, <2>4
<1>10. /\ \A c \in Papers \ {d} : Spot(c)' = Spot(c)
       /\ \A c \in Papers : c \in Live' <=> c \in Live
  BY <1>2, <1>4, <1>5, <1>6 DEF Spot, Live
<1>11. \A c \in Papers : Page(c)' = Page(c) /\ (Shown(c)' <=> Shown(c))
  BY <1>2, <1>4, <1>5, <1>6 DEF Page, Shown
<1>12. Housed'
  <2>1. \A c \in Live' : c \in Live /\ wiki'.rows[c].dir = wiki.rows[c].dir
    <3>1. \A c \in Live' : c \in Papers
      BY DEF Live
    <3> QED
      BY <1>4, <1>5, <1>6, <1>10, <3>1
  <2>2. ASSUME NEW b \in Live', NEW c \in Live', Spot(b)' = Spot(c)' PROVE b = c
    <3>1. b \in Live /\ c \in Live /\ b \in Papers /\ c \in Papers
      BY <1>10 DEF Live
    <3> QED
      BY <1>7, <1>8, <1>10, <2>2, <3>1 DEF WorkspaceInv, Housed
  <2> QED
    BY <1>4, <1>6, <2>1, <2>2, HousedStays DEF WorkspaceInv
<1>13. EventShape(e) /\ ~Nothing(e) /\ FirstMove(e)
  BY <1>7, <1>9 DEF EventShape, Single, Nothing, FirstMove
<1>14. EventSole(e)'
  <2>1. e.ids \subseteq Live'
    BY <1>2, <1>9, <1>10
  <2>2. ASSUME NEW c \in Live', Spot(c)' \in {e.old, e.new} PROVE c \in e.ids
    <3>1. c \in Papers /\ c \in Live
      BY <1>10 DEF Live
    <3>2. c # d => Spot(c)' = Spot(c) /\ Spot(c) # to /\ Spot(c) # Spot(d)
      BY <1>2, <1>7, <1>10, <3>1 DEF WorkspaceInv, Housed
    <3> QED
      BY <1>9, <2>2, <3>2
  <2> QED
    BY <1>9, <2>1, <2>2 DEF EventSole
<1>15. ExportedReports' = ExportedReports
  BY <1>4, <1>6 DEF ExportedReports
<1>16. \A c \in Live : wiki'.rows[c].live
  BY <1>10 DEF Live
<1>17. Commit(r, new, e, {}) /\ wiki'.active = wiki.active
  BY <1>4, <1>6, <1>9
<1>18. \A c \in Live : Spot(c)' = IF FirstMove(e) THEN Shift(e, Spot(c)) ELSE Spot(c)
  <2>1. ASSUME NEW c \in Live PROVE Spot(c)' = Shift(e, Spot(c))
    <3>1. CASE c = d
      BY <1>8, <1>9, <3>1 DEF Shift
    <3>2. CASE c # d
      <4>1. Spot(c) # Spot(d) /\ c \in Papers
        BY <1>2, <3>2 DEF WorkspaceInv, Housed, Live
      <4> QED
        BY <1>9, <1>10, <3>2, <4>1 DEF Shift
    <3> QED
      BY <3>1, <3>2
  <2> QED
    BY <1>13, <2>1
<1>19. \A c \in Papers : Shown(c)' /\ wiki'.active =>
             \/ e.kind = "unarchived"
             \/ e.kind \in Rereads /\ c \in e.ids
             \/ Shown(c) /\ wiki.active /\ Spot(c)' = Spot(c) /\ Page(c)' = Page(c)
  BY <1>9, <1>10, <1>11, <1>17 DEF Rereads
<1>20. e.kind # "deleted"
  BY <1>9
<1> QED
  BY <1>4, <1>9, <1>11, <1>12, <1>13, <1>14, <1>15, <1>16, <1>17, <1>18, <1>19, <1>20,
    CommitKeeps, ZenonT(40)

\* What a folder becomes with all documents that are in it.
LEMMA RehungFolder ==
    ASSUME WorkspaceAssumption, WorkspaceInv, NEW dir \in Dirs, CanRehang(dir),
           wiki' = Rehung(dir)
    PROVE  /\ Rehung(dir) \in WikiRow
           /\ Housed' /\ Within = Live
           /\ wiki'.active = wiki.active /\ ExportedReports' = ExportedReports
           /\ \A c \in Papers : /\ Page(c)' = Page(c)
                                /\ Shown(c)' <=> Shown(c)
                                /\ c \in Live' <=> c \in Live
           /\ \A c \in Live : Spot(c)' = <<dir, Spot(c)[2]>> /\ Spot(c)[1] = wiki.dir
           /\ \A c \in Live : wiki'.rows[c].live
<1>1. wiki \in WikiRow
  BY DEF WorkspaceInv, WorkspaceShape, WikiRow
<1>2. Within = Live
  BY LiveWithin DEF WorkspaceInv
<1> DEFINE rows == [c \in Papers |-> IF c \in Within THEN [wiki.rows[c] EXCEPT !.dir = dir]
                                    ELSE wiki.rows[c]]
<1>3. Rehung(dir) = [wiki EXCEPT !.dir = dir, !.rows = rows]
  BY DEF Rehung
<1>4. rows \in [Papers -> PaperRow \cup {NoPaper}]
  <2>1. ASSUME NEW c \in Papers PROVE rows[c] \in PaperRow \cup {NoPaper}
    <3>1. wiki.rows[c] \in PaperRow \cup {NoPaper} /\ (c \in Within => wiki.rows[c] \in PaperRow)
      BY <1>2, RowsShaped DEF WorkspaceInv, Live
    <3>2. \A row \in PaperRow : [row EXCEPT !.dir = dir] \in PaperRow
      BY DEF PaperRow
    <3> QED
      BY <3>1, <3>2
  <2> QED
    BY <2>1
<1>5. \A c \in Live : /\ rows[c].dir = dir /\ rows[c].leaf = wiki.rows[c].leaf
                      /\ rows[c].text = wiki.rows[c].text /\ rows[c].live
  <2>1. \A row \in PaperRow : /\ [row EXCEPT !.dir = dir].dir = dir
                              /\ [row EXCEPT !.dir = dir].leaf = row.leaf
                              /\ [row EXCEPT !.dir = dir].text = row.text
                              /\ [row EXCEPT !.dir = dir].live = row.live
    BY DEF PaperRow
  <2>2. \A c \in Live : wiki.rows[c] \in PaperRow /\ c \in Papers /\ wiki.rows[c].live
    BY RowsShaped DEF WorkspaceInv, Live
  <2>3. \A c \in Live : rows[c] = [wiki.rows[c] EXCEPT !.dir = dir]
    BY <1>2, <2>2
  <2> HIDE DEF rows
  <2>4. ASSUME NEW c \in Live
        PROVE  /\ rows[c].dir = dir /\ rows[c].leaf = wiki.rows[c].leaf
               /\ rows[c].text = wiki.rows[c].text /\ rows[c].live = wiki.rows[c].live
    <3>1. wiki.rows[c] \in PaperRow /\ rows[c] = [wiki.rows[c] EXCEPT !.dir = dir]
      BY <2>2, <2>3
    <3> QED
      BY <2>1, <3>1
  <2> QED
    BY <2>2, <2>4
<1>6. \A c \in Papers : c \notin Live => rows[c] = wiki.rows[c]
  BY <1>2
<1> HIDE DEF rows
<1>7. /\ Rehung(dir) \in WikiRow /\ wiki'.rows = rows /\ wiki'.dir = dir
      /\ wiki'.active = wiki.active /\ wiki'.folder = wiki.folder
      /\ wiki'.report = wiki.report
  BY <1>1, <1>3, <1>4 DEF WikiRow
<1>8. \A c \in Papers : c \in Live' <=> c \in Live
  BY <1>5, <1>6, <1>7 DEF Live
<1>9. \A c \in Papers : wiki'.rows[c].text = wiki.rows[c].text
                       /\ (wiki'.rows[c].live <=> wiki.rows[c].live)
  BY <1>5, <1>6, <1>7 DEF Live
<1>10. \A c \in Papers : Page(c)' = Page(c) /\ (Shown(c)' <=> Shown(c))
  BY <1>9 DEF Page, Shown
<1>11. \A c \in Live : Spot(c)' = <<dir, Spot(c)[2]>> /\ Spot(c)[1] = wiki.dir
  BY <1>5, <1>7 DEF Spot, WorkspaceInv, Housed
<1>12. ExportedReports' = ExportedReports
  BY <1>7 DEF ExportedReports
<1>13. \A c \in Live : wiki'.rows[c].live
  BY <1>5, <1>7
<1>14. Housed'
  <2>1. \A c \in Live' : c \in Live
    BY <1>8 DEF Live
  <2>2. \A c \in Live : wiki'.folder /\ wiki'.rows[c].dir = wiki'.dir
    BY <1>5, <1>7 DEF WorkspaceInv, Housed
  <2>3. ASSUME NEW b \in Live, NEW c \in Live, Spot(b)' = Spot(c)' PROVE b = c
    <3>1. rows[b].leaf = rows[c].leaf
      BY <1>7, <2>3 DEF Spot
    <3>2. Spot(b) = Spot(c)
      BY <1>5, <3>1 DEF Spot, WorkspaceInv, Housed
    <3> QED
      BY <3>2 DEF WorkspaceInv, Housed
  <2> QED
    BY <2>1, <2>2, <2>3 DEF Housed
<1> QED
  BY <1>2, <1>7, <1>8, <1>10, <1>11, <1>12, <1>13, <1>14

\* The folder is renamed or dragged.
LEMMA FolderMovesKeep ==
    ASSUME WorkspaceAssumption, WorkspaceInv, NEW r \in Changers, NEW dir \in Dirs,
           RenameFolder(r, dir) \/ DragFolder(r, dir)
    PROVE  WorkspaceInv'
<1>1. CanRehang(dir) /\ dir # wiki.dir /\ wiki' = Rehung(dir)
  BY DEF RenameFolder, DragFolder, Commit, CanRehang
<1>2. /\ Rehung(dir) \in WikiRow
      /\ Housed' /\ Within = Live
      /\ wiki'.active = wiki.active /\ ExportedReports' = ExportedReports
  BY <1>1, RehungFolder
<1>3. \A c \in Papers : /\ Page(c)' = Page(c)
                        /\ Shown(c)' <=> Shown(c)
                        /\ c \in Live' <=> c \in Live
  BY <1>1, RehungFolder
<1>4. \A c \in Live : Spot(c)' = <<dir, Spot(c)[2]>> /\ Spot(c)[1] = wiki.dir
  BY <1>1, RehungFolder
<1>5. \A c \in Live : wiki'.rows[c].live
  BY <1>1, RehungFolder
<1>6. Counted' = Counted
  BY <1>2, <1>3, SameCount
<1>7. <<wiki.dir>> \in Ways /\ <<dir>> \in Ways /\ wiki.dir \in Dirs
  BY DEF Ways, WorkspaceInv, WorkspaceShape
<1>8. Live \subseteq Papers /\ Live' = Live
  BY <1>3 DEF Live
<1>9. \A c \in Papers : Shown(c)' => c \in Live
  BY <1>3 DEF Shown, Live
\* Nothing in the folder, or nothing said of it.
<1>10. ASSUME NEW beside \in SUBSET {"overlap", "dragged"},
              Commit(r, Rehung(dir), Event("moved", <<wiki.dir>>, <<dir>>, {}, FALSE), beside),
              beside \subseteq {"overlap"} => Live = {}
       PROVE  WorkspaceInv'
  <2>1. PICK e \in EventRow :
          /\ Commit(r, Rehung(dir), e, beside)
          /\ e.kind = "moved" /\ e.ids = {} /\ ~e.wide /\ ~e.moved
          /\ e.old = <<wiki.dir>> /\ e.new = <<dir>>
    <3> DEFINE f == [kind |-> "moved", old |-> <<wiki.dir>>, new |-> <<dir>>, ids |-> {},
                     wide |-> FALSE, moved |-> FALSE]
    <3>1. f \in EventRow
      BY <1>7, <1>8 DEF EventRow, Kinds
    <3>2. Commit(r, Rehung(dir), f, beside)
      BY <1>10 DEF Event
    <3>3. /\ f.kind = "moved" /\ f.ids = {} /\ ~f.wide /\ ~f.moved
          /\ f.old = <<wiki.dir>> /\ f.new = <<dir>>
      OBVIOUS
    <3> HIDE DEF f
    <3> QED
      BY <3>1, <3>2, <3>3
  <2>4. EventShape(e) /\ Nothing(e)
    BY <2>1 DEF EventShape, Single, Nothing
  <2>5. EventSole(e)'
    BY <2>1 DEF EventSole, Single
  <2>6. beside \subseteq {"overlap"} =>
          \A c \in Live : Spot(c)' = IF FirstMove(e) THEN Shift(e, Spot(c)) ELSE Spot(c)
    BY <1>10
  <2>7. beside = {} => \A c \in Papers : Shown(c)' /\ wiki'.active =>
             \/ e.kind = "unarchived"
             \/ e.kind \in Rereads /\ c \in e.ids
             \/ Shown(c) /\ wiki.active /\ Spot(c)' = Spot(c) /\ Page(c)' = Page(c)
    BY <1>9, <1>10
  <2>8. e.kind # "deleted"
    BY <2>1
  <2> QED
    BY <1>2, <1>3, <1>5, <1>6, <2>1, <2>4, <2>5, <2>6, <2>7, <2>8, CommitKeeps
<1>11. ASSUME Live # {},
              Commit(r, Rehung(dir), Event("moved", <<wiki.dir>>, <<dir>>, Live, TRUE), {})
       PROVE  WorkspaceInv'
  <2>1. PICK e \in EventRow :
          /\ Commit(r, Rehung(dir), e, {})
          /\ e.kind = "moved" /\ e.ids = Live /\ e.wide /\ ~e.moved
          /\ e.old = <<wiki.dir>> /\ e.new = <<dir>>
    <3> DEFINE f == [kind |-> "moved", old |-> <<wiki.dir>>, new |-> <<dir>>, ids |-> Live,
                     wide |-> TRUE, moved |-> FALSE]
    <3>1. f \in EventRow
      BY <1>7, <1>8 DEF EventRow, Kinds
    <3>2. Commit(r, Rehung(dir), f, {})
      BY <1>11 DEF Event
    <3>3. /\ f.kind = "moved" /\ f.ids = Live /\ f.wide /\ ~f.moved
          /\ f.old = <<wiki.dir>> /\ f.new = <<dir>>
      OBVIOUS
    <3> HIDE DEF f
    <3> QED
      BY <3>1, <3>2, <3>3
  <2>4. EventShape(e) /\ ~Nothing(e) /\ FirstMove(e)
    BY <1>1, <1>7, <1>11, <2>1 DEF EventShape, Single, Nothing, FirstMove
  <2>5. EventSole(e)'
    BY <1>8, <2>1 DEF EventSole, Single
  <2>6. \A c \in Live : Spot(c)' = IF FirstMove(e) THEN Shift(e, Spot(c)) ELSE Spot(c)
    <3>1. e.old[1] = wiki.dir /\ e.new[1] = dir
      BY <2>1
    <3>2. \A c \in Live : Shift(e, Spot(c)) = <<dir, Spot(c)[2]>>
      BY <1>4, <2>1, <3>1 DEF Shift
    <3> QED
      BY <1>4, <2>4, <3>2
  <2>7. \A c \in Papers : Shown(c)' /\ wiki'.active =>
             \/ e.kind = "unarchived"
             \/ e.kind \in Rereads /\ c \in e.ids
             \/ Shown(c) /\ wiki.active /\ Spot(c)' = Spot(c) /\ Page(c)' = Page(c)
    BY <1>9, <2>1 DEF Rereads
  <2>8. e.kind # "deleted"
    BY <2>1
  <2> QED
    BY <1>2, <1>3, <1>5, <1>6, <2>1, <2>4, <2>5, <2>6, <2>7, <2>8, CommitKeeps
<1>12. CASE RenameFolder(r, dir)
  <2>1. Commit(r, Rehung(dir), Event("moved", <<wiki.dir>>, <<dir>>, Live, Live # {}), {})
    BY <1>2, <1>12 DEF RenameFolder
  <2>2. CASE Live = {}
    <3>1. (Live # {}) = FALSE
      BY <2>2
    <3>2. PICK beside \in SUBSET {"overlap", "dragged"} :
            Commit(r, Rehung(dir), Event("moved", <<wiki.dir>>, <<dir>>, {}, FALSE), beside)
      BY <2>1, <2>2, <3>1
    <3> QED
      BY <1>10, <2>2, <3>2
  <2>3. CASE Live # {}
    <3>1. (Live # {}) = TRUE
      BY <2>3
    <3>2. Commit(r, Rehung(dir), Event("moved", <<wiki.dir>>, <<dir>>, Live, TRUE), {})
      BY <2>1, <3>1
    <3> QED
      BY <1>11, <2>3, <3>2
  <2> QED
    BY <2>2, <2>3
<1>13. CASE DragFolder(r, dir)
  <2>1. Commit(r, Rehung(dir), Event("moved", <<wiki.dir>>, <<dir>>, {}, FALSE),
               IF Live = {} THEN {} ELSE {"dragged"})
    BY <1>2, <1>13 DEF DragFolder
  <2> DEFINE beside == IF Live = {} THEN {} ELSE {"dragged"}
  <2>2. /\ beside \in SUBSET {"overlap", "dragged"}
        /\ beside \subseteq {"overlap"} => Live = {}
    OBVIOUS
  <2>3. Commit(r, Rehung(dir), Event("moved", <<wiki.dir>>, <<dir>>, {}, FALSE), beside)
    BY <2>1
  <2> HIDE DEF beside
  <2> QED
    BY <1>10, <2>2, <2>3
<1> QED
  BY <1>12, <1>13

\* Rows whose being there is written, and nothing else of them.
OnlyLive(new, ids, live) ==
    /\ new \in WikiRow /\ new.active = wiki.active /\ new.report = wiki.report
    /\ new.dir = wiki.dir
    /\ \A c \in Papers : /\ new.rows[c].dir = wiki.rows[c].dir
                        /\ new.rows[c].leaf = wiki.rows[c].leaf
                        /\ new.rows[c].text = wiki.rows[c].text
                        /\ (c \in ids => new.rows[c].live = live)
                        /\ (c \notin ids => new.rows[c].live = wiki.rows[c].live)

\* Paths and texts are then as they were.
LEMMA OnlyLiveFollows ==
    ASSUME WorkspaceAssumption, WorkspaceInv, NEW ids \in SUBSET Papers, NEW live \in BOOLEAN,
           OnlyLive(wiki', ids, live)
    PROVE  /\ \A c \in Papers : Spot(c)' = Spot(c) /\ Page(c)' = Page(c)
           /\ \A c \in Papers : c \in ids => (c \in Live' <=> live)
           /\ \A c \in Papers : c \notin ids =>
                 ((c \in Live' <=> c \in Live) /\ (Shown(c)' <=> Shown(c)))
           /\ \A c \in Papers : Shown(c)' => c \in Live'
           /\ wiki'.active = wiki.active /\ ExportedReports' = ExportedReports
<1>1. wiki'.active = wiki.active /\ wiki'.report = wiki.report
  BY DEF OnlyLive
<1>2. ExportedReports' = ExportedReports
  BY <1>1 DEF ExportedReports
<1>3. \A c \in Papers : Spot(c)' = Spot(c) /\ Page(c)' = Page(c)
  BY DEF OnlyLive, Spot, Page
<1>4. \A c \in Papers : c \in ids => (c \in Live' <=> live)
  BY DEF OnlyLive, Live
<1>5. \A c \in Papers : c \notin ids =>
                 ((c \in Live' <=> c \in Live) /\ (Shown(c)' <=> Shown(c)))
  BY DEF OnlyLive, Live, Shown
<1>6. \A c \in Papers : Shown(c)' => c \in Live'
  BY DEF Live, Shown
<1> QED
  BY <1>1, <1>2, <1>3, <1>4, <1>5, <1>6

\* SetLive writes no more than that.
LEMMA SetLiveIsOnlyLive ==
    ASSUME WorkspaceAssumption, WorkspaceInv, NEW ids \in SUBSET Papers,
           \A c \in ids : wiki.rows[c] \in PaperRow,
           NEW folder \in BOOLEAN, NEW live \in BOOLEAN
    PROVE  OnlyLive([wiki EXCEPT !.folder = folder, !.rows = SetLive(ids, live)], ids, live)
<1>1. wiki \in WikiRow
  BY DEF WorkspaceInv, WorkspaceShape, WikiRow
<1> DEFINE rows == [c \in Papers |-> IF c \in ids THEN [wiki.rows[c] EXCEPT !.live = live]
                                    ELSE wiki.rows[c]]
<1>2. rows = SetLive(ids, live)
  BY DEF SetLive
<1>3. \A row \in PaperRow : /\ [row EXCEPT !.live = live] \in PaperRow
                            /\ [row EXCEPT !.live = live].dir = row.dir
                            /\ [row EXCEPT !.live = live].leaf = row.leaf
                            /\ [row EXCEPT !.live = live].text = row.text
                            /\ [row EXCEPT !.live = live].live = live
  BY DEF PaperRow
<1>4. ASSUME NEW c \in Papers
      PROVE  /\ rows[c] \in PaperRow \cup {NoPaper}
             /\ rows[c].dir = wiki.rows[c].dir
             /\ rows[c].leaf = wiki.rows[c].leaf
             /\ rows[c].text = wiki.rows[c].text
             /\ c \in ids => rows[c].live = live
             /\ c \notin ids => rows[c].live = wiki.rows[c].live
  <2>1. wiki.rows[c] \in PaperRow \cup {NoPaper}
    BY RowsShaped DEF WorkspaceInv
  <2>2. CASE c \in ids
    <3>1. wiki.rows[c] \in PaperRow /\ rows[c] = [wiki.rows[c] EXCEPT !.live = live]
      BY <2>2
    <3> HIDE DEF rows
    <3> QED
      BY <1>3, <2>2, <3>1
  <2>3. CASE c \notin ids
    BY <2>1, <2>3
  <2> QED
    BY <2>2, <2>3
<1>5. rows \in [Papers -> PaperRow \cup {NoPaper}]
  BY <1>4
<1> HIDE DEF rows
<1> DEFINE new == [wiki EXCEPT !.folder = folder, !.rows = rows]
<1>6. /\ new \in WikiRow /\ new.rows = rows /\ new.active = wiki.active
      /\ new.report = wiki.report /\ new.dir = wiki.dir
  BY <1>1, <1>5 DEF WikiRow
<1> HIDE DEF new
<1>7. OnlyLive(new, ids, live)
  BY <1>4, <1>6 DEF OnlyLive
<1> QED
  BY <1>2, <1>7 DEF new

\* A document is deleted.
LEMMA DeletePaperKeeps ==
    ASSUME WorkspaceAssumption, WorkspaceInv, NEW r \in Changers, NEW d \in Papers,
           DeletePaper(r, d)
    PROVE  WorkspaceInv'
<1>1. wiki \in WikiRow
  BY DEF WorkspaceInv, WorkspaceShape, WikiRow
<1>2. wiki.rows[d].live /\ wiki.rows[d] \in PaperRow /\ Spot(d) \in Spots /\ d \in Live
  BY RowsShaped DEF DeletePaper, WorkspaceInv, Live
<1> DEFINE new == [wiki EXCEPT !.rows[d].live = FALSE]
<1>3. Commit(r, new, Event("deleted", Spot(d), None, {d}, FALSE), {}) /\ wiki' = new
  BY DEF DeletePaper, Commit
<1>4. OnlyLive(new, {d}, FALSE) /\ new.folder = wiki.folder
  <2> DEFINE row == [wiki.rows[d] EXCEPT !.live = FALSE]
  <2>1. /\ row \in PaperRow /\ row.dir = wiki.rows[d].dir /\ row.leaf = wiki.rows[d].leaf
        /\ row.text = wiki.rows[d].text /\ row.live = FALSE
    BY <1>2 DEF PaperRow
  <2>2. new = [wiki EXCEPT !.rows = [wiki.rows EXCEPT ![d] = row]]
    BY <1>1 DEF WikiRow
  <2> HIDE DEF row
  <2>3. [wiki.rows EXCEPT ![d] = row] \in [Papers -> PaperRow \cup {NoPaper}]
    BY <1>1, <2>1 DEF WikiRow
  <2>4. /\ new \in WikiRow /\ new.rows[d] = row
        /\ \A c \in Papers \ {d} : new.rows[c] = wiki.rows[c]
        /\ new.active = wiki.active /\ new.report = wiki.report /\ new.dir = wiki.dir
        /\ new.folder = wiki.folder
    BY <1>1, <2>2, <2>3 DEF WikiRow
  <2> HIDE DEF new
  <2> QED
    BY <2>1, <2>4 DEF OnlyLive
<1> HIDE DEF new
<1>5. /\ \A c \in Papers : Spot(c)' = Spot(c) /\ Page(c)' = Page(c)
      /\ \A c \in Papers : c \in {d} => c \notin Live'
      /\ \A c \in Papers : c \notin {d} => (c \in Live' <=> c \in Live) /\ (Shown(c)' <=> Shown(c))
      /\ \A c \in Papers : Shown(c)' => c \in Live'
      /\ wiki'.active = wiki.active /\ ExportedReports' = ExportedReports
  BY <1>3, <1>4, OnlyLiveFollows
<1>6. Live' = Live \ {d}
  <2>1. Live \subseteq Papers /\ Live' \subseteq Papers
    BY DEF Live
  <2> QED
    BY <1>5, <2>1
<1>7. Housed'
  <2>1. wiki'.dir = wiki.dir /\ wiki'.folder = wiki.folder
        /\ \A c \in Papers : wiki'.rows[c].dir = wiki.rows[c].dir
    BY <1>3, <1>4 DEF OnlyLive
  <2>2. \A c \in Live : c \in Papers
    BY DEF Live
  <2> QED
    BY <1>5, <1>6, <2>1, <2>2 DEF WorkspaceInv, Housed
<1>8. PICK e \in EventRow :
        /\ Commit(r, new, e, {})
        /\ e.kind = "deleted" /\ e.old = Spot(d) /\ e.ids = {d} /\ ~e.wide /\ ~e.moved
  <2> DEFINE f == [kind |-> "deleted", old |-> Spot(d), new |-> None, ids |-> {d},
                   wide |-> FALSE, moved |-> FALSE]
  <2>1. f \in EventRow
    BY <1>2 DEF EventRow, Kinds, Ways
  <2>2. Commit(r, new, f, {})
    BY <1>3 DEF Event
  <2>3. f.kind = "deleted" /\ f.old = Spot(d) /\ f.ids = {d} /\ ~f.wide /\ ~f.moved
    OBVIOUS
  <2> HIDE DEF f
  <2> QED
    BY <2>1, <2>2, <2>3
<1>9. EventShape(e) /\ ~Nothing(e)
  BY <1>2, <1>8 DEF EventShape, Single, Nothing
<1>10. EventSole(e)'
  <2>1. \A c \in Live' : Spot(c)' # e.old
    BY <1>2, <1>5, <1>6, <1>8 DEF WorkspaceInv, Housed, Live
  <2> QED
    BY <1>8, <2>1 DEF EventSole, Rereads
<1>11. \A c \in Live : wiki'.rows[c].live \/ (e.kind = "deleted" /\ c \in e.ids)
  BY <1>6, <1>8 DEF Live
<1>12. \A c \in Papers : Shown(c)' /\ wiki'.active =>
             \/ e.kind = "unarchived"
             \/ e.kind \in Rereads /\ c \in e.ids
             \/ Shown(c) /\ wiki.active /\ Spot(c)' = Spot(c) /\ Page(c)' = Page(c)
  BY <1>5
<1>13. e.kind # "moved" /\ \A c \in e.ids : Spot(c)' = e.old
  BY <1>5, <1>8
<1>14. new \in WikiRow
  BY <1>4 DEF OnlyLive
<1> QED
  BY <1>5, <1>7, <1>8, <1>9, <1>10, <1>11, <1>12, <1>13, <1>14, CommitKeeps

\* The folder is deleted with all that is in it.
LEMMA DeleteFolderKeeps ==
    ASSUME WorkspaceAssumption, WorkspaceInv, NEW r \in Changers, DeleteFolder(r)
    PROVE  WorkspaceInv'
<1> DEFINE new == [wiki EXCEPT !.folder = FALSE, !.rows = SetLive(Within, FALSE)]
<1>1. Within = Live /\ Live \in SUBSET Papers
  BY LiveWithin DEF WorkspaceInv, Live
<1>2. \A c \in Within : wiki.rows[c] \in PaperRow
  BY <1>1, RowsShaped DEF WorkspaceInv, Live
<1>3. /\ Commit(r, new, Event("deleted", <<wiki.dir>>, None, Within, Within # {}), {})
      /\ wiki' = new
  BY DEF DeleteFolder, Commit
<1>4. OnlyLive(new, Within, FALSE)
  BY <1>1, <1>2, SetLiveIsOnlyLive
<1> HIDE DEF new
<1>5. /\ \A c \in Papers : Spot(c)' = Spot(c) /\ Page(c)' = Page(c)
      /\ \A c \in Papers : c \in Within => c \notin Live'
      /\ \A c \in Papers : c \notin Within => (c \in Live' <=> c \in Live) /\ (Shown(c)' <=> Shown(c))
      /\ \A c \in Papers : Shown(c)' => c \in Live'
      /\ wiki'.active = wiki.active /\ ExportedReports' = ExportedReports
  BY <1>1, <1>3, <1>4, OnlyLiveFollows
<1>6. Live' = {}
  <2>1. Live' \subseteq Papers
    BY DEF Live
  <2> QED
    BY <1>1, <1>5, <2>1
<1>7. Housed'
  BY <1>6 DEF Housed
<1>8. PICK e \in EventRow :
        /\ Commit(r, new, e, {})
        /\ e.kind = "deleted" /\ e.ids = Live /\ (e.wide <=> Live # {}) /\ ~e.moved
  <2> DEFINE f == [kind |-> "deleted", old |-> <<wiki.dir>>, new |-> None, ids |-> Within,
                   wide |-> Within # {}, moved |-> FALSE]
  <2>1. f \in EventRow
    <3>1. wiki.dir \in Dirs /\ (Within # {}) \in BOOLEAN
      BY DEF WorkspaceInv, WorkspaceShape
    <3> QED
      BY <1>1, <3>1 DEF EventRow, Kinds, Ways
  <2>2. Commit(r, new, f, {})
    BY <1>3 DEF Event
  <2>3. f.kind = "deleted" /\ f.ids = Within /\ f.wide = (Within # {}) /\ ~f.moved
    OBVIOUS
  <2> HIDE DEF f
  <2> QED
    BY <1>1, <2>1, <2>2, <2>3
<1>9. EventShape(e) /\ ~Single(e)
  BY <1>8 DEF EventShape, Single
<1>10. Nothing(e) => Counted' = Counted
  <2>1. Nothing(e) => Live = {}
    BY <1>8 DEF Nothing
  <2>2. Live = {} => \A c \in Papers : Shown(c)' <=> Shown(c)
    BY <1>1, <1>5
  <2> QED
    BY <1>5, <2>1, <2>2, SameCount
<1>11. EventSole(e)'
  <2>1. ~Single(e)'
    BY <1>8 DEF Single
  <2> QED
    BY <1>6, <1>8, <2>1 DEF EventSole, Rereads
<1>12. \A c \in Live : wiki'.rows[c].live \/ (e.kind = "deleted" /\ c \in e.ids)
  BY <1>8
<1>13. \A c \in Papers : Shown(c)' /\ wiki'.active =>
             \/ e.kind = "unarchived"
             \/ e.kind \in Rereads /\ c \in e.ids
             \/ Shown(c) /\ wiki.active /\ Spot(c)' = Spot(c) /\ Page(c)' = Page(c)
  BY <1>5, <1>6
<1>14. e.kind # "moved"
  BY <1>8
<1>15. new \in WikiRow
  BY <1>4 DEF OnlyLive
<1> QED
  BY <1>5, <1>7, <1>8, <1>9, <1>10, <1>11, <1>12, <1>13, <1>14, <1>15, CommitKeeps

\* What comes back as it was, told as restored.
LEMMA RestoreKeeps ==
    ASSUME WorkspaceAssumption, WorkspaceInv, NEW r \in Changers, NEW new,
           NEW ids \in SUBSET Papers,
           Commit(r, new, About("restored", ids), {}), OnlyLive(new, ids, TRUE),
           Housed', ids = {} => Counted' = Counted
    PROVE  WorkspaceInv'
<1>1. PICK e \in EventRow : /\ e = About("restored", ids)
                            /\ e.kind = "restored" /\ e.ids = ids /\ ~e.wide /\ ~e.moved
  BY AboutFields DEF Kinds
<1>2. Commit(r, new, e, {}) /\ wiki' = new /\ new \in WikiRow
  BY <1>1 DEF Commit, OnlyLive
<1>3. /\ \A c \in Papers : Spot(c)' = Spot(c) /\ Page(c)' = Page(c)
      /\ \A c \in Papers : c \in ids => c \in Live'
      /\ \A c \in Papers : c \notin ids => ((c \in Live' <=> c \in Live) /\ (Shown(c)' <=> Shown(c)))
      /\ wiki'.active = wiki.active /\ ExportedReports' = ExportedReports
  BY <1>2, OnlyLiveFollows
<1>4. EventShape(e) /\ (Nothing(e) => Counted' = Counted)
  BY <1>1 DEF EventShape, Single, Nothing
<1>5. EventSole(e)'
  BY <1>1, <1>3 DEF EventSole, Single
<1>6. \A c \in Live : wiki'.rows[c].live \/ (e.kind = "deleted" /\ c \in e.ids)
  BY <1>3 DEF Live
<1>7. \A c \in Papers : Shown(c)' /\ wiki'.active =>
             \/ e.kind = "unarchived"
             \/ e.kind \in Rereads /\ c \in e.ids
             \/ Shown(c) /\ wiki.active /\ Spot(c)' = Spot(c) /\ Page(c)' = Page(c)
  BY <1>1, <1>3 DEF Rereads
<1>8. e.kind # "moved" /\ e.kind # "deleted" /\ ~e.moved
  BY <1>1
<1>9. /\ \A c \in Papers : wiki.rows[c] # NoPaper => Spot(c)' = Spot(c)
      /\ \A c \in Papers : wiki.rows[c] # NoPaper =>
           Page(c)' = Page(c) \/ (e.kind = "published" /\ c \in e.ids)
      /\ wiki'.active = wiki.active /\ ExportedReports' = ExportedReports
  BY <1>3
<1> QED
  BY <1>2, <1>4, <1>5, <1>6, <1>7, <1>8, <1>9, CommitKeeps

\* A document is restored into the folder that has the path it had.
LEMMA RestorePaperKeeps ==
    ASSUME WorkspaceAssumption, WorkspaceInv, NEW r \in Changers, NEW d \in Papers,
           wiki.rows[d].dir = wiki.dir, RestorePaper(r, d)
    PROVE  WorkspaceInv'
<1>1. wiki \in WikiRow
  BY DEF WorkspaceInv, WorkspaceShape, WikiRow
<1>2. /\ wiki.rows[d] # NoPaper /\ ~wiki.rows[d].live /\ wiki.folder /\ Unheld(Spot(d))
      /\ wiki.rows[d] \in PaperRow
  BY RowsShaped DEF RestorePaper, WorkspaceInv
<1> DEFINE new == [wiki EXCEPT !.rows[d].live = TRUE]
<1>3. Commit(r, new, About("restored", {d}), {}) /\ wiki' = new
  BY DEF RestorePaper, Commit
<1>4. OnlyLive(new, {d}, TRUE) /\ new.folder = wiki.folder
  <2> DEFINE row == [wiki.rows[d] EXCEPT !.live = TRUE]
  <2>1. /\ row \in PaperRow /\ row.dir = wiki.rows[d].dir /\ row.leaf = wiki.rows[d].leaf
        /\ row.text = wiki.rows[d].text /\ row.live = TRUE
    BY <1>2 DEF PaperRow
  <2>2. new = [wiki EXCEPT !.rows = [wiki.rows EXCEPT ![d] = row]]
    BY <1>1 DEF WikiRow
  <2> HIDE DEF row
  <2>3. [wiki.rows EXCEPT ![d] = row] \in [Papers -> PaperRow \cup {NoPaper}]
    BY <1>1, <2>1 DEF WikiRow
  <2>4. /\ new \in WikiRow /\ new.rows[d] = row
        /\ \A c \in Papers \ {d} : new.rows[c] = wiki.rows[c]
        /\ new.active = wiki.active /\ new.report = wiki.report /\ new.dir = wiki.dir
        /\ new.folder = wiki.folder
    BY <1>1, <2>2, <2>3 DEF WikiRow
  <2> HIDE DEF new
  <2> QED
    BY <2>1, <2>4 DEF OnlyLive
<1> HIDE DEF new
<1>5. /\ \A c \in Papers : Spot(c)' = Spot(c)
      /\ \A c \in Papers : c \in {d} => c \in Live'
      /\ \A c \in Papers : c \notin {d} => ((c \in Live' <=> c \in Live) /\ (Shown(c)' <=> Shown(c)))
  BY <1>3, <1>4, OnlyLiveFollows
<1>6. Live' = Live \cup {d}
  <2>1. Live \subseteq Papers /\ Live' \subseteq Papers
    BY DEF Live
  <2> QED
    BY <1>5, <2>1
<1>7. Housed'
  <2>1. wiki'.dir = wiki.dir /\ wiki'.folder = wiki.folder
        /\ \A c \in Papers : wiki'.rows[c].dir = wiki.rows[c].dir
    BY <1>3, <1>4 DEF OnlyLive
  <2>2. \A c \in Live : c \in Papers /\ Spot(c) # Spot(d)
    BY <1>2 DEF Live, Unheld
  <2>3. \A c \in Live' : wiki'.folder /\ wiki'.rows[c].dir = wiki'.dir
    BY <1>2, <1>6, <2>1, <2>2 DEF WorkspaceInv, Housed
  <2>4. \A b, c \in Live' : Spot(b)' = Spot(c)' => b = c
    BY <1>5, <1>6, <2>2 DEF WorkspaceInv, Housed
  <2> QED
    BY <2>3, <2>4 DEF Housed
<1> QED
  BY <1>3, <1>4, <1>7, RestoreKeeps

\* The folder is restored with all that was below its path.
LEMMA RestoreFolderKeeps ==
    ASSUME WorkspaceAssumption, WorkspaceInv, NEW r \in Changers, RestoreFolder(r)
    PROVE  WorkspaceInv'
<1>1. wiki \in WikiRow
  BY DEF WorkspaceInv, WorkspaceShape, WikiRow
<1> DEFINE below == {c \in Papers : wiki.rows[c].dir = wiki.dir}
<1> DEFINE new == [wiki EXCEPT !.folder = TRUE, !.rows = SetLive(below, TRUE)]
<1>2. /\ ~wiki.folder
      /\ \A c, e \in below : Spot(c) = Spot(e) => c = e
      /\ Commit(r, new, About("restored", below), {}) /\ wiki' = new
  BY DEF RestoreFolder, Commit
<1>3. \A c \in below : wiki.rows[c] \in PaperRow
  <2>1. wiki.dir \in Dirs /\ NoPaper.dir = None
    BY <1>1 DEF WikiRow, NoPaper
  <2> QED
    BY <2>1, NoneIsNothing, RowsShaped DEF WorkspaceInv
<1>4. OnlyLive(new, below, TRUE) /\ new.folder
  <2>1. OnlyLive(new, below, TRUE)
    BY <1>3, SetLiveIsOnlyLive
  <2>2. new.folder
    BY <1>1 DEF WikiRow
  <2> QED
    BY <2>1, <2>2
<1>5. below \in SUBSET Papers /\ \A c \in below : wiki.rows[c].dir = wiki.dir
  OBVIOUS
<1>6. Live = {}
  BY <1>2 DEF WorkspaceInv, Housed
<1> HIDE DEF new, below
<1>7. /\ \A c \in Papers : Spot(c)' = Spot(c)
      /\ \A c \in Papers : c \in below => c \in Live'
      /\ \A c \in Papers : c \notin below => ((c \in Live' <=> c \in Live) /\ (Shown(c)' <=> Shown(c)))
      /\ wiki'.active = wiki.active
  BY <1>2, <1>4, <1>5, OnlyLiveFollows
<1>8. Live' = below
  <2>1. Live' \subseteq Papers
    BY DEF Live
  <2> QED
    BY <1>5, <1>6, <1>7, <2>1
<1>9. Housed'
  <2>1. wiki'.dir = wiki.dir /\ wiki'.folder
        /\ \A c \in Papers : wiki'.rows[c].dir = wiki.rows[c].dir
    BY <1>2, <1>4 DEF OnlyLive
  <2>2. \A c \in Live' : wiki'.folder /\ wiki'.rows[c].dir = wiki'.dir
    BY <1>5, <1>8, <2>1
  <2>3. \A b, c \in Live' : Spot(b)' = Spot(c)' => b = c
    BY <1>2, <1>5, <1>7, <1>8
  <2> QED
    BY <2>2, <2>3 DEF Housed
<1>10. below = {} => Counted' = Counted
  BY <1>7, SameCount
<1> QED
  BY <1>2, <1>4, <1>5, <1>9, <1>10, RestoreKeeps

-----------------------------------------------------------------------------
(* Calls of the projector *)

ShelfRow == [files : [Spots -> PageRow \cup {None}], reports : 0 .. MaxTexts,
             count : {None} \cup 0 .. Cardinality(Papers)]

\* What is written when the documents are read again.
LEMMA ProjectedPointwise ==
    ASSUME WorkspaceAssumption, WorkspaceShape, Housed, NEW ids \in SUBSET Papers
    PROVE  /\ Projected(ids) \in [Spots -> PageRow \cup {None}]
           /\ ~wiki.active => Projected(ids) = NoFiles
           /\ \A p \in Spots : Projected(ids)[p] # None =>
                \/ \E d \in ids : wiki.active /\ Shown(d) /\ Spot(d) = p /\ Projected(ids)[p] = Page(d)
                \/ Projected(ids)[p] = shelf.files[p] /\ \A d \in ids : Spot(d) # p
           /\ wiki.active /\ ids \subseteq Live =>
                \A d \in Papers : Shown(d) => Projected(ids)[Spot(d)] =
                                     IF d \in ids THEN Page(d) ELSE shelf.files[Spot(d)]
<1> DEFINE here(p) == {d \in ids : Spot(d) = p}
<1> DEFINE last(p) == {d \in here(p) : \A e \in here(p) : e <= d}
<1> DEFINE c(p) == CHOOSE d \in last(p) : TRUE
<1>1. ASSUME NEW p \in Spots
      PROVE  Projected(ids)[p] =
               IF ~wiki.active THEN None
               ELSE IF here(p) = {} THEN shelf.files[p]
               ELSE IF \E d \in last(p) : Shown(d) THEN Page(c(p))
               ELSE None
  BY DEF Projected
<1>2. Projected(ids) = [p \in Spots |-> Projected(ids)[p]]
  BY DEF Projected
<1>3. \A p \in Spots : \A d \in here(p) : d \in ids /\ Spot(d) = p /\ d \in Nat /\ d \in Papers
  BY DEF WorkspaceAssumption
<1>4. \A p \in Spots : \A d \in ids : d \in here(p) <=> Spot(d) = p
  OBVIOUS
<1>5. \A p \in Spots : \A d, e \in last(p) : d = e /\ d \in here(p)
  BY <1>3
<1>6. ASSUME NEW p \in Spots, NEW d \in last(p) PROVE c(p) = d
  <2>1. c(p) \in last(p)
    BY <1>6
  <2> QED
    BY <1>5, <2>1
<1>7. ASSUME NEW p \in Spots, NEW d \in here(p), here(p) = {d} PROVE d \in last(p)
  BY <1>3, <1>7
<1> HIDE DEF here, last, c
<1>8. ASSUME NEW p \in Spots, Projected(ids)[p] # None
      PROVE  \/ \E d \in ids : wiki.active /\ Shown(d) /\ Spot(d) = p /\ Projected(ids)[p] = Page(d)
             \/ Projected(ids)[p] = shelf.files[p] /\ \A d \in ids : Spot(d) # p
  <2>1. CASE here(p) = {}
    BY <1>1, <1>4, <1>8, <2>1
  <2>2. CASE here(p) # {}
    <3>1. wiki.active /\ Projected(ids)[p] = Page(c(p)) /\ \E d \in last(p) : Shown(d)
      BY <1>1, <1>8, <2>2
    <3>2. PICK d \in last(p) : Shown(d)
      BY <3>1
    <3>3. c(p) = d /\ d \in ids /\ Spot(d) = p
      BY <1>3, <1>5, <1>6, <3>2
    <3> QED
      BY <3>1, <3>2, <3>3
  <2> QED
    BY <2>1, <2>2
<1>9. \A p \in Spots : Projected(ids)[p] \in PageRow \cup {None}
  <2>1. \A p \in Spots : shelf.files[p] \in PageRow \cup {None}
    BY DEF WorkspaceShape
  <2>2. \A d \in ids : Shown(d) => Page(d) \in PageRow
    BY RowsShaped
  <2> QED
    BY <1>8, <2>1, <2>2
<1>10. Projected(ids) \in [Spots -> PageRow \cup {None}]
  BY <1>2, <1>9
<1>11. ~wiki.active => Projected(ids) = NoFiles
  BY <1>1, <1>2 DEF NoFiles
<1>12. ASSUME wiki.active, ids \subseteq Live, NEW d \in Papers, Shown(d)
       PROVE  Projected(ids)[Spot(d)] = IF d \in ids THEN Page(d) ELSE shelf.files[Spot(d)]
  <2>1. Spot(d) \in Spots /\ d \in Live
    BY <1>12, RowsShaped
  <2>2. \A e \in here(Spot(d)) : e = d /\ e \in ids
    <3>1. ASSUME NEW e \in here(Spot(d)) PROVE e = d /\ e \in ids
      <4>1. e \in ids /\ Spot(e) = Spot(d)
        BY <1>3, <2>1
      <4> QED
        BY <1>12, <2>1, <4>1 DEF Housed
    <3> QED
      BY <3>1
  <2>3. CASE d \in ids
    <3>1. d \in here(Spot(d))
      BY <1>4, <2>1, <2>3
    <3>2. here(Spot(d)) = {d}
      BY <2>2, <3>1
    <3>3. d \in last(Spot(d))
      BY <1>7, <2>1, <3>1, <3>2
    <3>4. c(Spot(d)) = d
      BY <1>6, <2>1, <3>3
    <3> QED
      BY <1>1, <1>12, <2>1, <2>3, <3>1, <3>3, <3>4
  <2>4. CASE d \notin ids
    <3>1. here(Spot(d)) = {}
      BY <2>2, <2>4
    <3> QED
      BY <1>1, <1>12, <2>1, <2>4, <3>1
  <2> QED
    BY <2>3, <2>4
<1> QED
  BY <1>8, <1>10, <1>11, <1>12

\* Unless it is about to move files itself, a request that crossed nobody's move
\* finds every file at the path of its document.
LEMMA NobodyMoves ==
    ASSUME WorkspaceInv, Calm, NEW r \in Changers, Due(r), ~FirstMove(told[r])
    PROVE  /\ \A s \in Changers : Due(s) => ~FirstMove(told[s])
           /\ \A d, p : BelongsAt(d, p) <=> Spot(d) = p
<1>1. \A s \in Changers : Due(s) => ~FirstMove(told[s])
  BY DEF WorkspaceInv, MovesAlone, FirstMove
<1> QED
  BY <1>1 DEF BelongsAt

\* A call that ends keeps what is promised if it writes the manifest, leaves nothing
\* of an archived feature, writes only what is shown and does not leave what it was
\* called for.
LEMMA CallEndsKeep ==
    ASSUME WorkspaceAssumption, WorkspaceInv, NEW r \in Changers, Due(r),
           ~FirstMove(told[r]),
           wiki' = wiki, past' = past, told' = [told EXCEPT ![r] = None],
           shelf' \in ShelfRow,
           shelf'.count = Counted \/ (Nothing(told[r]) /\ shelf'.count = shelf.count),
           ~wiki.active =>
             \/ shelf'.files = NoFiles /\ shelf'.reports = 0
             \/ /\ told[r].kind # "archived"
                /\ shelf.files = NoFiles => shelf'.files = NoFiles
                /\ shelf.reports = 0 => shelf'.reports = 0,
           Calm => \A p \in Spots : shelf'.files[p] # None =>
             \/ \E d \in Papers : wiki.active /\ Shown(d) /\ Spot(d) = p /\ shelf'.files[p] = Page(d)
             \/ /\ shelf'.files[p] = shelf.files[p] /\ told[r].kind # "archived"
                /\ told[r].kind \in {"published", "deleted"} =>
                     \A d \in told[r].ids : Spot(d) # p,
           past.seen = {} =>
             /\ shelf'.reports = ExportedReports
             /\ wiki.active => \A d \in Papers : Shown(d) => shelf'.files[Spot(d)] = Page(d)
    PROVE  WorkspaceInv'
<1>1. /\ told' \in [Changers -> EventRow \cup {None}] /\ told'[r] = None
      /\ \A s \in Changers \ {r} : told'[s] = told[s]
  BY DEF WorkspaceInv, WorkspaceShape
<1>2. \A s \in Changers : Due(s)' <=> (s # r /\ Due(s))
  BY <1>1 DEF Due
<1>3. \A s \in Changers : Due(s)' => Due(s) /\ told'[s] = told[s] /\ s # r
  BY <1>1, <1>2
<1>4. \A d \in Papers : Spot(d)' = Spot(d) /\ Page(d)' = Page(d) /\ (Shown(d)' <=> Shown(d))
  BY DEF Spot, Page, Shown
<1>5. Live' = Live /\ Counted' = Counted /\ ExportedReports' = ExportedReports /\ NoFiles' = NoFiles
  BY <1>4, SameCount DEF Live, ExportedReports, NoFiles
<1>6. WorkspaceShape'
  BY <1>1 DEF WorkspaceInv, WorkspaceShape, ShelfRow
<1>7. Housed'
  BY <1>5 DEF WorkspaceInv, Housed, Spot
<1>8. EventsShaped' /\ OneAtATime' /\ MovesAlone'
  BY <1>3 DEF WorkspaceInv, EventsShaped, OneAtATime, MovesAlone, Calm
<1>9. DeletedWhere'
  <2> SUFFICES ASSUME Calm, NEW s \in Changers, Due(s)', told'[s].kind = "deleted",
                      Single(told[s])', NEW d \in told'[s].ids
               PROVE  Spot(d)' = told'[s].old
    BY DEF DeletedWhere, Calm
  <2>1. Due(s) /\ told'[s] = told[s] /\ Single(told[s])
    BY <1>3 DEF Single
  <2>2. d \in Papers
    BY <2>1 DEF WorkspaceInv, WorkspaceShape, Due, EventRow
  <2> QED
    BY <1>4, <2>1, <2>2 DEF WorkspaceInv, DeletedWhere
<1>10. past.seen = {} => \A s \in Changers : ~Due(s)'
  BY <1>2 DEF WorkspaceInv, OneAtATime
<1>11. SoleSettles' /\ ShownSettles' /\ ReportsSettle'
  BY <1>4, <1>5, <1>10 DEF SoleSettles, ShownSettles, ReportsSettle
<1>12. CountSettles'
  BY <1>2, <1>3, <1>5 DEF WorkspaceInv, CountSettles, Lossless
<1>13. ArchiveSettles'
  BY <1>2, <1>3, <1>5 DEF WorkspaceInv, ArchiveSettles, Lossless
<1>14. FilesSettle'
  <2> SUFFICES ASSUME Calm, NEW p \in Spots, shelf'.files[p] # None
               PROVE  FileSettles(shelf.files[p][1], p)'
    BY DEF FilesSettle, Calm
  <2>1. \A s \in Changers : Due(s) => ~FirstMove(told[s])
    BY NobodyMoves
  <2>2. \A d \in Papers : BelongsAt(d, p) <=> Spot(d) = p
    BY NobodyMoves
  <2>3. \A s \in Changers : Due(s)' => ~FirstMove(told[s])'
    BY <1>3, <2>1 DEF FirstMove, Nothing
  <2>4. ASSUME NEW d \in Papers, Spot(d) = p PROVE BelongsAt(d, p)'
    BY <1>4, <2>3, <2>4 DEF BelongsAt
  <2>5. CASE \E d \in Papers : wiki.active /\ Shown(d) /\ Spot(d) = p /\ shelf'.files[p] = Page(d)
    <3>1. PICK d \in Papers : wiki.active /\ Shown(d) /\ Spot(d) = p /\ shelf'.files[p] = Page(d)
      BY <2>5
    <3>2. d = shelf'.files[p][1]
      BY <3>1 DEF Page
    <3>3. FileSettles(d, p)'
      BY <1>4, <2>4, <3>1 DEF FileSettles, Shown
    <3> QED
      BY <3>2, <3>3
  <2>6. CASE /\ shelf'.files[p] = shelf.files[p] /\ told[r].kind # "archived"
             /\ told[r].kind \in {"published", "deleted"} => \A d \in told[r].ids : Spot(d) # p
    <3>1. PICK d \in Papers : d = shelf.files[p][1] /\ d = shelf'.files[p][1]
      <4>1. shelf.files[p] \in PageRow
        BY <2>6 DEF WorkspaceInv, WorkspaceShape
      <4> QED
        BY <2>6, <4>1 DEF PageRow
    <3>2. FileSettles(d, p)
      BY <2>6, <3>1 DEF WorkspaceInv, FilesSettle
    <3>3. Spot(d) = p
      BY <2>2, <3>2 DEF FileSettles
    <3>4. told[r].kind \in {"published", "deleted"} => d \notin told[r].ids
      BY <2>6, <3>3
    <3>5. wiki.active \/ \E s \in Changers : Due(s)' /\ told'[s].kind = "archived"
      BY <1>2, <1>3, <2>6, <3>2 DEF FileSettles
    <3>6. \/ shelf'.files[p] = Page(d)
          \/ \E s \in Changers : Due(s)' /\ told'[s].kind = "published" /\ d \in told'[s].ids
      BY <1>2, <1>3, <2>6, <3>2, <3>4 DEF FileSettles
    <3>7. \/ wiki.rows[d].live
          \/ \E s \in Changers : Due(s)' /\ told'[s].kind = "deleted" /\ d \in told'[s].ids
      BY <1>2, <1>3, <3>2, <3>4 DEF FileSettles
    <3>8. FileSettles(d, p)'
      BY <1>4, <2>4, <3>3, <3>5, <3>6, <3>7 DEF FileSettles
    <3> QED
      BY <3>1, <3>8
  <2> QED
    BY <2>5, <2>6
<1> QED
  BY <1>6, <1>7, <1>8, <1>9, <1>11, <1>12, <1>13, <1>14 DEF WorkspaceInv

\* What a request that is alone finds lacking.
LEMMA AloneLacks ==
    ASSUME WorkspaceInv, NEW r \in Changers, Due(r), past.seen = {}
    PROVE  /\ wiki.active => \A d \in Papers : Shown(d) =>
                 \/ shelf.files[Spot(d)] = Page(d)
                 \/ told[r].kind = "unarchived"
                 \/ told[r].kind \in Rereads /\ d \in told[r].ids
           /\ \/ shelf.reports = ExportedReports
              \/ told[r].kind \in {"report", "archived", "unarchived"}
           /\ EventSole(told[r])
<1>1. \A s \in Changers : Due(s) => s = r
  BY DEF WorkspaceInv, OneAtATime
<1> QED
  BY <1>1 DEF WorkspaceInv, ShownSettles, ReportsSettle, SoleSettles

\* The call of an event that no file is to be moved for first.
CallEnds(r, made) ==
    /\ Due(r) /\ ~FirstMove(told[r])
    /\ wiki' = wiki /\ past' = past /\ told' = [told EXCEPT ![r] = None]
    /\ shelf' = made

\* Indexes and manifest are written with the files, or the files alone.
LEMMA RefreshedIs ==
    ASSUME WorkspaceAssumption, WorkspaceInv, NEW laid \in [Spots -> PageRow \cup {None}]
    PROVE  /\ Refreshed(laid) \in ShelfRow /\ FilesOnly(laid) \in ShelfRow
           /\ Refreshed(laid).files = laid /\ Refreshed(laid).reports = shelf.reports
           /\ Refreshed(laid).count = Counted
           /\ FilesOnly(laid).files = laid /\ FilesOnly(laid).reports = shelf.reports
           /\ FilesOnly(laid).count = shelf.count
<1>1. shelf \in ShelfRow
  BY DEF WorkspaceInv, WorkspaceShape, ShelfRow
<1>2. Counted \in 0 .. Cardinality(Papers)
  BY ExportPointwise DEF WorkspaceInv
<1> QED
  BY <1>1, <1>2 DEF ShelfRow, Refreshed, FilesOnly

\* A call for nothing.
LEMMA NothingKeeps ==
    ASSUME WorkspaceAssumption, WorkspaceInv, NEW r \in Changers, CallEnds(r, shelf),
           Nothing(told[r])
    PROVE  WorkspaceInv'
<1>1. shelf \in ShelfRow
  BY DEF WorkspaceInv, WorkspaceShape, ShelfRow
<1>2. told[r].ids = {} /\ told[r].kind \in {"moved", "deleted", "restored"}
  BY DEF Nothing
<1>3. past.seen = {} =>
             /\ shelf.reports = ExportedReports
             /\ wiki.active => \A d \in Papers : Shown(d) => shelf.files[Spot(d)] = Page(d)
  BY <1>2, AloneLacks DEF CallEnds
<1> QED
  BY <1>1, <1>2, <1>3, CallEndsKeep DEF CallEnds

\* A call that writes the indexes.
LEMMA IndexKeeps ==
    ASSUME WorkspaceAssumption, WorkspaceInv, NEW r \in Changers,
           CallEnds(r, Refreshed(shelf.files)), told[r].kind = "index"
    PROVE  WorkspaceInv'
<1>1. /\ shelf' \in ShelfRow /\ shelf'.files = shelf.files /\ shelf'.reports = shelf.reports
      /\ shelf'.count = Counted
  BY RefreshedIs DEF WorkspaceInv, WorkspaceShape, CallEnds
<1>2. past.seen = {} =>
             /\ shelf.reports = ExportedReports
             /\ wiki.active => \A d \in Papers : Shown(d) => shelf.files[Spot(d)] = Page(d)
  BY AloneLacks DEF CallEnds, Rereads
<1> QED
  BY <1>1, <1>2, CallEndsKeep DEF CallEnds

\* A call that reads documents again.
LEMMA RereadKeeps ==
    ASSUME WorkspaceAssumption, WorkspaceInv, NEW r \in Changers,
           CallEnds(r, Refreshed(Projected(told[r].ids))), told[r].kind \in Rereads
    PROVE  WorkspaceInv'
<1>1. told[r].ids \in SUBSET Papers /\ WorkspaceShape /\ Housed
  BY DEF CallEnds, Due, WorkspaceInv, WorkspaceShape, EventRow
<1> DEFINE laid == Projected(told[r].ids)
<1>2. /\ laid \in [Spots -> PageRow \cup {None}]
      /\ ~wiki.active => laid = NoFiles
  BY <1>1, ProjectedPointwise
<1>3. \A p \in Spots : laid[p] # None =>
        \/ \E d \in Papers : wiki.active /\ Shown(d) /\ Spot(d) = p /\ laid[p] = Page(d)
        \/ laid[p] = shelf.files[p] /\ \A d \in told[r].ids : Spot(d) # p
  BY <1>1, ProjectedPointwise
<1>4. wiki.active /\ told[r].ids \subseteq Live =>
        \A d \in Papers : Shown(d) => laid[Spot(d)] =
                             IF d \in told[r].ids THEN Page(d) ELSE shelf.files[Spot(d)]
  BY <1>1, ProjectedPointwise
<1>5. /\ shelf' \in ShelfRow /\ shelf'.files = laid /\ shelf'.reports = shelf.reports
      /\ shelf'.count = Counted
  BY <1>2, RefreshedIs DEF CallEnds
<1> HIDE DEF laid
<1>6. told[r].kind \notin {"archived", "unarchived", "report"}
  BY DEF Rereads
<1>7. ~wiki.active => (shelf.reports = 0 => shelf'.reports = 0)
  BY <1>5
<1>8. ASSUME past.seen = {}
      PROVE  /\ shelf'.reports = ExportedReports
             /\ wiki.active => \A d \in Papers : Shown(d) => shelf'.files[Spot(d)] = Page(d)
  <2>1. told[r].ids \subseteq Live /\ shelf.reports = ExportedReports
    BY <1>6, <1>8, AloneLacks DEF CallEnds, EventSole
  <2>2. wiki.active => \A d \in Papers : Shown(d) =>
          shelf.files[Spot(d)] = Page(d) \/ d \in told[r].ids
    BY <1>6, <1>8, AloneLacks DEF CallEnds
  <2> QED
    BY <1>4, <1>5, <2>1, <2>2
<1> QED
  BY <1>2, <1>3, <1>5, <1>6, <1>7, <1>8, CallEndsKeep DEF CallEnds

\* A call that removes files.
LEMMA GoneKeeps ==
    ASSUME WorkspaceAssumption, WorkspaceInv, NEW r \in Changers, NEW spots,
           CallEnds(r, Refreshed(Gone(spots))), told[r].kind = "deleted",
           Calm => \A d \in told[r].ids : Spot(d) \in spots,
           past.seen = {} => \A d \in Live : Spot(d) \notin spots
    PROVE  WorkspaceInv'
<1> DEFINE laid == Gone(spots)
<1>1. \A p \in Spots : laid[p] = IF p \in spots THEN None ELSE shelf.files[p]
  BY DEF Gone
<1>2. laid \in [Spots -> PageRow \cup {None}]
  <2>1. laid = [p \in Spots |-> laid[p]]
    BY DEF Gone
  <2>2. \A p \in Spots : shelf.files[p] \in PageRow \cup {None}
    BY DEF WorkspaceInv, WorkspaceShape
  <2> QED
    BY <1>1, <2>1, <2>2
<1>3. shelf.files = NoFiles => laid = NoFiles
  <2>1. laid = [p \in Spots |-> laid[p]]
    BY DEF Gone
  <2> QED
    BY <1>1, <2>1 DEF NoFiles
<1>4. /\ shelf' \in ShelfRow /\ shelf'.files = laid /\ shelf'.reports = shelf.reports
      /\ shelf'.count = Counted
  BY <1>2, RefreshedIs DEF CallEnds
<1> HIDE DEF laid
<1>5. ASSUME past.seen = {}
      PROVE  /\ shelf'.reports = ExportedReports
             /\ wiki.active => \A d \in Papers : Shown(d) => shelf'.files[Spot(d)] = Page(d)
  <2>1. shelf.reports = ExportedReports
    BY <1>5, AloneLacks DEF CallEnds
  <2>2. wiki.active => \A d \in Papers : Shown(d) => shelf.files[Spot(d)] = Page(d)
    BY <1>5, AloneLacks DEF CallEnds, Rereads
  <2>3. \A d \in Papers : Shown(d) => Spot(d) \in Spots /\ d \in Live
    BY RowsShaped DEF WorkspaceInv
  <2> QED
    BY <1>1, <1>4, <1>5, <2>1, <2>2, <2>3
<1>6. Calm => \A p \in Spots : shelf'.files[p] # None =>
         shelf'.files[p] = shelf.files[p] /\ \A d \in told[r].ids : Spot(d) # p
  BY <1>1, <1>4
<1> QED
  BY <1>3, <1>4, <1>5, <1>6, CallEndsKeep DEF CallEnds

\* A call after a deletion.
LEMMA DeletedKeeps ==
    ASSUME WorkspaceAssumption, WorkspaceInv, NEW r \in Changers, told[r].kind = "deleted",
           ~Nothing(told[r]), NEW spots,
           \/ told[r].wide /\ spots = {Spot(d) : d \in told[r].ids}
           \/ ~told[r].wide /\ spots = {told[r].old},
           CallEnds(r, Refreshed(Gone(spots)))
    PROVE  WorkspaceInv'
<1>1. Due(r) /\ told[r].ids # {} /\ told[r].wide \in BOOLEAN
  BY DEF CallEnds, Nothing, WorkspaceInv, WorkspaceShape, EventRow, Due
<1>2. Calm => \A d \in told[r].ids : Spot(d) \in spots
  BY <1>1 DEF WorkspaceInv, DeletedWhere, Single
<1>3. past.seen = {} => EventSole(told[r])
  BY <1>1, AloneLacks
<1>4. past.seen = {} => \A d \in Live : Spot(d) \notin spots
  BY <1>1, <1>3 DEF EventSole, Single
<1> QED
  BY <1>2, <1>4, GoneKeeps

\* A call after the feature is archived.
LEMMA ArchivedKeeps ==
    ASSUME WorkspaceAssumption, WorkspaceInv, NEW r \in Changers, told[r].kind = "archived",
           CallEnds(r, [files |-> NoFiles, reports |-> 0, count |-> Counted])
    PROVE  WorkspaceInv'
<1>1. /\ shelf'.files = NoFiles /\ shelf'.reports = 0 /\ shelf'.count = Counted
      /\ shelf' \in ShelfRow
  <2>1. Counted \in 0 .. Cardinality(Papers)
    BY ExportPointwise DEF WorkspaceInv
  <2>2. 0 \in 0 .. MaxTexts /\ NoFiles \in [Spots -> PageRow \cup {None}]
    BY DEF NoFiles, WorkspaceAssumption
  <2> QED
    BY <2>1, <2>2 DEF CallEnds, ShelfRow
<1>2. past.seen = {} => shelf'.reports = ExportedReports /\ ~wiki.active
  BY <1>1, AloneLacks DEF CallEnds, EventSole, ExportedReports
<1>3. \A p \in Spots : NoFiles[p] = None
  BY DEF NoFiles
<1> QED
  BY <1>1, <1>2, <1>3, CallEndsKeep DEF CallEnds

\* A call after reports are written.
LEMMA ReportKeeps ==
    ASSUME WorkspaceAssumption, WorkspaceInv, NEW r \in Changers, told[r].kind = "report",
           CallEnds(r, [files |-> IF wiki.active THEN shelf.files ELSE NoFiles,
                        reports |-> ExportedReports, count |-> Counted])
    PROVE  WorkspaceInv'
<1> DEFINE laid == IF wiki.active THEN shelf.files ELSE NoFiles
<1>1. laid \in [Spots -> PageRow \cup {None}] /\ (~wiki.active => laid = NoFiles)
  BY DEF WorkspaceInv, WorkspaceShape, NoFiles
<1>2. \A p \in Spots : laid[p] # None => laid[p] = shelf.files[p]
  BY DEF NoFiles
<1>3. Counted \in 0 .. Cardinality(Papers) /\ ExportedReports \in 0 .. MaxTexts
  BY ExportPointwise DEF WorkspaceInv
<1>4. wiki.active => laid = shelf.files
  OBVIOUS
<1>5. ~wiki.active => ExportedReports = 0
  BY DEF ExportedReports
<1>6. shelf' = [files |-> laid, reports |-> ExportedReports, count |-> Counted]
  BY DEF CallEnds
<1> HIDE DEF laid
<1>7. /\ shelf' \in ShelfRow /\ shelf'.files = laid /\ shelf'.reports = ExportedReports
      /\ shelf'.count = Counted
  BY <1>1, <1>3, <1>6 DEF ShelfRow
<1>8. past.seen = {} /\ wiki.active => \A d \in Papers : Shown(d) => shelf'.files[Spot(d)] = Page(d)
  BY <1>4, <1>7, AloneLacks DEF CallEnds, Rereads
<1> QED
  BY <1>1, <1>2, <1>5, <1>7, <1>8, CallEndsKeep DEF CallEnds

\* A call after the feature is restored, while others are under way.
LEMMA ExportKeeps ==
    ASSUME WorkspaceAssumption, WorkspaceInv, NEW r \in Changers, told[r].kind = "unarchived",
           CallEnds(r, Export)
    PROVE  WorkspaceInv'
<1>1. /\ Exported \in [Spots -> PageRow \cup {None}]
      /\ \A d \in Papers : wiki.active /\ Shown(d) => Exported[Spot(d)] = Page(d)
      /\ \A p \in Spots : Exported[p] # None =>
           wiki.active /\ \E d \in Papers : Shown(d) /\ Spot(d) = p /\ Exported[p] = Page(d)
      /\ Counted \in 0 .. Cardinality(Papers) /\ ExportedReports \in 0 .. MaxTexts
  BY ExportPointwise DEF WorkspaceInv
<1>2. ~wiki.active => Exported = NoFiles /\ ExportedReports = 0
  BY DEF Exported, NoFiles, ExportedReports
<1>3. /\ shelf' \in ShelfRow /\ shelf'.files = Exported /\ shelf'.reports = ExportedReports
      /\ shelf'.count = Counted
  BY <1>1 DEF CallEnds, Export, ShelfRow
<1> QED
  BY <1>1, <1>2, <1>3, CallEndsKeep DEF CallEnds

\* A call that begins with the files: each goes where its document went, and the
\* documents are still to be read again.
LEMMA MoveBegins ==
    ASSUME WorkspaceAssumption, WorkspaceInv, NEW r \in Changers, Due(r),
           FirstMove(told[r]), wiki' = wiki, past' = past,
           told' = [told EXCEPT ![r] = [told[r] EXCEPT !.moved = TRUE]],
           NEW laid \in [Spots -> PageRow \cup {None}],
           shelf' = FilesOnly(laid) \/ shelf' = Refreshed(laid),
           \A p \in Spots : laid[p] # None =>
             \E q \in Spots : laid[p] = shelf.files[q] /\ p = Shift(told[r], q),
           past.seen = {} => \A d \in Papers :
             Shown(d) /\ d \notin told[r].ids => laid[Spot(d)] = shelf.files[Spot(d)]
    PROVE  WorkspaceInv'
<1>1. /\ told[r] \in EventRow /\ told[r].kind = "moved" /\ ~told[r].moved /\ told[r].ids # {}
  BY DEF Due, WorkspaceInv, WorkspaceShape, FirstMove, Nothing
<1>2. \A e \in EventRow : LET f == [e EXCEPT !.moved = TRUE] IN
        /\ f \in EventRow /\ f.moved /\ f.kind = e.kind /\ f.old = e.old /\ f.new = e.new
        /\ f.ids = e.ids /\ f.wide = e.wide
  BY DEF EventRow
<1>3. /\ told' \in [Changers -> EventRow \cup {None}]
      /\ \A s \in Changers \ {r} : told'[s] = told[s]
      /\ told'[r] \in EventRow /\ told'[r] # None
      /\ told'[r].moved /\ told'[r].kind = told[r].kind /\ told'[r].old = told[r].old
      /\ told'[r].new = told[r].new
      /\ told'[r].ids = told[r].ids /\ told'[r].wide = told[r].wide
  <2>1. told'[r] = [told[r] EXCEPT !.moved = TRUE] /\ \A s \in Changers \ {r} : told'[s] = told[s]
    BY DEF WorkspaceInv, WorkspaceShape
  <2>2. told'[r] \in EventRow
    BY <1>1, <1>2, <2>1
  <2>3. told' \in [Changers -> EventRow \cup {None}]
    BY <1>1, <1>2 DEF WorkspaceInv, WorkspaceShape
  <2>4. told'[r] # None
    BY <2>2, NoneIsNothing
  <2> QED
    BY <1>1, <1>2, <2>1, <2>2, <2>3, <2>4
<1>4. \A s \in Changers : Due(s)' <=> Due(s)
  BY <1>3 DEF Due
<1>5. \A s \in Changers : /\ told'[s] # None => told'[s].kind = told[s].kind
                          /\ told'[s] # None => told'[s].ids = told[s].ids
                          /\ told'[s] # None => told'[s].old = told[s].old
                          /\ told'[s] # None => told'[s].new = told[s].new
                          /\ told'[s] # None => told'[s].wide = told[s].wide
  BY <1>3
<1>6. \A d \in Papers : Spot(d)' = Spot(d) /\ Page(d)' = Page(d) /\ (Shown(d)' <=> Shown(d))
  BY DEF Spot, Page, Shown
<1>7. Live' = Live /\ Counted' = Counted /\ ExportedReports' = ExportedReports /\ NoFiles' = NoFiles
  BY <1>6, SameCount DEF Live, ExportedReports, NoFiles
<1>8. /\ shelf' \in ShelfRow /\ shelf'.files = laid /\ shelf'.reports = shelf.reports
      /\ shelf'.count \in {shelf.count, Counted}
  BY RefreshedIs
<1>9. WorkspaceShape'
  BY <1>3, <1>8 DEF WorkspaceInv, WorkspaceShape, ShelfRow
<1>10. Housed'
  BY <1>7 DEF WorkspaceInv, Housed, Spot
<1>11. \A s \in Changers : Due(s)' => Due(s) /\ /\ told'[s].kind = told[s].kind
                                             /\ told'[s].ids = told[s].ids
                                             /\ told'[s].old = told[s].old
                                             /\ told'[s].new = told[s].new
                                             /\ told'[s].wide = told[s].wide
  BY <1>4, <1>5 DEF Due
<1>12. EventsShaped'
  <2> SUFFICES ASSUME NEW s \in Changers, Due(s)' PROVE EventShape(told'[s])
    BY DEF EventsShaped
  <2>1. EventShape(told[s]) /\ Due(s)
    BY <1>4 DEF WorkspaceInv, EventsShaped
  <2>2. CASE s # r
    BY <1>3, <2>1, <2>2
  <2>3. CASE s = r
    BY <1>3, <1>11, <2>1, <2>3 DEF EventShape, Single
  <2> QED
    BY <2>2, <2>3
<1>13. OneAtATime' /\ MovesAlone'
  BY <1>11 DEF WorkspaceInv, OneAtATime, MovesAlone, Calm
<1>14. DeletedWhere'
  <2> SUFFICES ASSUME Calm, NEW s \in Changers, Due(s)', told'[s].kind = "deleted",
                      Single(told[s])', NEW d \in told'[s].ids
               PROVE  Spot(d)' = told'[s].old
    BY DEF DeletedWhere, Calm
  <2>1. Due(s) /\ told'[s].kind = told[s].kind /\ told'[s].ids = told[s].ids
        /\ told'[s].old = told[s].old /\ Single(told[s])
    BY <1>11 DEF Single
  <2>2. d \in Papers
    BY <2>1 DEF WorkspaceInv, WorkspaceShape, Due, EventRow
  <2> QED
    BY <1>6, <2>1, <2>2 DEF WorkspaceInv, DeletedWhere
<1>15. CountSettles'
  <2>1. ~Nothing(told[r])'
    BY <1>1, <1>3 DEF Nothing
  <2> QED
    BY <1>4, <2>1 DEF CountSettles
<1>16. ArchiveSettles'
  <2>1. shelf.files = NoFiles => shelf'.files = NoFiles
    <3> SUFFICES ASSUME shelf.files = NoFiles PROVE laid = NoFiles
      BY <1>8
    <3>1. \A p \in Spots : NoFiles[p] = None
      BY DEF NoFiles
    <3>2. \A p \in Spots : laid[p] = None
      BY <3>1
    <3> QED
      BY <3>2 DEF NoFiles
  <2> QED
    BY <1>7, <1>8, <1>11, <1>4, <2>1 DEF WorkspaceInv, ArchiveSettles, Lossless
<1>17. SoleSettles'
  <2> SUFFICES ASSUME past.seen = {}, NEW s \in Changers, Due(s)' PROVE EventSole(told[s])'
    BY DEF SoleSettles
  <2>1. EventSole(told[s]) /\ Due(s)
    BY <1>4 DEF WorkspaceInv, SoleSettles
  <2>2. Live \subseteq Papers /\ \A d \in Live : Spot(d)' = Spot(d)
    BY <1>6 DEF Live
  <2> QED
    BY <1>7, <1>11, <2>1, <2>2 DEF EventSole, Single
<1>18. ReportsSettle'
  BY <1>4, <1>7, <1>8, <1>11 DEF WorkspaceInv, ReportsSettle
<1>19. ShownSettles'
  <2> SUFFICES ASSUME past.seen = {}, wiki.active, NEW d \in Papers, Shown(d)
               PROVE  \/ shelf'.files[Spot(d)] = Page(d)
                      \/ \E s \in Changers : Due(s)' /\
                           \/ told'[s].kind = "unarchived"
                           \/ told'[s].kind \in Rereads /\ d \in told'[s].ids
    BY <1>6 DEF ShownSettles
  <2>1. CASE d \in told[r].ids
    BY <1>1, <1>4, <1>11, <2>1 DEF Rereads
  <2>2. CASE d \notin told[r].ids
    <3>1. shelf.files[Spot(d)] = Page(d)
      BY <1>1, <2>2, AloneLacks
    <3> QED
      BY <1>8, <2>2, <3>1
  <2> QED
    BY <2>1, <2>2
<1>20. FilesSettle'
  <2> SUFFICES ASSUME Calm, NEW p \in Spots, shelf'.files[p] # None
               PROVE  FileSettles(shelf.files[p][1], p)'
    BY DEF FilesSettle, Calm
  <2>1. PICK q \in Spots : laid[p] = shelf.files[q] /\ p = Shift(told[r], q)
    BY <1>8
  <2>2. PICK d \in Papers : d = shelf.files[q][1] /\ d = shelf'.files[p][1]
    <3>1. shelf.files[q] \in PageRow
      BY <1>8, <2>1 DEF WorkspaceInv, WorkspaceShape
    <3> QED
      BY <1>8, <2>1, <3>1 DEF PageRow
  <2>3. FileSettles(d, q) /\ shelf'.files[p] = shelf.files[q]
    BY <1>8, <2>1, <2>2 DEF WorkspaceInv, FilesSettle
  <2>4. \A s \in Changers : Due(s) => s = r
    BY <1>1 DEF WorkspaceInv, MovesAlone
  <2>5. Spot(d) = p
    BY <2>1, <2>3, <2>4 DEF FileSettles, BelongsAt
  <2>6. \A s \in Changers : Due(s)' => ~FirstMove(told[s])'
    BY <1>3, <1>4, <2>4 DEF FirstMove
  <2>7. BelongsAt(d, p)'
    BY <1>6, <2>5, <2>6 DEF BelongsAt
  <2>8. FileSettles(d, p)'
    BY <1>4, <1>6, <1>11, <2>3, <2>7 DEF FileSettles
  <2> QED
    BY <2>2, <2>8
<1> QED
  BY <1>9, <1>10, <1>12, <1>13, <1>14, <1>15, <1>16, <1>17, <1>18, <1>19, <1>20 DEF WorkspaceInv

\* The files of a document that is renamed, and of a folder that is.
LEMMA MoveKeeps ==
    ASSUME WorkspaceAssumption, WorkspaceInv, NEW r \in Changers, Due(r),
           FirstMove(told[r]), wiki' = wiki, past' = past,
           told' = [told EXCEPT ![r] = [told[r] EXCEPT !.moved = TRUE]],
           \/ told[r].wide /\ shelf' = FilesOnly(MovedTree(told[r].old[1], told[r].new[1]))
           \/ ~told[r].wide /\ shelf' = Refreshed(MovedFile(told[r].old, told[r].new))
    PROVE  WorkspaceInv'
<1>1. /\ EventShape(told[r]) /\ told[r].ids # {} /\ told[r].wide \in BOOLEAN
      /\ told[r].kind = "moved" /\ told[r].ids \in SUBSET Papers
  BY DEF Due, WorkspaceInv, WorkspaceShape, FirstMove, Nothing, EventsShaped, EventRow
<1>2. \A p \in Spots : shelf.files[p] \in PageRow \cup {None}
  BY DEF WorkspaceInv, WorkspaceShape
<1>3. shelf.files \in [Spots -> PageRow \cup {None}]
  BY DEF WorkspaceInv, WorkspaceShape
<1>4. \A d \in Papers : Shown(d) => d \in Live /\ Spot(d) \in Spots
  BY RowsShaped DEF WorkspaceInv
<1>5. past.seen = {} => EventSole(told[r])
  BY AloneLacks
<1>6. CASE told[r].wide
  <2>1. PICK a, b \in Dirs : a # b /\ told[r].old = <<a>> /\ told[r].new = <<b>>
    BY <1>1, <1>6 DEF EventShape
  <2>2. told[r].old[1] = a /\ told[r].new[1] = b
    BY <2>1
  <2> DEFINE laid == MovedTree(a, b)
  <2>3. shelf' = FilesOnly(laid)
    BY <1>6, <2>2
  <2>4. \A p \in Spots : Shift(told[r], p) = IF p[1] = a THEN <<b, p[2]>> ELSE p
    BY <1>6, <2>2 DEF Shift
  <2>5. \A p \in Spots : p[1] \in Dirs /\ p[2] \in Labels /\ p = <<p[1], p[2]>>
    BY DEF Spots
  <2>6. \A leaf \in Labels : <<a, leaf>> \in Spots
    BY DEF Spots
  <2>7. CASE \A leaf \in Labels : shelf.files[<<a, leaf>>] = None
    <3>1. laid = shelf.files
      BY <2>7 DEF MovedTree
    <3>2. \A p \in Spots : shelf.files[p] # None => p[1] # a
      BY <2>5, <2>7
    <3> HIDE DEF laid
    <3>3. \A p \in Spots : laid[p] # None =>
             \E q \in Spots : laid[p] = shelf.files[q] /\ p = Shift(told[r], q)
      BY <2>4, <3>1, <3>2
    <3>4. past.seen = {} => \A d \in Papers :
             Shown(d) /\ d \notin told[r].ids => laid[Spot(d)] = shelf.files[Spot(d)]
      BY <3>1
    <3>5. laid \in [Spots -> PageRow \cup {None}]
      BY <1>3, <3>1
    <3> QED
      BY <2>3, <3>3, <3>4, <3>5, MoveBegins
  <2>8. CASE ~\A leaf \in Labels : shelf.files[<<a, leaf>>] = None
    <3>1. /\ laid = [p \in Spots |-> laid[p]]
          /\ \A p \in Spots : laid[p] = IF p[1] = b THEN shelf.files[<<a, p[2]>>]
                                         ELSE IF p[1] = a THEN None
                                         ELSE shelf.files[p]
      BY <2>8 DEF MovedTree
    <3> HIDE DEF laid
    <3>2. \A p \in Spots : laid[p] \in PageRow \cup {None}
      BY <1>2, <2>5, <2>6, <3>1
    <3>3. laid \in [Spots -> PageRow \cup {None}]
      BY <3>1, <3>2
    <3>4. ASSUME NEW p \in Spots, laid[p] # None
          PROVE  \E q \in Spots : laid[p] = shelf.files[q] /\ p = Shift(told[r], q)
      <4>1. CASE p[1] = b
        <5> DEFINE q == <<a, p[2]>>
        <5>1. q \in Spots /\ q[1] = a /\ q[2] = p[2]
          BY <2>5, <2>6
        <5>2. Shift(told[r], q) = <<b, p[2]>>
          BY <2>4, <5>1
        <5>3. p = <<b, p[2]>>
          BY <2>5, <4>1
        <5> QED
          BY <3>1, <4>1, <5>1, <5>2, <5>3
      <4>2. CASE p[1] # b
        BY <2>4, <3>1, <3>4, <4>2
      <4> QED
        BY <4>1, <4>2
    <3>5. past.seen = {} => \A d \in Papers : Shown(d) => d \in told[r].ids
      BY <1>1, <1>4, <1>5, <1>6 DEF EventSole
    <3> QED
      BY <2>3, <3>3, <3>4, <3>5, MoveBegins
  <2> QED
    BY <2>7, <2>8
<1>7. CASE ~told[r].wide
  <2> DEFINE old == told[r].old
  <2> DEFINE new == told[r].new
  <2> DEFINE laid == MovedFile(old, new)
  <2>1. old \in Spots /\ new \in Spots /\ old # new
    BY <1>1, <1>7 DEF EventShape, Single
  <2>2. shelf' = Refreshed(laid)
    BY <1>7
  <2>3. \A p \in Spots : Shift(told[r], p) = IF p = old THEN new ELSE p
    BY <1>7 DEF Shift
  <2>4. past.seen = {} => \A d \in Papers : Shown(d) /\ d \notin told[r].ids => Spot(d) \notin {old, new}
    BY <1>1, <1>4, <1>5, <1>7 DEF EventSole, Single
  <2>5. CASE shelf.files[old] = None
    <3>1. laid = shelf.files
      BY <2>5 DEF MovedFile
    <3> HIDE DEF laid
    <3>2. \A p \in Spots : laid[p] # None =>
             \E q \in Spots : laid[p] = shelf.files[q] /\ p = Shift(told[r], q)
      BY <2>3, <2>5, <3>1
    <3>3. past.seen = {} => \A d \in Papers :
             Shown(d) /\ d \notin told[r].ids => laid[Spot(d)] = shelf.files[Spot(d)]
      BY <3>1
    <3>4. laid \in [Spots -> PageRow \cup {None}]
      BY <1>3, <3>1
    <3> QED
      BY <2>2, <3>2, <3>3, <3>4, MoveBegins
  <2>6. CASE shelf.files[old] # None
    <3>1. /\ laid = [p \in Spots |-> laid[p]]
          /\ \A p \in Spots : laid[p] = IF p = new THEN shelf.files[old]
                                         ELSE IF p = old THEN None
                                         ELSE shelf.files[p]
      BY <2>6 DEF MovedFile
    <3> HIDE DEF laid
    <3>2. \A p \in Spots : laid[p] \in PageRow \cup {None}
      BY <1>2, <2>1, <3>1
    <3>3. laid \in [Spots -> PageRow \cup {None}]
      BY <3>1, <3>2
    <3>4. ASSUME NEW p \in Spots, laid[p] # None
          PROVE  \E q \in Spots : laid[p] = shelf.files[q] /\ p = Shift(told[r], q)
      <4>1. CASE p = new
        BY <2>1, <2>3, <3>1, <4>1
      <4>2. CASE p # new
        BY <2>3, <3>1, <3>4, <4>2
      <4> QED
        BY <4>1, <4>2
    <3>5. past.seen = {} => \A d \in Papers :
             Shown(d) /\ d \notin told[r].ids => laid[Spot(d)] = shelf.files[Spot(d)]
      BY <1>4, <2>4, <3>1
    <3> QED
      BY <2>2, <3>3, <3>4, <3>5, MoveBegins
  <2> QED
    BY <2>5, <2>6
<1> QED
  BY <1>6, <1>7

\* An export with nobody left under way.
LEMMA ExportKeepsAll ==
    ASSUME WorkspaceAssumption, WorkspaceInv, \A r \in Changers : told'[r] = None,
           wiki' = wiki, shelf' = Export, told' \in [Changers -> EventRow \cup {None}],
           past' \in [changes : 0 .. MaxChanges,
                      seen : SUBSET {"overlap", "crossed", "lost", "dragged"}]
    PROVE  WorkspaceInv'
<1>1. Export' = Export
  <2>1. \A d \in Papers : Spot(d)' = Spot(d) /\ Page(d)' = Page(d) /\ (Shown(d)' <=> Shown(d))
    BY DEF Spot, Page, Shown
  <2>2. Exported' = Exported
    BY DEF Exported, Spot, Page, Shown
  <2>3. Counted' = Counted /\ ExportedReports' = ExportedReports
    BY <2>1, SameCount DEF ExportedReports
  <2> QED
    BY <2>2, <2>3 DEF Export
<1>2. WorkspaceShape'
  <2>1. /\ Exported \in [Spots -> PageRow \cup {None}]
        /\ Counted \in 0 .. Cardinality(Papers) /\ ExportedReports \in 0 .. MaxTexts
    BY ExportPointwise DEF WorkspaceInv
  <2> QED
    BY <2>1 DEF WorkspaceInv, WorkspaceShape, Export
<1>3. Housed'
  <2>1. Live' = Live
    BY DEF Live
  <2> QED
    BY <2>1 DEF WorkspaceInv, Housed, Spot
<1>4. Quiet'
  BY DEF Quiet
<1> QED
  BY <1>1, <1>2, <1>3, <1>4, ExportSettlesAfter

\* What is made of an event that documents are moved, deleted or read again for.
LEMMA ResultIs ==
    ASSUME NEW e \in EventRow
    PROVE  /\ e.kind = "moved" /\ ~e.moved =>
                Result(e) = IF e.wide THEN FilesOnly(MovedTree(e.old[1], e.new[1]))
                            ELSE Refreshed(MovedFile(e.old, e.new))
           /\ e.kind \in Rereads /\ (e.kind = "moved" => e.moved) =>
                Result(e) = Refreshed(Projected(e.ids))
           /\ e.kind = "deleted" /\ e.wide => Result(e) = Refreshed(Gone({Spot(d) : d \in e.ids}))
           /\ e.kind = "deleted" /\ ~e.wide => Result(e) = Refreshed(Gone({e.old}))
<1>1. e.wide \in BOOLEAN /\ e.moved \in BOOLEAN
  BY DEF EventRow
<1>2. CASE e.kind = "moved"
  <2>1. CASE e.moved
    BY <1>2, <2>1 DEF Result, AfterMove
  <2>2. CASE ~e.moved /\ e.wide
    BY <1>2, <2>2 DEF Result
  <2>3. CASE ~e.moved /\ ~e.wide
    BY <1>2, <2>3 DEF Result
  <2> QED
    BY <1>1, <1>2, <2>1, <2>2, <2>3
<1>3. CASE e.kind = "deleted"
  <2>1. CASE e.wide
    BY <1>3, <2>1 DEF Result, Rereads
  <2>2. CASE ~e.wide
    BY <1>3, <2>2 DEF Result, Rereads
  <2> QED
    BY <1>1, <2>1, <2>2
<1>4. CASE e.kind \in {"published", "restored"}
  BY <1>4 DEF Result
<1> QED
  BY <1>2, <1>3, <1>4 DEF Rereads

\* Whatever call of the projector comes next.
LEMMA DrainKeeps ==
    ASSUME WorkspaceAssumption, WorkspaceInv, NEW r \in Changers, Drain(r)
    PROVE  WorkspaceInv'
<1>1. /\ Due(r) /\ wiki' = wiki /\ told[r] \in EventRow /\ told[r].kind \in Kinds
      /\ told[r].wide \in BOOLEAN /\ told[r].moved \in BOOLEAN
      /\ told' = [told EXCEPT ![r] = IF FirstMove(told[r]) THEN [told[r] EXCEPT !.moved = TRUE]
                                     ELSE None]
      /\ shelf' = IF Nothing(told[r]) THEN shelf ELSE Result(told[r])
  BY DEF Drain, Due, WorkspaceInv, WorkspaceShape, EventRow, FirstMove
<1>2. CASE FirstMove(told[r])
  <2>1. told[r].kind = "moved" /\ ~told[r].moved /\ ~Nothing(told[r])
    BY <1>2 DEF FirstMove
  <2>2. past' = past
    BY <2>1 DEF Drain
  <2>3. told' = [told EXCEPT ![r] = [told[r] EXCEPT !.moved = TRUE]]
    BY <1>1, <1>2
  <2>4. Result(told[r]) = IF told[r].wide
                          THEN FilesOnly(MovedTree(told[r].old[1], told[r].new[1]))
                          ELSE Refreshed(MovedFile(told[r].old, told[r].new))
    BY <1>1, <2>1, ResultIs
  <2> QED
    BY <1>1, <1>2, <2>1, <2>2, <2>3, <2>4, MoveKeeps
<1>3. CASE told[r].kind = "unarchived" /\ past' # past
  <2>1. ~FirstMove(told[r]) /\ ~Nothing(told[r])
    BY <1>3 DEF FirstMove, Nothing
  <2>2. shelf' = Export
    BY <1>1, <1>3, <2>1 DEF Result
  <2>3. \A s \in Changers \ {r} : told[s] = None
    BY <1>3 DEF Drain
  <2>4. told' = [told EXCEPT ![r] = None] /\ past' = [past EXCEPT !.seen = {}]
    BY <1>1, <1>3, <2>1 DEF Drain
  <2>5. /\ told' \in [Changers -> EventRow \cup {None}]
        /\ \A s \in Changers : told'[s] = None
    BY <2>3, <2>4 DEF WorkspaceInv, WorkspaceShape
  <2>6. past' \in [changes : 0 .. MaxChanges,
                   seen : SUBSET {"overlap", "crossed", "lost", "dragged"}]
    BY <2>4 DEF WorkspaceInv, WorkspaceShape
  <2> QED
    BY <1>1, <2>2, <2>5, <2>6, ExportKeepsAll
<1>4. CASE ~FirstMove(told[r]) /\ past' = past
  <2>1. ASSUME NEW made, shelf' = made PROVE CallEnds(r, made)
    BY <1>1, <1>4, <2>1 DEF CallEnds
  <2>2. CASE Nothing(told[r])
    BY <1>1, <2>1, <2>2, NothingKeeps
  <2>3. CASE ~Nothing(told[r]) /\ told[r].kind = "index"
    BY <1>1, <2>1, <2>3, IndexKeeps DEF Result
  <2>4. CASE ~Nothing(told[r]) /\ told[r].kind \in Rereads
    <3>1. told[r].kind = "moved" => told[r].moved
      BY <1>4, <2>4 DEF FirstMove
    <3>2. Result(told[r]) = Refreshed(Projected(told[r].ids))
      BY <1>1, <2>4, <3>1, ResultIs
    <3> QED
      BY <1>1, <2>1, <2>4, <3>2, RereadKeeps
  <2>5. CASE ~Nothing(told[r]) /\ told[r].kind = "deleted"
    <3> DEFINE spots == IF told[r].wide THEN {Spot(d) : d \in told[r].ids} ELSE {told[r].old}
    <3>1. Result(told[r]) = Refreshed(Gone(spots))
      BY <1>1, <2>5, ResultIs
    <3>2. CallEnds(r, Refreshed(Gone(spots)))
      BY <1>1, <2>1, <2>5, <3>1
    <3>3. \/ told[r].wide /\ spots = {Spot(d) : d \in told[r].ids}
          \/ ~told[r].wide /\ spots = {told[r].old}
      BY <1>1
    <3> HIDE DEF spots
    <3> QED
      BY <2>5, <3>2, <3>3, DeletedKeeps
  <2>6. CASE ~Nothing(told[r]) /\ told[r].kind = "archived"
    BY <1>1, <2>1, <2>6, ArchivedKeeps DEF Result
  <2>7. CASE ~Nothing(told[r]) /\ told[r].kind = "report"
    BY <1>1, <2>1, <2>7, ReportKeeps DEF Result
  <2>8. CASE ~Nothing(told[r]) /\ told[r].kind = "unarchived"
    BY <1>1, <2>1, <2>8, ExportKeeps DEF Result
  <2> QED
    BY <1>1, <2>2, <2>3, <2>4, <2>5, <2>6, <2>7, <2>8 DEF Kinds, Rereads
<1> QED
  BY <1>2, <1>3, <1>4 DEF Drain

\* What is lost is remembered, and nothing is asked of the workspace any more.
LEMMA LoseKeeps ==
    ASSUME WorkspaceAssumption, WorkspaceInv, NEW r \in Changers, Lose(r)
    PROVE  WorkspaceInv'
<1>1. /\ told' \in [Changers -> EventRow \cup {None}] /\ told'[r] = None
      /\ \A s \in Changers \ {r} : told'[s] = told[s]
  BY DEF Lose, WorkspaceInv, WorkspaceShape
<1>2. /\ past' \in [changes : 0 .. MaxChanges,
                     seen : SUBSET {"overlap", "crossed", "lost", "dragged"}]
      /\ "lost" \in past'.seen
  BY DEF Lose, WorkspaceInv, WorkspaceShape
<1>3. ~Lossless' /\ ~Calm' /\ past'.seen # {}
  BY <1>2 DEF Lossless, Calm
<1>4. WorkspaceShape'
  BY <1>1, <1>2 DEF Lose, WorkspaceInv, WorkspaceShape
<1>5. Housed'
  <2>1. Live' = Live /\ wiki' = wiki
    BY DEF Live, Lose
  <2> QED
    BY <2>1 DEF WorkspaceInv, Housed, Spot
<1>6. EventsShaped'
  BY <1>1 DEF WorkspaceInv, EventsShaped, Due
<1> QED
  BY <1>3, <1>4, <1>5, <1>6 DEF WorkspaceInv, CountSettles, ArchiveSettles, FilesSettle,
    MovesAlone, DeletedWhere, OneAtATime, ShownSettles, ReportsSettle, SoleSettles

\* The server starts on a workspace without a manifest.
LEMMA BootstrapKeeps ==
    ASSUME WorkspaceAssumption, WorkspaceInv, Bootstrap
    PROVE  WorkspaceInv'
<1>1. past' \in [changes : 0 .. MaxChanges,
                 seen : SUBSET {"overlap", "crossed", "lost", "dragged"}]
  BY DEF Bootstrap, WorkspaceInv, WorkspaceShape
<1>2. /\ told' \in [Changers -> EventRow \cup {None}]
      /\ \A r \in Changers : told'[r] = None
  BY DEF Bootstrap, Quiet, WorkspaceInv, WorkspaceShape
<1> QED
  BY <1>1, <1>2, ExportKeepsAll DEF Bootstrap

\* Every step of the workspace part.
LEMMA WorkspaceStep ==
    ASSUME WorkspaceAssumption, WorkspaceInv, InPlaceNext
    PROVE  WorkspaceInv'
<1>1. ASSUME NEW r \in Changers, Change(r) PROVE WorkspaceInv'
  BY <1>1, CreateKeeps, RenameKeeps, PublishKeeps, DeletePaperKeeps, FolderMovesKeep,
     DeleteFolderKeeps, RestoreFolderKeeps, PlainChangesKeep DEF Change
<1> QED
  BY <1>1, DrainKeeps, LoseKeeps, RestorePaperKeeps, BootstrapKeeps DEF InPlaceNext

\* A workspace that has been exported, or a bare one.
LEMMA WorkspaceStart ==
    ASSUME WorkspaceAssumption, WorkspaceInit
    PROVE  WorkspaceInv
<1> DEFINE dir == CHOOSE x \in Dirs : TRUE
<1> DEFINE leaf == CHOOSE x \in Labels : TRUE
<1>1. dir \in Dirs /\ leaf \in Labels
  BY DEF WorkspaceAssumption
<1>2. PICK d \in Papers, exported \in BOOLEAN :
        /\ wiki = [dir |-> dir, folder |-> TRUE, active |-> TRUE, report |-> 1,
                   rows |-> [e \in Papers |->
                     IF e = d THEN [dir |-> dir, leaf |-> leaf, text |-> 1, live |-> TRUE]
                     ELSE NoPaper]]
        /\ shelf = IF exported THEN Export ELSE Bare
        /\ told = [r \in Changers |-> None]
        /\ past = [changes |-> 0, seen |-> IF exported THEN {} ELSE {"lost"}]
  BY DEF WorkspaceInit
<1> HIDE DEF dir, leaf
<1>3. 0 \in 0 .. MaxTexts /\ 1 \in 0 .. MaxTexts /\ 1 \in 1 .. MaxTexts /\ 0 \in 0 .. MaxChanges
  BY DEF WorkspaceAssumption
<1>4. [dir |-> dir, leaf |-> leaf, text |-> 1, live |-> TRUE] \in PaperRow
  BY <1>1, <1>3 DEF PaperRow
<1>5. wiki \in WikiRow
  BY <1>1, <1>2, <1>3, <1>4 DEF WikiRow
<1>6. Live = {d} /\ wiki.rows[d].dir = wiki.dir /\ wiki.folder
  BY <1>2 DEF Live, NoPaper
<1>7. Housed
  BY <1>6 DEF Housed
<1>8. Quiet /\ told \in [Changers -> EventRow \cup {None}]
  BY <1>2 DEF Quiet
<1>9. past \in [changes : 0 .. MaxChanges,
                seen : SUBSET {"overlap", "crossed", "lost", "dragged"}]
  BY <1>2, <1>3
<1>10. CASE shelf = Export /\ exported
  <2>1. Export \in ShelfRow
    <3>1. /\ Exported \in [Spots -> PageRow \cup {None}]
          /\ Counted \in 0 .. Cardinality(Papers) /\ ExportedReports \in 0 .. MaxTexts
      BY <1>5, <1>7, ExportFits
    <3> QED
      BY <3>1 DEF Export, ShelfRow
  <2>2. WorkspaceShape
    BY <1>5, <1>8, <1>9, <1>10, <2>1 DEF WorkspaceShape, WikiRow, ShelfRow
  <2> QED
    BY <1>7, <1>8, <1>10, <2>2, ExportSettles
<1>11. CASE shelf = Bare /\ ~exported
  <2>1. Bare \in ShelfRow
    BY <1>3 DEF Bare, ShelfRow, NoFiles
  <2>2. WorkspaceShape
    BY <1>5, <1>8, <1>9, <1>11, <2>1 DEF WorkspaceShape, WikiRow, ShelfRow
  <2>3. "lost" \in past.seen
    BY <1>2, <1>11
  <2>4. ~Lossless /\ ~Calm /\ past.seen # {}
    BY <2>3 DEF Lossless, Calm
  <2>5. \A r \in Changers : ~Due(r)
    BY <1>8 DEF Quiet, Due
  <2> QED
    BY <1>7, <2>2, <2>4, <2>5 DEF WorkspaceInv, CountSettles, ArchiveSettles, FilesSettle,
      MovesAlone, DeletedWhere, OneAtATime, ShownSettles, ReportsSettle, SoleSettles, EventsShaped
<1> QED
  BY <1>2, <1>10, <1>11

\* Steps that leave the workspace and the wiki alone.
LEMMA WorkspaceUnchanged ==
    ASSUME WorkspaceInv, UNCHANGED workspaceVars
    PROVE  WorkspaceInv'
BY SMTT(40) DEF workspaceVars, WorkspaceInv, WorkspaceShape, Housed, EventsShaped, CountSettles,
  ArchiveSettles, FilesSettle, MovesAlone, DeletedWhere, OneAtATime, ShownSettles,
  ReportsSettle, SoleSettles, Lossless, Calm, Due, Live, Spot, Page, Shown, Counted,
  ExportedReports, FileSettles, BelongsAt, EventSole, NoFiles

WorkspaceKept == part = "workspace" => WorkspaceInv

\* However changes, calls, losses and restarts follow each other: the manifest counts the
\* documents, nothing of an archived feature is left, without overlap the workspace is
\* what an export makes, and no file shows what is not there (wiki_workspace.py).
THEOREM WorkspaceStaysTrue == WikiSpec => []WorkspaceFollows
<1>1. WikiInit => WorkspaceKept
  BY WorkspaceAssumption, WorkspaceStart DEF WikiInit, WorkspaceKept
<1>2. WorkspaceKept /\ [WikiNext]_<<parts, part>> => WorkspaceKept'
  <2> SUFFICES ASSUME WorkspaceKept, [WikiNext]_<<parts, part>> PROVE WorkspaceKept'
    OBVIOUS
  <2>1. CASE part = "workspace" /\ InPlaceNext
    BY <2>1, WorkspaceAssumption, WorkspaceStep DEF WorkspaceKept
  <2>2. CASE UNCHANGED <<part, workspaceVars>>
    BY <2>2, WorkspaceUnchanged DEF WorkspaceKept, workspaceVars
  <2>3. CASE part # "workspace" /\ part' = part
    BY <2>3 DEF WorkspaceKept
  <2> QED
    BY <2>1, <2>2, <2>3 DEF WikiNext, ImportParts, parts
<1>3. WorkspaceKept => WorkspaceFollows
  BY WorkspaceAssumption, SettledFollows DEF WorkspaceKept, WorkspaceFollows
<1> QED
  BY <1>1, <1>2, <1>3, PTL DEF WikiSpec
=============================================================================

--------------------------- MODULE ChatPartsProofs ---------------------------
(***************************************************************************)
(* Proofs about the attachments, the reports, their drafts, the history and *)
(* the turns of a session, for any set of requests, ids, posts and scripts.*)
(***************************************************************************)
EXTENDS MCPlatform, TLAPS, FiniteSetTheorems, SequenceTheorems, WellFoundedInduction

-----------------------------------------------------------------------------
(* The attachments of a session (SessionAttachments) *)

FolderKept == folder = "kept"
\* A row is there from its upload to its deletion, and its file from before to after.
RowInTime ==
    \A u \in Attachments :
      /\ u \in stored => task[u].at \in {"there", "listing", "writing"}
      /\ FolderKept /\ task[u].at = "saved" => u \in files
OneWorks ==
    inTurn => \A u, v \in Attachments :
      task[u].at \in Working /\ task[v].at \in Working => u = v
ListIsFresh ==
    inTurn /\ FolderKept => \A u \in Attachments :
      /\ task[u].at \in {"writing", "unwriting"} => task[u].list = stored
      /\ task[u].at = "unlinking" => u \notin manifest
FilesInv == FilesTypeOK /\ RowHasFile /\ ListedIsThere /\ RowInTime /\ OneWorks /\ ListIsFresh

\* A session begins with an empty folder, no rows and no manifest.
LEMMA FilesStart == FilesInit => FilesInv
BY DEF FilesInit, FilesInv, FilesTypeOK, RowHasFile, ListedIsThere, RowInTime, OneWorks,
       ListIsFresh, FolderKept, Resting, Working

\* Uploading and deleting an attachment, a turn that writes the manifest
\* and a crash between any two steps keep rows, manifest and files in step.
LEMMA FilesStep == FilesInv /\ [FilesNext]_fileVars => FilesInv'
<1> SUFFICES ASSUME FilesInv, [FilesNext]_fileVars PROVE FilesInv'
  OBVIOUS
<1> USE DEF FilesInv, FilesTypeOK, RowHasFile, ListedIsThere, RowInTime, OneWorks,
            ListIsFresh, FolderKept, Resting, Working
<1>1. ASSUME NEW u \in Attachments, Admit(u) PROVE FilesInv'
  BY <1>1 DEF Admit, Turn, Sets
<1>2. ASSUME NEW u \in Attachments, SaveFile(u) PROVE FilesInv'
  BY <1>2 DEF SaveFile, Sets
<1>3. ASSUME NEW u \in Attachments, SaveRow(u) PROVE FilesInv'
  BY <1>3 DEF SaveRow, Sets
<1>4. ASSUME NEW u \in Attachments, ListRows(u) PROVE FilesInv'
  BY <1>4 DEF ListRows
<1>5. ASSUME NEW u \in Attachments, WriteManifest(u) PROVE FilesInv'
  BY <1>5 DEF WriteManifest
<1>6. ASSUME NEW u \in Attachments, Describe(u) PROVE FilesInv'
  BY <1>6 DEF Describe, Turn, Sets
<1>7. ASSUME NEW u \in Attachments, DeleteRow(u) PROVE FilesInv'
  BY <1>7 DEF DeleteRow, Turn, Sets
<1>8. ASSUME NEW u \in Attachments, Unlink(u) PROVE FilesInv'
  BY <1>8 DEF Unlink, Sets
<1>9. ASSUME DropSession PROVE FilesInv'
  BY <1>9 DEF DropSession
<1>10. ASSUME RemoveFolder PROVE FilesInv'
  BY <1>10 DEF RemoveFolder
<1>11. ASSUME Crash PROVE FilesInv'
  BY <1>11 DEF Crash
<1>12. CASE UNCHANGED fileVars
  BY <1>12 DEF fileVars
<1> QED
  BY <1>1, <1>2, <1>3, <1>4, <1>5, <1>6, <1>7, <1>8, <1>9, <1>10, <1>11, <1>12 DEF FilesNext

\* A step of the platform is one of the attachments, where they are the part, or none.
LEMMA FilesPart ==
    ASSUME [PlatformNext]_platform
    PROVE  part' = part /\ (part = "files" => [FilesNext]_fileVars)
BY DEF PlatformNext, platform, fileVars

\* Wherever CodeAsk crashes, a row of an attachment has its file, and the manifest
\* of a turn names files that are there (ListsAreTrue; upload_attachment and
\* delete_attachment).
THEOREM ListsStayTrue == PlatformSpec => []ListsAreTrue
<1> DEFINE I == part = "files" => FilesInv
<1>1. PlatformInit => I
  BY FilesStart DEF PlatformInit
<1>2. I /\ [PlatformNext]_platform => I'
  BY FilesPart, FilesStep
<1>3. I => ListsAreTrue
  BY DEF ListsAreTrue, FilesInv
<1> QED
  BY <1>1, <1>2, <1>3, PTL DEF PlatformSpec
-----------------------------------------------------------------------------
(* The reports of a session (SessionReports) *)

\* What _check_gate and the two columns of a verdict promise of one row.
Meets(row) ==
    /\ row.status = "verified" => row.meta = "backed" /\ row.by
    /\ row.verified <=> row.status = "verified"
\* A request knows which row it writes, and has one to write.
WritesRow ==
    \A r \in Editors :
      /\ editing[r].op \in {"write", "delete"} => editing[r].id \in ReportIds
      /\ editing[r].op = "write" => editing[r].seen \in ReportRows
      /\ editing[r].op = "generate" /\ editing[r].seen # None =>
           editing[r].id \in ReportIds /\ editing[r].seen \in ReportRows
      /\ editing[r].op \in {"write", "generate"} => editing[r].row \in ReportRows
OneRow == \A i, j \in ReportIds : reports[i] # None /\ reports[j] # None => i = j
\* While requests do not overlap, what one has read is what is there, and what
\* it will write passes the gate.
ReadInOrder ==
    orderly =>
      /\ \A q, r \in Editors : editing[q].op # "none" /\ editing[r].op # "none" => q = r
      /\ \A r \in Editors :
           /\ editing[r].op \in {"write", "generate"} => Meets(editing[r].row)
           /\ editing[r].op = "write" => editing[r].seen = reports[editing[r].id]
           /\ editing[r].op = "generate" /\ editing[r].seen # None =>
                editing[r].seen = reports[editing[r].id]
      /\ \A i \in ReportIds : reports[i] # None => Meets(reports[i])
ReportsInv ==
    /\ ReportsTypeOK /\ editing \in [Editors -> [op : {"none", "write", "delete", "generate"},
         id : ReportIds \cup {0}, seen : ReportRows \cup {None}, row : ReportRows \cup {None}]]
    /\ WritesRow /\ OneRow /\ ReadInOrder

\* 0, which stands for no report, is the id of none.
LEMMA IdsCount == ASSUME NEW i \in ReportIds PROVE i # 0 /\ i \in Int
BY ReportsAssumption, FS_CardinalityType

\* A commit yields a row, and the row that was meant if nobody wrote in between.
LEMMA ChangedIsRow ==
    ASSUME NEW old \in ReportRows, NEW seen \in ReportRows, NEW row \in ReportRows
    PROVE  /\ Changed(old, seen, row) \in ReportRows
           /\ Changed(seen, seen, row) = row
<1>1. DOMAIN row = {"status", "verified", "by", "meta"}
  BY DEF ReportRows
<1>2. Changed(old, seen, row) =
        [c \in {"status", "verified", "by", "meta"} |->
            IF row[c] = seen[c] THEN old[c] ELSE row[c]]
  BY <1>1 DEF Changed
<1>3. Changed(old, seen, row) \in ReportRows
  BY <1>2 DEF ReportRows
<1>4. Changed(seen, seen, row) = row
  BY DEF Changed, ReportRows
<1> QED
  BY <1>3, <1>4

\* With one row at most, the newest is that row.
LEMMA NewestIsPresent ==
    ASSUME OneRow, Present # {}
    PROVE  Newest \in Present
<1>1. PICK i \in Present : \A j \in Present : j = i
  BY DEF OneRow, Present
<1>2. \A j \in Present : j <= i
  BY <1>1, IdsCount DEF Present
<1> QED
  BY <1>1, <1>2 DEF Newest

\* There are no reports to begin with, so none is verified.
LEMMA ReportsStart == ReportsInit => ReportsInv
BY DEF ReportsInit, ReportsInv, ReportsTypeOK, WritesRow, OneRow, ReadInOrder, NotEditing

\* A request that begins has read its row, and will write one that passes.
LEMMA IntendKeeps ==
    ASSUME ReportsInv, NEW r \in Editors, NEW op \in {"write", "delete", "generate"},
           NEW id \in ReportIds \cup {0}, NEW row \in ReportRows \cup {None},
           id # 0 => id \in Present,
           id = 0 => op = "generate",
           op # "delete" => row \in ReportRows /\ (orderly => Meets(row)),
           Intend(r, op, id, row)
    PROVE  ReportsInv'
<1>1. id # 0 => reports[id] \in ReportRows /\ id \in ReportIds
  BY DEF Present, ReportsInv, ReportsTypeOK
<1>2. editing' = [editing EXCEPT ![r] =
                    [op |-> op, id |-> id, seen |-> IF id = 0 THEN None ELSE reports[id],
                     row |-> row]]
      /\ UNCHANGED <<reports, orderly>>
  BY DEF Intend
<1>3. orderly => \A q \in Editors : editing[q].op = "none"
  BY DEF Intend, ReportsInv
<1>4. ReportsTypeOK'
  BY <1>1, <1>2 DEF ReportsInv, ReportsTypeOK
<1>5. WritesRow'
  BY <1>1, <1>2 DEF ReportsInv, WritesRow
<1>6. ReadInOrder'
  BY <1>1, <1>2, <1>3 DEF ReportsInv, ReadInOrder
<1> QED
  BY <1>1, <1>2, <1>4, <1>5, <1>6 DEF ReportsInv, OneRow

\* Generating, editing, judging and deleting a report keep one row of the session,
\* and what a request has read of it fits what is there.
LEMMA ReportsStep == ReportsInv /\ [ReportsNext]_reportVars => ReportsInv'
<1> SUFFICES ASSUME ReportsInv, [ReportsNext]_reportVars PROVE ReportsInv'
  OBVIOUS
<1>1. ASSUME NEW r \in Editors, AskGenerate(r) PROVE ReportsInv'
  <2>1. \A meta \in Metas : Draft(meta) \in ReportRows /\ Meets(Draft(meta))
    BY DEF Draft, ReportRows, Statuses, Meets
  <2>2. \A meta \in Metas : Merged(meta) \subseteq Metas
    BY DEF Merged, Metas
  <2>3. CASE Present = {}
    <3>1. PICK meta \in Metas : Intend(r, "generate", 0, Draft(meta))
      BY <1>1, <2>2, <2>3 DEF AskGenerate, Metas
    <3> QED
      BY <2>1, <3>1, IntendKeeps
  <2>4. CASE Present # {}
    <3>1. Newest \in Present
      BY <2>4, NewestIsPresent DEF ReportsInv
    <3>2. reports[Newest].meta \in Metas
      BY <3>1 DEF Present, ReportsInv, ReportsTypeOK, ReportRows
    <3>3. PICK meta \in Metas : Intend(r, "generate", Newest, Draft(meta))
      BY <1>1, <2>2, <2>4, <3>2 DEF AskGenerate
    <3>4. Newest \in ReportIds /\ Newest # 0
      BY <3>1, IdsCount DEF Present
    <3> QED
      BY <2>1, <3>1, <3>3, <3>4, IntendKeeps
  <2> QED
    BY <2>3, <2>4
<1>2. ASSUME NEW r \in Editors, NEW id \in Present,
             \/ \E meta \in Metas : AskUpdate(r, id, meta)
             \/ AskVerify(r, id) \/ AskUnverify(r, id)
             \/ AskReject(r, id) \/ AskRemove(r, id)
      PROVE  ReportsInv'
  <2>1. reports[id] \in ReportRows /\ id \in ReportIds /\ id # 0
    BY IdsCount DEF Present, ReportsInv, ReportsTypeOK
  <2>2. orderly => Meets(reports[id])
    BY <2>1 DEF ReportsInv, ReadInOrder, Present
  <2>3. ASSUME NEW row \in ReportRows, orderly => Meets(row), Intend(r, "write", id, row)
        PROVE  ReportsInv'
    BY <2>1, <2>3, IntendKeeps
  <2>4. ASSUME NEW meta \in Metas, AskUpdate(r, id, meta) PROVE ReportsInv'
    BY <2>1, <2>2, <2>3, <2>4 DEF AskUpdate, ReportRows, Meets
  <2>5. ASSUME AskVerify(r, id) PROVE ReportsInv'
    BY <2>1, <2>2, <2>3, <2>5, Zenon DEF AskVerify, ReportRows, Statuses, Metas, Meets
  <2>6. ASSUME AskUnverify(r, id) PROVE ReportsInv'
    BY <2>1, <2>2, <2>3, <2>6, Zenon DEF AskUnverify, ReportRows, Statuses, Meets
  <2>7. ASSUME AskReject(r, id) PROVE ReportsInv'
    BY <2>1, <2>2, <2>3, <2>7, Zenon DEF AskReject, ReportRows, Statuses, Meets
  <2>8. ASSUME AskRemove(r, id) PROVE ReportsInv'
    BY <2>1, <2>8, IntendKeeps DEF AskRemove
  <2> QED
    BY <1>2, <2>4, <2>5, <2>6, <2>7, <2>8
<1>3. ASSUME NEW r \in Editors,
             CommitWrite(r) \/ CommitRemove(r) \/ CommitGenerate(r)
      PROVE  ReportsInv'
  <2> DEFINE e == editing[r]
  <2>1. editing' = [editing EXCEPT ![r] = NotEditing] /\ orderly' = orderly
    BY <1>3 DEF CommitWrite, CommitRemove, CommitGenerate, Closes
  <2>2. /\ reports' \in [ReportIds -> ReportRows \cup {None}]
        /\ OneRow'
        /\ orderly => \A i \in ReportIds : reports'[i] # None => Meets(reports'[i])
    <3>1. ASSUME NEW old \in ReportRows, e.id \in ReportIds, old = reports[e.id],
                 e.op \in {"write", "generate"}, e.op = "generate" => e.seen # None
          PROVE  /\ Changed(old, e.seen, e.row) \in ReportRows
                 /\ orderly => Meets(Changed(old, e.seen, e.row))
      <4>1. e.seen \in ReportRows /\ e.row \in ReportRows
        BY <3>1 DEF ReportsInv, WritesRow
      <4>2. orderly => e.seen = old /\ Meets(e.row)
        BY <3>1 DEF ReportsInv, ReadInOrder
      <4> QED
        BY <4>1, <4>2, ChangedIsRow
    <3>2. CASE CommitWrite(r)
      <4>1. e.op = "write" /\ e.id \in ReportIds
        BY <3>2 DEF CommitWrite, ReportsInv, WritesRow
      <4> QED
        BY <3>1, <3>2, <4>1
           DEF CommitWrite, ReportsInv, ReportsTypeOK, OneRow, ReadInOrder
    <3>3. CASE CommitRemove(r)
      BY <3>3 DEF CommitRemove, ReportsInv, ReportsTypeOK, OneRow, ReadInOrder, WritesRow
    <3>4. CASE CommitGenerate(r) /\ e.seen = None
      BY <3>4 DEF CommitGenerate, ReportsInv, ReportsTypeOK, OneRow, ReadInOrder, WritesRow
    <3>5. CASE CommitGenerate(r) /\ e.seen # None
      <4>1. e.op = "generate" /\ e.id \in ReportIds
        BY <3>5 DEF CommitGenerate, ReportsInv, WritesRow
      <4> QED
        BY <3>1, <3>5, <4>1
           DEF CommitGenerate, ReportsInv, ReportsTypeOK, OneRow, ReadInOrder
    <3> QED
      BY <1>3, <3>2, <3>3, <3>4, <3>5
  <2>3. \A q \in Editors : orderly /\ editing'[q].op # "none" => FALSE
    BY <1>3, <2>1 DEF CommitWrite, CommitRemove, CommitGenerate, ReportsInv, ReadInOrder,
                      NotEditing
  <2>4. ReportsTypeOK'
    BY <2>1, <2>2 DEF ReportsInv, ReportsTypeOK, NotEditing
  <2>5. WritesRow'
    BY <2>1 DEF ReportsInv, WritesRow, NotEditing
  <2>6. ReadInOrder'
    BY <2>1, <2>2, <2>3 DEF ReadInOrder
  <2> QED
    BY <2>1, <2>2, <2>4, <2>5, <2>6 DEF ReportsInv, NotEditing
<1>4. CASE UNCHANGED reportVars
  BY <1>4 DEF reportVars, ReportsInv, ReportsTypeOK, WritesRow, OneRow, ReadInOrder
<1> QED
  BY <1>1, <1>2, <1>3, <1>4 DEF ReportsNext

\* OneRow says of every two reports that they are one, so their number is one at most.
LEMMA OneRowMeansOne == OneRow => OneReportPerSession
<1> SUFFICES ASSUME OneRow PROVE Cardinality(Present) <= 1
  BY DEF OneReportPerSession
<1>1. CASE Present = {}
  BY <1>1, FS_EmptySet
<1>2. CASE Present # {}
  <2>1. PICK i \in Present : Present = {i}
    BY <1>2 DEF OneRow, Present
  <2>2. Cardinality({i}) = 1
    BY FS_Singleton
  <2> QED
    BY <2>1, <2>2
<1> QED
  BY <1>1, <1>2

\* A step of the platform is one of the reports, where they are the part, or none.
LEMMA ReportsPart ==
    ASSUME [PlatformNext]_platform
    PROVE  part' = part /\ (part = "reports" => [ReportsNext]_reportVars)
BY DEF PlatformNext, platform, reportVars

\* A session has at most one report, and while requests do not overlap a verified
\* one has the evidence _check_gate asks for and a flag that says the same as its
\* status (ReportIsSound).
THEOREM ReportsStaySound == PlatformSpec => []ReportIsSound
<1> DEFINE I == part = "reports" => ReportsInv
<1>1. PlatformInit => I
  BY ReportsStart DEF PlatformInit
<1>2. I /\ [PlatformNext]_platform => I'
  BY ReportsPart, ReportsStep
<1>3. I => ReportIsSound
  BY OneRowMeansOne DEF ReportIsSound, ReportsInv, VerifiedMeetsGate, ReadInOrder, Meets, Present
<1> QED
  BY <1>1, <1>2, <1>3, PTL DEF PlatformSpec

-----------------------------------------------------------------------------
(* The drafting of a report (ReportPreparation) *)

PrepAnswers == [key : Keys, status : {"running", "succeeded", "failed"},
             since : 0 .. MaxTalk, seen : 0 .. MaxTalk]
PrepShape ==
    /\ talk \in 0 .. MaxTalk /\ topics \subseteq Topics /\ calm \in BOOLEAN
    /\ posts \in [Posts -> [key : Keys \cup {None}, since : 0 .. MaxTalk]]
    /\ drafting \in [Drafters -> DraftTask \cup {None}]
    /\ answers \in Seq(PrepAnswers)
OncePerId == \A i, j \in DOMAIN answers : answers[i].key = answers[j].key => i = j
\* What is asked for, drafted and stored comes after what it is to cover.
CoversInTime ==
    /\ \A p \in Posts : posts[p].since <= talk
    /\ \A d \in Drafters : drafting[d] # None =>
          /\ talk >= 1 /\ drafting[d].since <= talk
          /\ drafting[d].seen # 0 => drafting[d].seen >= drafting[d].since
    /\ \A i \in DOMAIN answers :
          /\ answers[i].status = "succeeded" <=> answers[i].seen # 0
          /\ answers[i].status = "succeeded" => answers[i].seen >= answers[i].since
WorkedOn(k) == \E d \in Drafters : drafting[d] # None /\ drafting[d].key = k
RunningHasTask ==
    topics = Topics =>
      \A i \in DOMAIN answers : answers[i].status = "running" => WorkedOn(answers[i].key)
\* Where no id is asked for twice at a time, one that is asked for is nowhere yet.
AskedIsNew ==
    calm => /\ \A p \in Posts : posts[p].key # None =>
                 /\ \A o \in Posts : posts[o].key = posts[p].key => o = p
                 /\ ~WorkedOn(posts[p].key)
                 /\ \A i \in DOMAIN answers : answers[i].key # posts[p].key
            /\ \A c, d \in Drafters :
                 drafting[c] # None /\ drafting[d] # None /\ drafting[c].key = drafting[d].key
                   => c = d
PrepInv ==
    /\ PrepShape /\ OncePerId /\ Len(answers) <= CacheLimit
    /\ CoversInTime /\ RunningHasTask /\ AskedIsNew

\* Nothing has been said, asked for or drafted to begin with.
LEMMA PrepStart == PrepInit => PrepInv
<1> SUFFICES ASSUME PrepInit PROVE PrepInv
  OBVIOUS
<1>1. answers = <<>> /\ Len(answers) = 0 /\ DOMAIN answers = {} /\ answers \in Seq(PrepAnswers)
  BY DEF PrepInit
<1> QED
  BY <1>1, PreparationAssumption
     DEF PrepInit, PrepInv, PrepShape, OncePerId, CoversInTime, RunningHasTask, AskedIsNew,
         WorkedOn, NoPost

\* What is stored is there once, what was there under other ids stays or makes room.
LEMMA StoredKeeps ==
    ASSUME answers \in Seq(PrepAnswers), OncePerId, Len(answers) <= CacheLimit,
           NEW e \in PrepAnswers, Stored(e)
    PROVE  /\ answers' \in Seq(PrepAnswers)
           /\ OncePerId'
           /\ Len(answers') <= CacheLimit
           /\ \A i \in DOMAIN answers' :
                \/ answers'[i] = e
                \/ \E j \in DOMAIN answers :
                      answers'[i] = answers[j] /\ answers[j].key # e.key
<1>1. CASE PlaceOf(e.key) # {}
  <2> DEFINE new == [i \in DOMAIN answers |-> IF i \in PlaceOf(e.key) THEN e ELSE answers[i]]
  <2>1. answers' = new
    BY <1>1 DEF Stored
  <2>2. new \in Seq(PrepAnswers) /\ Len(new) = Len(answers) /\ DOMAIN new = DOMAIN answers
    OBVIOUS
  <2>3. \A i \in DOMAIN answers' :
           IF answers[i].key = e.key THEN answers'[i] = e ELSE answers'[i] = answers[i]
    BY <2>1 DEF PlaceOf
  <2>4. \A i \in DOMAIN answers' : answers'[i].key = answers[i].key
    BY <2>3
  <2>5. OncePerId'
    BY <2>1, <2>2, <2>4 DEF OncePerId
  <2> HIDE DEF new
  <2> QED
    BY <2>1, <2>2, <2>3, <2>5
<1>2. CASE PlaceOf(e.key) = {}
  <2> DEFINE all == Append(answers, e)
  <2>1. /\ all \in Seq(PrepAnswers) /\ Len(all) = Len(answers) + 1
        /\ \A i \in 1 .. Len(answers) : all[i] = answers[i] /\ answers[i].key # e.key
        /\ all[Len(answers) + 1] = e
    BY <1>2 DEF PlaceOf
  <2>2. \A i, j \in DOMAIN all : all[i].key = all[j].key => i = j
    BY <2>1 DEF OncePerId
  <2>3. CASE Len(all) > CacheLimit
    <3>1. answers' = Tail(all)
      BY <1>2, <2>3 DEF Stored
    <3> HIDE DEF all
    <3>2. /\ Tail(all) \in Seq(PrepAnswers) /\ Len(Tail(all)) = Len(answers)
          /\ \A i \in 1 .. Len(answers) : Tail(all)[i] = all[i + 1]
      BY <2>1
    <3>3. \A i \in DOMAIN answers' : i + 1 \in DOMAIN all /\ answers'[i] = all[i + 1]
      BY <2>1, <3>1, <3>2
    <3>4. OncePerId'
      <4> SUFFICES ASSUME NEW i \in DOMAIN answers', NEW j \in DOMAIN answers',
                          answers'[i].key = answers'[j].key
                   PROVE  i = j
        BY DEF OncePerId
      <4> i \in Int /\ j \in Int
        BY <3>1, <3>2
      <4> QED
        BY <2>2, <3>3
    <3>5. ASSUME NEW i \in DOMAIN answers'
          PROVE  \/ answers'[i] = e
                 \/ \E j \in DOMAIN answers : answers'[i] = answers[j] /\ answers[j].key # e.key
      <4>1. i \in Int /\ i + 1 \in 1 .. (Len(answers) + 1) /\ answers'[i] = all[i + 1]
        BY <2>1, <3>1, <3>2, <3>3
      <4>2. CASE i + 1 = Len(answers) + 1
        BY <2>1, <4>1, <4>2
      <4>3. CASE i + 1 # Len(answers) + 1
        <5>1. i + 1 \in 1 .. Len(answers)
          BY <4>1, <4>3
        <5> QED
          BY <2>1, <4>1, <5>1
      <4> QED
        BY <4>2, <4>3
    <3> QED
      BY <3>1, <3>2, <3>4, <3>5
  <2>4. CASE ~(Len(all) > CacheLimit)
    <3>1. answers' = all
      BY <1>2, <2>4 DEF Stored
    <3> HIDE DEF all
    <3> QED
      BY <2>1, <2>2, <2>4, <3>1, PreparationAssumption DEF OncePerId
  <2> QED
    BY <2>3, <2>4
<1> QED
  BY <1>1, <1>2

\* Every step of the talk, of a request for a draft and of the job that prepares it
\* keeps the invariant of the drafts.
LEMMA PrepStep == PrepInv /\ [PrepNext]_prepVars => PrepInv'
<1> SUFFICES ASSUME PrepInv, [PrepNext]_prepVars PROVE PrepInv'
  OBVIOUS
<1> USE PreparationAssumption, NoDraftAssumption
<1>0. PrepShape /\ OncePerId /\ Len(answers) <= CacheLimit /\ CoversInTime /\ RunningHasTask
      /\ AskedIsNew
  BY DEF PrepInv
<1>1. CASE TalkGoesOn
  BY <1>0, <1>1 DEF TalkGoesOn, PrepInv, PrepShape, OncePerId, CoversInTime, RunningHasTask,
                    AskedIsNew, WorkedOn, DraftTask
<1>2. ASSUME NEW f \in topics, DeleteTopic(f) PROVE PrepInv'
  BY <1>0, <1>2 DEF DeleteTopic, PrepInv, PrepShape, OncePerId, CoversInTime, RunningHasTask,
                    AskedIsNew, WorkedOn
<1>3. ASSUME NEW p \in Posts, NEW k \in Keys, AskDraft(p, k) PROVE PrepInv'
  <2> USE <1>0, <1>3 DEF AskDraft
  <2>1. PrepShape'
    BY DEF PrepShape
  <2>2. OncePerId' /\ (Len(answers) <= CacheLimit)' /\ RunningHasTask'
    BY DEF OncePerId, RunningHasTask, WorkedOn
  <2>3. CoversInTime'
    BY DEF CoversInTime, PrepShape
  <2>4. AskedIsNew'
    BY DEF AskedIsNew, WorkedOn, PrepShape, Unknown, PlaceOf
  <2> QED
    BY <2>1, <2>2, <2>3, <2>4 DEF PrepInv
<1>4. ASSUME NEW p \in Posts, NEW d \in Drafters, NEW f \in topics \cup {None},
             StartDraft(p, d, f)
      PROVE  PrepInv'
  <2> DEFINE k == posts[p].key
             e == PrepStatus(k, "running", posts[p].since, 0)
             t == [key |-> k, since |-> posts[p].since, topic |-> f, seen |-> 0]
  <2>1. k # None /\ k \in Keys /\ posts[p].since \in 0 .. MaxTalk /\ talk >= 1 /\ talk \in Int
    BY <1>0, <1>4 DEF StartDraft, PrepShape
  <2>2. e \in PrepAnswers /\ t \in DraftTask /\ t # None
    BY <1>0, <2>1 DEF PrepAnswers, DraftTask, PrepStatus, PrepShape
  <2>3. /\ Stored(e) /\ drafting' = [drafting EXCEPT ![d] = t] /\ drafting[d] = None
        /\ posts' = [posts EXCEPT ![p] = NoPost] /\ UNCHANGED <<talk, topics, calm>>
    BY <1>4 DEF StartDraft
  <2>4. /\ answers' \in Seq(PrepAnswers) /\ OncePerId' /\ Len(answers') <= CacheLimit
        /\ \A i \in DOMAIN answers' :
             \/ answers'[i] = e
             \/ \E j \in DOMAIN answers : answers'[i] = answers[j] /\ answers[j].key # e.key
    BY <1>0, <2>2, <2>3, StoredKeeps DEF PrepShape
  <2>5. e.key = k /\ e.status = "running" /\ e.seen = 0
    BY DEF PrepStatus
  <2>6. t.key = k /\ t.since = posts[p].since /\ t.seen = 0
    OBVIOUS
  <2> HIDE DEF e, t
  <2>7. PrepShape'
    BY <1>0, <2>1, <2>2, <2>3, <2>4 DEF PrepShape, NoPost
  <2>8. CoversInTime'
    BY <1>0, <2>1, <2>2, <2>3, <2>4, <2>5, <2>6 DEF CoversInTime, PrepShape, NoPost
  <2>9. RunningHasTask'
    BY <1>0, <2>1, <2>2, <2>3, <2>4, <2>5, <2>6 DEF RunningHasTask, PrepShape, WorkedOn
  <2>10. AskedIsNew'
    BY <1>0, <2>1, <2>2, <2>3, <2>4, <2>5, <2>6 DEF AskedIsNew, PrepShape, WorkedOn, NoPost
  <2> QED
    BY <2>4, <2>7, <2>8, <2>9, <2>10 DEF PrepInv
<1>5. ASSUME NEW p \in Posts, RefuseDraft(p) PROVE PrepInv'
  <2> USE <1>0, <1>5 DEF RefuseDraft, NoPost
  <2>1. PrepShape'
    BY DEF PrepShape
  <2>2. OncePerId' /\ (Len(answers) <= CacheLimit)' /\ RunningHasTask'
    BY DEF OncePerId, RunningHasTask, WorkedOn
  <2>3. CoversInTime'
    BY DEF CoversInTime, PrepShape
  <2>4. AskedIsNew'
    BY DEF AskedIsNew, WorkedOn, PrepShape
  <2> QED
    BY <2>1, <2>2, <2>3, <2>4 DEF PrepInv
<1>6. ASSUME NEW d \in Drafters, ReadTalk(d) PROVE PrepInv'
  <2> USE <1>0, <1>6 DEF ReadTalk
  <2>1. drafting[d] \in DraftTask /\ talk \in 0 .. MaxTalk /\ talk >= 1
    BY DEF PrepShape, CoversInTime
  <2>2. [drafting[d] EXCEPT !.seen = talk] \in DraftTask
    BY <2>1 DEF DraftTask
  <2>3. /\ drafting'[d] = [drafting[d] EXCEPT !.seen = talk] /\ drafting'[d] \in DraftTask
        /\ drafting'[d] # None /\ drafting'[d].key = drafting[d].key
        /\ drafting'[d].since = drafting[d].since /\ drafting'[d].seen = talk
        /\ \A c \in Drafters : c # d => drafting'[c] = drafting[c]
    BY <2>1, <2>2 DEF PrepShape, DraftTask
  <2>4. PrepShape'
    BY <2>2 DEF PrepShape
  <2>5. OncePerId' /\ (Len(answers) <= CacheLimit)'
    BY DEF OncePerId
  <2>6. RunningHasTask'
    BY <2>3 DEF RunningHasTask, WorkedOn
  <2>7. CoversInTime'
    BY <2>1, <2>3 DEF CoversInTime, PrepShape
  <2>8. AskedIsNew'
    BY <2>3 DEF AskedIsNew, WorkedOn
  <2> QED
    BY <2>4, <2>5, <2>6, <2>7, <2>8 DEF PrepInv
<1>7. ASSUME NEW d \in Drafters, ReadTalkFails(d) PROVE PrepInv'
  <2> USE <1>0, <1>7 DEF ReadTalkFails
  <2>1. topics # Topics
    BY DEF PrepShape, DraftTask
  <2>2. PrepShape'
    BY DEF PrepShape
  <2>3. OncePerId' /\ (Len(answers) <= CacheLimit)' /\ RunningHasTask'
    BY <2>1 DEF OncePerId, RunningHasTask
  <2>4. CoversInTime'
    BY DEF CoversInTime, PrepShape
  <2>5. AskedIsNew'
    BY DEF AskedIsNew, WorkedOn, PrepShape
  <2> QED
    BY <2>2, <2>3, <2>4, <2>5 DEF PrepInv
<1>8. ASSUME NEW d \in Drafters, DraftDone(d) \/ DraftFails(d) PROVE PrepInv'
  <2> DEFINE t == drafting[d]
  <2>1. t \in DraftTask /\ t # None /\ t.seen # 0 /\ t.seen >= t.since
    BY <1>0, <1>8 DEF DraftDone, DraftFails, PrepShape, CoversInTime
  <2>2. PICK e \in PrepAnswers : /\ Stored(e) /\ e.key = t.key /\ e.since = t.since
                              /\ \/ e.status = "succeeded" /\ e.seen = t.seen
                                 \/ e.status = "failed" /\ e.seen = 0
    <3>1. CASE DraftDone(d)
      BY <2>1, <3>1 DEF DraftDone, PreparedDraft, PrepStatus, PrepAnswers, DraftTask
    <3>2. CASE DraftFails(d)
      BY <2>1, <3>2 DEF DraftFails, FailedDraft, PrepStatus, PrepAnswers, DraftTask
    <3> QED
      BY <1>8, <3>1, <3>2
  <2>3. drafting' = [drafting EXCEPT ![d] = None] /\ UNCHANGED <<talk, topics, posts, calm>>
    BY <1>8 DEF DraftDone, DraftFails
  <2>4. /\ answers' \in Seq(PrepAnswers) /\ OncePerId' /\ Len(answers') <= CacheLimit
        /\ \A i \in DOMAIN answers' :
             \/ answers'[i] = e
             \/ \E j \in DOMAIN answers : answers'[i] = answers[j] /\ answers[j].key # e.key
    BY <1>0, <2>2, StoredKeeps DEF PrepShape
  <2>5. PrepShape'
    BY <1>0, <2>3, <2>4 DEF PrepShape
  <2>6. CoversInTime'
    BY <1>0, <2>1, <2>2, <2>3, <2>4 DEF CoversInTime, PrepShape
  <2>7. RunningHasTask'
    <3> SUFFICES ASSUME topics = Topics, NEW i \in DOMAIN answers', answers'[i].status = "running"
                 PROVE  \E c \in Drafters : drafting'[c] # None /\ drafting'[c].key = answers'[i].key
      BY <2>3 DEF RunningHasTask, WorkedOn
    <3>1. PICK j \in DOMAIN answers : answers'[i] = answers[j] /\ answers[j].key # t.key
      BY <2>2, <2>4
    <3>2. PICK c \in Drafters : drafting[c] # None /\ drafting[c].key = answers[j].key
      BY <1>0, <3>1 DEF RunningHasTask, WorkedOn
    <3>3. drafting'[c] = drafting[c]
      BY <1>0, <2>3, <3>1, <3>2 DEF PrepShape
    <3> QED
      BY <3>1, <3>2, <3>3
  <2>8. AskedIsNew'
    BY <1>0, <2>1, <2>2, <2>3, <2>4 DEF AskedIsNew, PrepShape, WorkedOn
  <2> QED
    BY <2>4, <2>5, <2>6, <2>7, <2>8 DEF PrepInv
<1>9. CASE ForgetDrafts
  <2>1. answers' = <<>> /\ Len(answers') = 0 /\ DOMAIN answers' = {} /\ answers' \in Seq(PrepAnswers)
    BY <1>9 DEF ForgetDrafts
  <2> QED
    BY <1>0, <1>9, <2>1 DEF ForgetDrafts, PrepInv, PrepShape, OncePerId, CoversInTime,
                            RunningHasTask, AskedIsNew, WorkedOn, NoPost
<1>10. CASE UNCHANGED prepVars
  BY <1>0, <1>10 DEF prepVars, PrepInv, PrepShape, OncePerId, CoversInTime, RunningHasTask,
                     AskedIsNew, WorkedOn
<1> QED
  BY <1>1, <1>2, <1>3, <1>4, <1>5, <1>6, <1>7, <1>8, <1>9, <1>10 DEF PrepNext

\* What a poll is told of an id is one of the answers in the cache.
LEMMA StatusIsAnswer ==
    ASSUME NEW k \in Keys, StatusOf(k) # None
    PROVE  \E i \in DOMAIN answers : answers[i].key = k /\ StatusOf(k) = answers[i]
BY Zenon DEF StatusOf, PlaceOf

\* No step makes a settled answer that is cached running again.
LEMMA SettledStep == PrepInv /\ [PrepNext]_prepVars => [SettledStays]_prepVars
<1> SUFFICES ASSUME PrepInv, PrepNext,
                    NEW k \in Keys, calm, StatusOf(k) # None, StatusOf(k).status # "running",
                    NEW n \in DOMAIN answers', answers'[n].key = k
             PROVE  answers'[n].status # "running"
  BY DEF SettledStays
<1>0. PICK i \in DOMAIN answers : answers[i].key = k /\ answers[i].status # "running"
  BY StatusIsAnswer
<1>1. OncePerId /\ PrepShape /\ AskedIsNew /\ Len(answers) <= CacheLimit
  BY DEF PrepInv
<1>2. ASSUME NEW e \in PrepAnswers, Stored(e), e.key = k => e.status # "running"
      PROVE  answers'[n].status # "running"
  <2>1. \/ answers'[n] = e
        \/ \E j \in DOMAIN answers : answers'[n] = answers[j] /\ answers[j].key # e.key
    BY <1>1, <1>2, StoredKeeps DEF PrepShape
  <2> QED
    BY <1>0, <1>1, <1>2, <2>1 DEF OncePerId
<1>3. ASSUME NEW p \in Posts, NEW d \in Drafters, NEW f \in topics \cup {None},
             StartDraft(p, d, f)
      PROVE  answers'[n].status # "running"
  <2> DEFINE e == PrepStatus(posts[p].key, "running", posts[p].since, 0)
  <2>1. e \in PrepAnswers /\ Stored(e) /\ e.key = posts[p].key /\ posts[p].key # None
    BY <1>1, <1>3, PreparationAssumption DEF StartDraft, PrepShape, PrepStatus, PrepAnswers
  <2>2. e.key # k
    BY <1>0, <1>1, <2>1 DEF AskedIsNew
  <2> HIDE DEF e
  <2> QED
    BY <1>2, <2>1, <2>2
<1>4. ASSUME NEW d \in Drafters, DraftDone(d) \/ DraftFails(d)
      PROVE  answers'[n].status # "running"
  <2>1. \E e \in PrepAnswers : Stored(e) /\ e.status # "running"
    <3>1. drafting[d] \in DraftTask
      BY <1>1, <1>4, Zenon DEF DraftDone, DraftFails, PrepShape
    <3>2. CASE DraftDone(d)
      <4>1. PreparedDraft(drafting[d]) \in PrepAnswers
        BY <3>1 DEF PreparedDraft, PrepStatus, PrepAnswers, DraftTask
      <4> QED
        BY <3>2, <4>1 DEF DraftDone, PreparedDraft, PrepStatus
    <3>3. CASE DraftFails(d)
      <4>1. FailedDraft(drafting[d]) \in PrepAnswers
        BY <3>1, PreparationAssumption DEF FailedDraft, PrepStatus, PrepAnswers, DraftTask
      <4> QED
        BY <3>3, <4>1 DEF DraftFails, FailedDraft, PrepStatus
    <3> QED
      BY <1>4, <3>2, <3>3
  <2> QED
    BY <1>2, <2>1
<1>5. CASE answers' = answers
  BY <1>0, <1>1, <1>5 DEF OncePerId
<1>6. CASE ForgetDrafts
  BY <1>6 DEF ForgetDrafts
<1> QED
  BY <1>3, <1>4, <1>5, <1>6, Zenon
    DEF PrepNext, TalkGoesOn, DeleteTopic, AskDraft, RefuseDraft, ReadTalk, ReadTalkFails

\* A step of the platform is one of the drafts, where they are the part, or none.
LEMMA DraftsPart ==
    ASSUME [PlatformNext]_platform
    PROVE  part' = part /\ (part = "drafts" => [PrepNext]_prepVars)
BY DEF PlatformNext, platform, prepVars

\* A draft covers what was said before it was asked for, an id is running only as
\* long as a task works on it, and a settled answer is not taken back for a second
\* task (DraftIsDelivered; prepare_session_report and
\* _run_session_report_prepare_task).
THEOREM DraftsAreDelivered == PlatformSpec => DraftIsDelivered
<1> DEFINE I == part = "drafts" => PrepInv
           S == part = "drafts" => DraftCoversRequest /\ RunningIsWorkedOn
           A == part = "drafts" => SettledStays
<1>1. PlatformInit => I
  BY PrepStart DEF PlatformInit
<1>2. I /\ [PlatformNext]_platform => I'
  BY DraftsPart, PrepStep
<1>3. I => S
  BY StatusIsAnswer
     DEF PrepInv, CoversInTime, RunningHasTask, WorkedOn, DraftCoversRequest, RunningIsWorkedOn
<1>4. I /\ [PlatformNext]_platform => [A]_prepVars
  BY DraftsPart, SettledStep
<1> QED
  BY <1>1, <1>2, <1>3, <1>4, PTL DEF PlatformSpec, DraftIsDelivered

-----------------------------------------------------------------------------
(* The turns of a session (ChatTurns) *)

\* The question is stored, its answer or stop is not.
InReply(q) ==
    \/ ask[q].phase \in {"choosing", "streaming", "checking"}
    \/ ask[q].phase \in {"numbering", "writing"} /\ ask[q].kind # "user"
KindOfPhase ==
    \A q \in Questions :
       /\ ask[q].phase \in {"new", "loading", "choosing", "streaming"} => ask[q].kind = "user"
       /\ ask[q].phase = "checking" => ask[q].kind # "user"
\* A stream writes its question once, and what ends it once.
RowsOfPhase ==
    \A r \in rows :
       /\ r.kind = "user" => \/ InReply(r.q)
                             \/ ask[r.q].phase \in Outcomes
       /\ r.kind # "user" => ask[r.q].phase \in {"answered", "stopped"}
LastRow == rows # {} => \E r \in rows : \A s \in rows : s.index <= r.index
ReplyHasQuestion ==
    alive => \A q \in Questions : InReply(q) =>
       \E p \in rows : /\ p.q = q /\ p.kind = "user"
                       /\ ask[q].phase = "writing" => p.index < ask[q].index
\* With one stream at a time its question is the last row, until it is answered.
SerialInOrder ==
    serial =>
      /\ \A q, o \in Questions : IsOpen(q) /\ IsOpen(o) => q = o
      /\ alive => \A q \in Questions :
           /\ InReply(q) /\ ask[q].phase # "writing" =>
                \E p \in rows : p.q = q /\ p.kind = "user" /\ \A r \in rows : r.index <= p.index
           /\ ask[q].phase = "writing" => \A r \in rows : r.index < ask[q].index
ChatInv ==
    /\ ChatTypeOK /\ KindOfPhase /\ RowsOfPhase /\ LastRow /\ ReplyHasQuestion
    /\ RepliesFollow /\ SerialInOrder /\ SerialHistoryIsWhole

\* A session begins with no messages.
LEMMA ChatStart == ChatInit => ChatInv
BY DEF ChatInit, ChatInv, ChatTypeOK, KindOfPhase, RowsOfPhase, LastRow, ReplyHasQuestion,
       RepliesFollow, SerialInOrder, SerialHistoryIsWhole, InReply, IsOpen, Open, Outcomes, Kinds

\* The number of a new row is above those of all there are.
LEMMA NextIsAfter ==
    ASSUME ChatTypeOK, LastRow
    PROVE  NextIndex \in Nat /\ \A r \in rows : r.index < NextIndex
<1>1. CASE rows = {}
  BY <1>1 DEF NextIndex
<1>2. CASE rows # {}
  <2> DEFINE used == {r.index : r \in rows}
  <2>1. \E i \in used : \A j \in used : j <= i
    BY <1>2 DEF LastRow
  <2>2. LastIndex \in used /\ \A j \in used : j <= LastIndex
    BY <2>1, Zenon DEF LastIndex
  <2>3. used \subseteq Nat
    BY DEF ChatTypeOK
  <2>4. \A r \in rows : r.index \in used
    OBVIOUS
  <2> HIDE DEF used
  <2>5. LastIndex \in Nat /\ NextIndex = LastIndex + 1
    BY <1>2, <2>2, <2>3 DEF NextIndex
  <2>6. \A r \in rows : r.index \in Nat /\ r.index <= LastIndex
    BY <2>2, <2>3, <2>4, Zenon
  <2> QED
    BY <2>5, <2>6
<1> QED
  BY <1>1, <1>2

\* Every step of a turn, a title task, a rename and a deletion keeps the invariant
\* of the history.
LEMMA ChatStep == ChatInv /\ [ChatNext]_chatVars => ChatInv'
<1> SUFFICES ASSUME ChatInv, [ChatNext]_chatVars PROVE ChatInv'
  OBVIOUS
<1>0. /\ ChatTypeOK /\ KindOfPhase /\ RowsOfPhase /\ LastRow /\ ReplyHasQuestion
      /\ RepliesFollow /\ SerialInOrder /\ SerialHistoryIsWhole
  BY DEF ChatInv
\* A step of a stream that stores nothing and leaves it in a phase of the same kind.
<1>1. ASSUME NEW q \in Questions,
             \/ Post(q) \/ Load(q) \/ Refuse(q) \/ Number(q) \/ Check(q)
             \/ Choose(q) \/ Emit(q) \/ Retry(q) \/ Done(q) \/ Fail(q) \/ Disconnect(q)
      PROVE  ChatInv'
  <2>1. /\ UNCHANGED <<alive, rows, serial, title>> /\ titling' = titling
        /\ ask' = [ask EXCEPT ![q] = ask'[q]]
        /\ ask'[q] \in [phase : Open \cup Outcomes \cup {"new"}, kind : Kinds,
                        index : Nat, text : BOOLEAN]
    <3>1. CASE Number(q)
      BY <1>0, <3>1, NextIsAfter, Zenon DEF Number, ChatTypeOK, Open
    <3>2. CASE Post(q) \/ Load(q) \/ Refuse(q) \/ Check(q) \/ Choose(q) \/ Retry(q) \/ Fail(q)
      BY <1>0, <3>2 DEF Post, Load, Refuse, Check, Choose, Retry, Fail, To, ChatTypeOK, Open, Outcomes
    <3>3. CASE Emit(q)
      BY <1>0, <3>3, Zenon DEF Emit, ChatTypeOK
    <3>4. CASE Done(q)
      BY <1>0, <3>4 DEF Done, To, Storing, ChatTypeOK, Open, Outcomes, Kinds
    <3>5. CASE Disconnect(q)
      BY <1>0, <3>5 DEF Disconnect, Caught, To, Storing, ChatTypeOK, Open, Outcomes, Kinds
    <3> QED
      BY <1>1, <3>1, <3>2, <3>3, <3>4, <3>5
  <2>2. ChatTypeOK' /\ LastRow' /\ RepliesFollow'
    BY <1>0, <2>1 DEF ChatTypeOK, LastRow, RepliesFollow
  <2>3. KindOfPhase'
    BY <1>0, <1>1, <2>1
       DEF KindOfPhase, Post, Load, Refuse, Number, Check, Choose, Emit, Retry, Done, Fail,
           Disconnect, Caught, To, Storing, Turns, ChatTypeOK
  <2>4. RowsOfPhase'
    BY <1>0, <1>1, <2>1
       DEF RowsOfPhase, KindOfPhase, InReply, Post, Load, Refuse, Number, Check, Choose, Emit,
           Retry, Done, Fail, Disconnect, Caught, To, Storing, Turns, ChatTypeOK, IsOpen, Open,
           Outcomes
  <2>5. ReplyHasQuestion'
    BY <1>0, <1>1, <2>1, NextIsAfter
       DEF ReplyHasQuestion, KindOfPhase, InReply, Post, Load, Refuse, Number, Check, Choose, Emit,
           Retry, Done, Fail, Disconnect, Caught, To, Storing, Turns, ChatTypeOK, IsOpen, Open,
           Outcomes, Question
  <2>6. SerialInOrder'
    BY <1>0, <1>1, <2>1, NextIsAfter
       DEF SerialInOrder, KindOfPhase, InReply, Post, Load, Refuse, Number, Check, Choose, Emit,
           Retry, Done, Fail, Disconnect, Caught, To, Storing, Turns, ChatTypeOK, IsOpen, Open,
           Outcomes
  <2>7. SerialHistoryIsWhole'
    <3>1. serial /\ alive => ask'[q].phase # "dropped" \/ ask[q].phase = "dropped"
      <4>1. CASE Check(q)
        BY <1>0, <2>1, <4>1 
           DEF SerialInOrder, Check, InReply, To, StoppedAfter, Question, ChatTypeOK
      <4> QED
        BY <1>0, <1>1, <2>1, <4>1
           DEF Post, Load, Refuse, Number, Choose, Emit, Retry, Done, Fail,
               Disconnect, Caught, To, Storing, ChatTypeOK
    <3> QED
      BY <1>0, <2>1, <3>1 DEF SerialHistoryIsWhole, ChatTypeOK
  <2> QED
    BY <2>2, <2>3, <2>4, <2>5, <2>6, <2>7 DEF ChatInv
\* The three writes.
<1>2. ASSUME NEW q \in Questions, WriteQuestion(q) \/ WriteAnswer(q) \/ WriteStop(q)
      PROVE  ChatInv'
  <2> DEFINE new == [q |-> q, kind |-> ask[q].kind, index |-> ask[q].index, text |-> ask[q].text]
  <2>1. /\ ask[q].phase = "writing" /\ UNCHANGED <<alive, serial, title>>
        /\ titling' \in [Titlers -> {"idle", "loading", "generating", "applying"}]
        /\ rows' = IF alive THEN rows \cup {new} ELSE rows
        /\ ask' = [ask EXCEPT ![q] = ask'[q]]
        /\ ask'[q] = [ask[q] EXCEPT !.phase = ask'[q].phase]
        /\ ask[q].kind = "user" =>
             ask'[q].phase = IF alive THEN "choosing" ELSE "failed"
        /\ ask[q].kind # "user" => ask'[q].phase \in
             IF alive THEN {"answered", "stopped"} ELSE {"failed", "cut"}
    BY <1>0, <1>2 DEF WriteQuestion, WriteAnswer, WriteStop, Turns, StoreRow, To, Entitle, ChatTypeOK
  <2>2. ask[q] \in [phase : Open \cup Outcomes \cup {"new"}, kind : Kinds,
                    index : Nat, text : BOOLEAN]
    BY <1>0 DEF ChatTypeOK
  <2>3. ask'[q].kind = ask[q].kind /\ ask'[q].index = ask[q].index
    BY <2>1, <2>2
  <2>4. new.q = q /\ new.kind = ask[q].kind /\ new.index = ask[q].index /\ new.text = ask[q].text
        /\ new.index \in Nat
    BY <2>2
  <2>5. ask'[q] \in [phase : Open \cup Outcomes \cup {"new"}, kind : Kinds,
                     index : Nat, text : BOOLEAN]
    BY <2>1, <2>2 DEF Open, Outcomes
  <2> HIDE DEF new
  <2>6. ChatTypeOK'
    BY <1>0, <2>1, <2>2, <2>4, <2>5 DEF ChatTypeOK
  <2>7. KindOfPhase'
    BY <1>0, <2>1, <2>2, <2>3 DEF KindOfPhase, ChatTypeOK
  <2>8. RowsOfPhase'
    BY <1>0, <2>1, <2>2, <2>3, <2>4 DEF RowsOfPhase, InReply, ChatTypeOK, Outcomes
  <2>9. LastRow'
    BY <1>0, <2>1, <2>4 DEF LastRow, ChatTypeOK
  <2>10. ReplyHasQuestion'
    BY <1>0, <2>1, <2>2, <2>3, <2>4 DEF ReplyHasQuestion, InReply, ChatTypeOK
  <2>11. RepliesFollow'
    <3> HIDE <1>2
    <3>1. CASE ask[q].kind = "user" \/ ~alive
      BY <1>0, <2>1, <2>4, <3>1 DEF RepliesFollow, ChatTypeOK
    <3>2. CASE ask[q].kind # "user" /\ alive
      <4>1. \A s \in rows : s.kind # "user" => s.q # q
        BY <1>0, <2>1 DEF RowsOfPhase
      <4>2. \E p \in rows : p.q = q /\ p.kind = "user" /\ p.index < new.index
        BY <1>0, <2>1, <2>4, <3>2 DEF ReplyHasQuestion, InReply
      <4> QED
        BY <1>0, <2>1, <2>4, <3>2, <4>1, <4>2 DEF RepliesFollow
    <3> QED
      BY <3>1, <3>2
  <2>12. SerialInOrder'
    BY <1>0, <2>1, <2>2, <2>3, <2>4 DEF SerialInOrder, InReply, IsOpen, Open, Outcomes, ChatTypeOK
  <2>13. SerialHistoryIsWhole'
    BY <1>0, <2>1, <2>2, <2>3, <2>4 DEF SerialInOrder, SerialHistoryIsWhole, ChatTypeOK
  <2> QED
    BY <2>6, <2>7, <2>8, <2>9, <2>10, <2>11, <2>12, <2>13 DEF ChatInv
<1>3. CASE Restart
  <2>1. \A q \in Questions :
          /\ ask'[q].phase = IF IsOpen(q) THEN "cut" ELSE ask[q].phase
          /\ ask'[q].kind = ask[q].kind
          /\ ask'[q] \in [phase : Open \cup Outcomes \cup {"new"}, kind : Kinds,
                          index : Nat, text : BOOLEAN]
    BY <1>0, <1>3 DEF Restart, ChatTypeOK, Outcomes
  <2>2. UNCHANGED <<alive, rows, serial, title>>
    BY <1>3 DEF Restart
  <2>3. ChatTypeOK'
    <3>1. ask' = [q \in Questions |-> ask'[q]] /\ titling' = [g \in Titlers |-> "idle"]
      BY <1>3 DEF Restart
    <3> QED
      BY <1>0, <2>1, <2>2, <3>1 DEF ChatTypeOK
  <2>4. \A q \in Questions : ~InReply(q)' /\ ~IsOpen(q)' /\ ask'[q].phase # "writing"
    BY <2>1 DEF InReply, IsOpen, Open
  <2>5. \A q \in Questions : ask[q].phase \in Outcomes => ask'[q].phase = ask[q].phase
    BY <2>1 DEF IsOpen, Open, Outcomes
  <2>6. KindOfPhase' /\ LastRow' /\ ReplyHasQuestion' /\ RepliesFollow' /\ SerialInOrder'
    BY <1>0, <2>1, <2>2, <2>4
       DEF KindOfPhase, LastRow, ReplyHasQuestion, RepliesFollow, SerialInOrder, IsOpen, Open
  <2>7. RowsOfPhase' /\ SerialHistoryIsWhole'
    BY <1>0, <2>1, <2>2, <2>5
       DEF RowsOfPhase, SerialHistoryIsWhole, InReply, IsOpen, Open, Outcomes, ChatTypeOK
  <2> QED
    BY <2>3, <2>6, <2>7 DEF ChatInv
<1>4. CASE DeleteSession
  BY <1>0, <1>4, Zenon
    DEF DeleteSession, ChatInv, ChatTypeOK, KindOfPhase, RowsOfPhase, LastRow, ReplyHasQuestion,
         RepliesFollow, SerialInOrder, SerialHistoryIsWhole, InReply, IsOpen
<1>5. ASSUME UNCHANGED <<alive, rows, ask, serial>>,
             title' \in {"default", "auto", "manual"},
             titling' \in [Titlers -> {"idle", "loading", "generating", "applying"}]
      PROVE  ChatInv'
  BY <1>0, <1>5
     DEF ChatInv, ChatTypeOK, KindOfPhase, RowsOfPhase, LastRow, ReplyHasQuestion,
         RepliesFollow, SerialInOrder, SerialHistoryIsWhole, InReply, IsOpen
<1>6. ASSUME NEW g \in Titlers,
             AskForTitle(g) \/ LoadExchange(g) \/ NoTitle(g) \/ Recheck(g) \/ Apply(g)
      PROVE  ChatInv'
  BY <1>0, <1>5, <1>6 DEF AskForTitle, LoadExchange, NoTitle, Recheck, Apply, ChatTypeOK
<1>7. CASE Rename
  BY <1>0, <1>5, <1>7 DEF Rename, ChatTypeOK
<1>8. CASE UNCHANGED chatVars
  BY <1>0, <1>5, <1>8 DEF chatVars, ChatTypeOK
<1> QED
  BY <1>1, <1>2, <1>3, <1>4, <1>6, <1>7, <1>8 DEF ChatNext

\* No step but that of a task that was about to commit replaces a title the user gave.
LEMMA TitleStep == ChatInv /\ [ChatNext]_chatVars => [ManualTitleStays]_chatVars
<1> SUFFICES ASSUME ChatInv, ChatNext, title = "manual"
             PROVE  LET late == {g \in Titlers : titling[g] = "applying"}
                    IN /\ late = {} => title' = "manual"
                       /\ \A g \in Titlers \ late : titling'[g] # "applying"
  BY DEF ManualTitleStays
<1>1. titling \in [Titlers -> {"idle", "loading", "generating", "applying"}]
  BY DEF ChatInv, ChatTypeOK
<1>2. CASE UNCHANGED <<title, titling>>
  BY <1>2
<1>3. ASSUME NEW q \in Questions, WriteAnswer(q)
      PROVE  title' = title /\ \A g \in Titlers : titling'[g] # "applying" \/ titling[g] = "applying"
  BY <1>1, <1>3 DEF WriteAnswer, Entitle
<1>4. ASSUME NEW g \in Titlers,
             AskForTitle(g) \/ LoadExchange(g) \/ NoTitle(g) \/ Recheck(g) \/ Apply(g)
      PROVE  /\ titling[g] # "applying" => title' = title
             /\ \A h \in Titlers : titling'[h] # "applying" \/ titling[h] = "applying"
  BY <1>1, <1>4 DEF AskForTitle, LoadExchange, NoTitle, Recheck, Apply
<1>5. CASE Rename
  BY <1>5 DEF Rename
<1>6. CASE Restart
  BY <1>6 DEF Restart
<1> QED
  BY <1>2, <1>3, <1>4, <1>5, <1>6, Zenon
    DEF ChatNext, Post, Load, Refuse, Number, Check, WriteQuestion, WriteStop, Choose, Emit,
         Retry, Done, Fail, Disconnect, DeleteSession

\* A step of the platform is one of the chat, where it is the part, or none.
LEMMA ChatPart ==
    ASSUME [PlatformNext]_platform
    PROVE  part' = part /\ (part = "chat" => [ChatNext]_chatVars)
BY DEF PlatformNext, platform, chatVars

\* Replies follow what they answer and there is one of a question, a history of
\* turns that wait for each other is whole, and a title the user gave is kept
\* (HistoryIsTrue; persist_agent_turn, persist_stopped_agent_turn and
\* _apply_generated_title_if_still_default).
THEOREM HistoryStaysTrue == PlatformSpec => HistoryIsTrue
<1> DEFINE I == part = "chat" => ChatInv
           S == part = "chat" => RepliesFollow /\ SerialHistoryIsWhole
           A == part = "chat" => ManualTitleStays
<1>1. PlatformInit => I
  BY ChatStart DEF PlatformInit
<1>2. I /\ [PlatformNext]_platform => I'
  BY ChatPart, ChatStep
<1>3. I => S
  BY DEF ChatInv
<1>4. I /\ [PlatformNext]_platform => [A]_chatVars
  BY ChatPart, TitleStep
<1> QED
  BY <1>1, <1>2, <1>3, <1>4, PTL DEF PlatformSpec, HistoryIsTrue
-----------------------------------------------------------------------------
(* The turns of opencode (TurnStream) *)

\* A word of a message, and the words of the first n events.
IsWord(s, d, m) == d \in DOMAIN s /\ s[d].type = "delta" /\ s[d].m = m
Token(s, d) == s[d].text[1]
Words(s, m) == {Token(s, d) : d \in {e \in DOMAIN s : IsWord(s, e, m)}}
Spoken(s, t, m, n) == \E d \in 1 .. n : IsWord(s, d, m) /\ Token(s, d) = t
Ascends(q) == \A i, j \in DOMAIN q : i < j => q[i] < q[j]
InOrder(s, q, m) ==
    \A i, j \in DOMAIN q : i < j /\ q[i] \in Words(s, m) /\ q[j] \in Words(s, m) => q[i] < q[j]
EndsIn(q, t) == /\ Len(q) <= Len(t)
                /\ \A i \in 1 .. Len(q) : q[i] = t[Len(t) - Len(q) + i]

\* What holds of the first number and is handed on holds of all up to n.
LEMMA UpToAll ==
    ASSUME NEW n \in Nat, NEW G, 0 \in G, \A k \in 0 .. n - 1 : k \in G => k + 1 \in G
    PROVE  0 .. n \subseteq G
<1> SUFFICES ASSUME ~ (0 .. n \subseteq G) PROVE FALSE
  OBVIOUS
<1> DEFINE B == {k \in 0 .. n : k \notin G}
<1>1. B \subseteq Nat /\ B # {}
  OBVIOUS
<1>2. IsWellFoundedOn(OpToRel(<, Nat), Nat)
  BY NatLessThanWellFounded, Zenon
<1> HIDE DEF B
<1>3. PICK x \in B : \A y \in B : ~ (<<y, x>> \in OpToRel(<, Nat))
  BY <1>1, <1>2, WFMin, Zenon
<1>4. x \in 0 .. n /\ x \notin G
  BY <1>3, Zenon DEF B
<1>5. x # 0 /\ x - 1 \in 0 .. n - 1
  BY <1>4
<1>6. x - 1 \notin G
  BY <1>4, <1>5
<1>7. x - 1 \in B
  BY <1>5, <1>6 DEF B
<1>8. <<x - 1, x>> \in OpToRel(<, Nat)
  BY <1>4, <1>5 DEF OpToRel
<1> QED
  BY <1>3, <1>7, <1>8, Zenon

LEMMA TurnIsEvents ==
    ASSUME NEW s, IsTurn(s)
    PROVE  /\ Len(s) \in Nat /\ Len(s) > 2 /\ DOMAIN s = 1 .. Len(s)
           /\ \A j \in 1 .. Len(s) : s[j] \in Events
BY DEF IsTurn

LEMMA FirstEvent ==
    ASSUME NEW s, IsTurn(s)
    PROVE  s[1].type = "user"
BY DEF IsTurn, Event

\* Where the events of a turn may stand.
LEMMA EventsInPlace ==
    ASSUME NEW s, IsTurn(s), NEW j \in 1 .. Len(s)
    PROVE  /\ s[j].type = "user" => j = 1
           /\ s[j].type = "part" /\ j < 3 =>
                j = 2 /\ s[j].m = UserMessage /\ s[j].text = <<Asked>>
           /\ s[j].type = "part" /\ j >= 3 =>
                s[j].m \in MessageIds /\ (s[j].text = <<>> \/ ClosesPart(s, j))
           /\ s[j].type = "delta" => j \in 3 .. Len(s) - 1 /\ s[j].m \in MessageIds /\ GrowsPart(s, j)
           /\ s[j].type = "toolcalls" => j \in 3 .. Len(s) - 1 /\ s[j].m \in MessageIds
           /\ s[j].type = "finish" => j \in 3 .. Len(s) /\ j = Len(s) - 1 /\ s[j].m \in MessageIds
           /\ s[j].type \in {"idle", "error"} => j = Len(s)
<1>1. Len(s) \in Nat /\ Len(s) > 2
  BY TurnIsEvents
<1>2. s[1].type = "user" /\ s[2].type = "part" /\ s[2].m = UserMessage /\ s[2].text = <<Asked>>
  BY DEF IsTurn, Event
<1>3. s[Len(s)].type \in {"idle", "error"}
  BY DEF IsTurn
<1>4. CASE j = 1
  BY <1>1, <1>2, <1>4
<1>5. CASE j = 2
  BY <1>1, <1>2, <1>5
<1>6. CASE j = Len(s)
  BY <1>1, <1>3, <1>6
<1>7. CASE j \in 3 .. Len(s) - 1
  <2>1. /\ s[j].m \in MessageIds
        /\ \/ s[j].type = "part" /\ (s[j].text = <<>> \/ ClosesPart(s, j))
           \/ s[j].type = "delta" /\ GrowsPart(s, j)
           \/ s[j].type = "toolcalls"
           \/ s[j].type = "finish" /\ j = Len(s) - 1
    BY <1>7 DEF IsTurn
  <2> QED
    BY <1>1, <1>7, <2>1
<1> QED
  BY <1>1, <1>4, <1>5, <1>6, <1>7

LEMMA WordsAreTokens ==
    ASSUME NEW s, IsTurn(s), NEW j \in 1 .. Len(s), s[j].type = "delta"
    PROVE  /\ j \in 3 .. Len(s) - 1 /\ s[j].m \in MessageIds
           /\ Token(s, j) \in Nat \ {Asked, Before} /\ s[j].text = <<Token(s, j)>>
<1>1. j \in 3 .. Len(s) - 1 /\ s[j].m \in MessageIds /\ GrowsPart(s, j)
  BY EventsInPlace
<1>2. s[j].text \in Seq(Nat) /\ Len(s[j].text) = 1
  BY <1>1, TurnIsEvents DEF Events, GrowsPart
<1>3. s[j].text[1] \in Nat \ {Asked, Before}
  BY <1>1, <1>2 DEF GrowsPart
<1> QED
  BY <1>1, <1>2, <1>3 DEF Token

\* The words of a turn ascend, and the messages follow each other.
LEMMA WordsAscend ==
    ASSUME NEW s, IsTurn(s), NEW i \in 1 .. Len(s), NEW j \in 1 .. Len(s), i < j,
           s[i].type = "delta", s[j].type = "delta"
    PROVE  Token(s, i) < Token(s, j) /\ s[i].m <= s[j].m
<1>1. i \in 3 .. Len(s) - 1 /\ j \in 3 .. Len(s) - 1
  BY WordsAreTokens
<1> QED
  BY <1>1 DEF IsTurn, Token

LEMMA MessagesFollow ==
    ASSUME NEW s, IsTurn(s), NEW i \in 3 .. Len(s) - 1, NEW j \in 3 .. Len(s) - 1, i < j
    PROVE  s[i].m <= s[j].m /\ (s[i].type = "toolcalls" => s[i].m < s[j].m)
BY DEF IsTurn

LEMMA WordsDiffer ==
    ASSUME NEW s, IsTurn(s), NEW i \in 1 .. Len(s), NEW j \in 1 .. Len(s),
           s[i].type = "delta", s[j].type = "delta", Token(s, i) = Token(s, j)
    PROVE  i = j
<1>1. Token(s, i) \in Nat /\ i \in Nat /\ j \in Nat
  BY WordsAreTokens
<1>2. ~ (i < j) /\ ~ (j < i)
  BY <1>1, WordsAscend
<1> QED
  BY <1>1, <1>2

\* No word is of two messages.
LEMMA WordsOfOne ==
    ASSUME NEW s, IsTurn(s), NEW t, NEW m, NEW k, t \in Words(s, m), t \in Words(s, k)
    PROVE  m = k
<1>1. PICK i \in DOMAIN s : IsWord(s, i, m) /\ Token(s, i) = t
  BY DEF Words
<1>2. PICK j \in DOMAIN s : IsWord(s, j, k) /\ Token(s, j) = t
  BY DEF Words
<1>3. i = j
  BY <1>1, <1>2, WordsDiffer, TurnIsEvents DEF IsWord
<1> QED
  BY <1>1, <1>2, <1>3 DEF IsWord

LEMMA SpokenIsWord ==
    ASSUME NEW s, NEW t, NEW m, NEW n, Spoken(s, t, m, n)
    PROVE  t \in Words(s, m)
BY DEF Spoken, Words, IsWord

LEMMA SpokenStays ==
    ASSUME NEW s, NEW t, NEW m, NEW n \in Nat, NEW k \in Nat, n <= k, Spoken(s, t, m, n)
    PROVE  Spoken(s, t, m, k)
BY DEF Spoken

LEMMA NeverAsked ==
    ASSUME NEW s, IsTurn(s), NEW m
    PROVE  Asked \notin Words(s, m) /\ Before \notin Words(s, m)
BY WordsAreTokens, TurnIsEvents DEF Words, IsWord

\* What is said of some messages, event by event.
SaidIn(s, ms, n) ==
    LET said[i \in 0 .. Len(s)] ==
          IF i = 0 THEN <<>>
          ELSE said[i - 1] \o (IF s[i].type = "delta" /\ s[i].m \in ms THEN s[i].text ELSE <<>>)
    IN said[n]
Piece(s, ms, i) == IF s[i].type = "delta" /\ s[i].m \in ms THEN s[i].text ELSE <<>>

Grown(q, s, ms, i) == q \o Piece(s, ms, i)

LEMMA SaidUnfolds ==
    ASSUME NEW s, Len(s) \in Nat, NEW ms
    PROVE  /\ SaidIn(s, ms, 0) = <<>>
           /\ \A n \in 0 .. Len(s) - 1 : SaidIn(s, ms, n + 1) = Grown(SaidIn(s, ms, n), s, ms, n + 1)
<1> DEFINE Follows(f, n) == f = [i \in 0 .. n |-> IF i = 0 THEN <<>>
                                                  ELSE Grown(f[i - 1], s, ms, i)]
           G == {n \in 0 .. Len(s) : \E f : Follows(f, n)}
<1>1. 0 \in G
  <2> DEFINE f == [i \in 0 .. 0 |-> <<>>]
  <2>1. Follows(f, 0)
    OBVIOUS
  <2> HIDE DEF f
  <2>2. 0 \in 0 .. Len(s) /\ \E h : Follows(h, 0)
    BY <2>1
  <2> QED
    BY <2>2
<1>2. ASSUME NEW k \in 0 .. Len(s) - 1, k \in G PROVE k + 1 \in G
  <2>1. PICK f : Follows(f, k)
    BY <1>2
  <2> DEFINE g == [i \in 0 .. k + 1 |-> IF i = k + 1 THEN Grown(f[k], s, ms, k + 1) ELSE f[i]]
  <2>2. ASSUME NEW i \in 0 .. k + 1
        PROVE  g[i] = IF i = 0 THEN <<>> ELSE Grown(g[i - 1], s, ms, i)
    <3>1. CASE i = k + 1
      <4>1. g[k + 1] = Grown(f[k], s, ms, k + 1)
        OBVIOUS
      <4>2. g[k] = f[k]
        OBVIOUS
      <4> QED
        BY <3>1, <4>1, <4>2
    <3>2. CASE i # k + 1
      <4>1. i \in 0 .. k
        BY <3>2
      <4>2. g[i] = f[i] /\ (i # 0 => g[i - 1] = f[i - 1])
        BY <4>1
      <4>3. f[i] = IF i = 0 THEN <<>> ELSE Grown(f[i - 1], s, ms, i)
        BY <2>1, <4>1
      <4> QED
        BY <4>2, <4>3
    <3> QED
      BY <3>1, <3>2
  <2>3. g = [i \in 0 .. k + 1 |-> g[i]]
    OBVIOUS
  <2> HIDE DEF g
  <2>4. Follows(g, k + 1)
    BY <2>2, <2>3, Zenon
  <2>5. k + 1 \in 0 .. Len(s) /\ \E h : Follows(h, k + 1)
    BY <2>4
  <2> QED
    BY <2>5
<1>3. Len(s) \in G
  <2> HIDE DEF G
  <2>1. 0 .. Len(s) \subseteq G
    BY <1>1, <1>2, UpToAll
  <2>2. Len(s) \in 0 .. Len(s)
    OBVIOUS
  <2> QED
    BY <2>1, <2>2
<1> DEFINE said == CHOOSE f : Follows(f, Len(s))
<1>4. Follows(said, Len(s))
  <2>1. \E f : Follows(f, Len(s))
    BY <1>3
  <2> QED
    BY <2>1
<1>5. \A n : SaidIn(s, ms, n) = said[n]
  BY DEF SaidIn, Piece, Grown
<1> HIDE DEF said
<1>6. \A i \in 0 .. Len(s) : said[i] = IF i = 0 THEN <<>> ELSE Grown(said[i - 1], s, ms, i)
  BY <1>4
<1>7. SaidIn(s, ms, 0) = <<>>
  BY <1>5, <1>6
<1>8. ASSUME NEW n \in 0 .. Len(s) - 1
      PROVE  SaidIn(s, ms, n + 1) = Grown(SaidIn(s, ms, n), s, ms, n + 1)
  <2>1. n + 1 \in 0 .. Len(s) /\ n + 1 # 0 /\ n + 1 - 1 = n
    OBVIOUS
  <2>2. said[n + 1] = Grown(said[n], s, ms, n + 1)
    BY <1>6, <2>1
  <2>3. SaidIn(s, ms, n + 1) = said[n + 1] /\ SaidIn(s, ms, n) = said[n]
    BY <1>5
  <2> QED
    BY <2>2, <2>3
<1> QED
  BY <1>7, <1>8

LEMMA SaidIsIn ==
    ASSUME NEW ms, NEW n
    PROVE  SaidOf(ms, n) = SaidIn(script, ms, n)
BY DEF SaidOf, SaidIn

LEMMA PieceIsText ==
    ASSUME NEW s, IsTurn(s), NEW ms, NEW n \in 1 .. Len(s)
    PROVE  /\ Piece(s, ms, n) \in Seq(Nat)
           /\ (s[n].type = "delta" /\ s[n].m \in ms) => Piece(s, ms, n) = <<Token(s, n)>>
           /\ ~ (s[n].type = "delta" /\ s[n].m \in ms) => Piece(s, ms, n) = <<>>
<1>1. CASE s[n].type = "delta" /\ s[n].m \in ms
  <2>1. Token(s, n) \in Nat /\ s[n].text = <<Token(s, n)>>
    BY <1>1, WordsAreTokens
  <2>2. <<Token(s, n)>> \in Seq(Nat)
    BY <2>1
  <2>3. Piece(s, ms, n) = s[n].text
    BY <1>1 DEF Piece
  <2> QED
    BY <1>1, <2>1, <2>2, <2>3
<1>2. CASE ~ (s[n].type = "delta" /\ s[n].m \in ms)
  <2>1. Piece(s, ms, n) = <<>>
    BY <1>2 DEF Piece
  <2> QED
    BY <1>2, <2>1
<1> QED
  BY <1>1, <1>2

LEMMA SaidIsText ==
    ASSUME NEW s, IsTurn(s), NEW ms, NEW n \in 0 .. Len(s)
    PROVE  SaidIn(s, ms, n) \in Seq(Nat)
<1> DEFINE G == {k \in 0 .. Len(s) : SaidIn(s, ms, k) \in Seq(Nat)}
<1>1. Len(s) \in Nat
  BY TurnIsEvents
<1>2. 0 \in G
  <2>1. SaidIn(s, ms, 0) = <<>>
    BY <1>1, SaidUnfolds
  <2>2. <<>> \in Seq(Nat)
    OBVIOUS
  <2>3. SaidIn(s, ms, 0) \in Seq(Nat)
    BY <2>1, <2>2, Zenon
  <2> QED
    BY <1>1, <2>3
<1>3. ASSUME NEW k \in 0 .. Len(s) - 1, k \in G PROVE k + 1 \in G
  <2>1. SaidIn(s, ms, k + 1) = Grown(SaidIn(s, ms, k), s, ms, k + 1)
    BY <1>1, SaidUnfolds, Zenon
  <2>2. Piece(s, ms, k + 1) \in Seq(Nat) /\ SaidIn(s, ms, k) \in Seq(Nat)
    BY <1>1, <1>3, PieceIsText
  <2>3. SaidIn(s, ms, k) \o Piece(s, ms, k + 1) \in Seq(Nat)
    BY <2>2, ConcatProperties
  <2>4. SaidIn(s, ms, k + 1) \in Seq(Nat)
    BY <2>1, <2>3, Zenon DEF Grown
  <2> QED
    BY <1>1, <2>4
<1>4. 0 .. Len(s) \subseteq G
  <2> HIDE DEF G
  <2> QED
    BY <1>1, <1>2, <1>3, UpToAll, Zenon
<1> QED
  BY <1>4

\* An event adds its word, if it is one of these messages, and else nothing.
LEMMA SaidGrows ==
    ASSUME NEW s, IsTurn(s), NEW ms, NEW n \in 0 .. Len(s) - 1
    PROVE  /\ (s[n + 1].type = "delta" /\ s[n + 1].m \in ms) =>
                SaidIn(s, ms, n + 1) = SaidIn(s, ms, n) \o <<Token(s, n + 1)>>
           /\ ~ (s[n + 1].type = "delta" /\ s[n + 1].m \in ms) =>
                SaidIn(s, ms, n + 1) = SaidIn(s, ms, n)
<1>1. Len(s) \in Nat /\ n + 1 \in 1 .. Len(s) /\ n \in 0 .. Len(s)
  BY TurnIsEvents
<1>2. SaidIn(s, ms, n + 1) = SaidIn(s, ms, n) \o Piece(s, ms, n + 1)
  BY <1>1, SaidUnfolds, Zenon DEF Grown
<1>3. SaidIn(s, ms, n) \o <<>> = SaidIn(s, ms, n)
  <2>1. SaidIn(s, ms, n) \in Seq(Nat)
    BY <1>1, SaidIsText
  <2> QED
    BY <2>1, ConcatEmptySeq
<1>4. CASE s[n + 1].type = "delta" /\ s[n + 1].m \in ms
  <2>1. Piece(s, ms, n + 1) = <<Token(s, n + 1)>>
    BY <1>1, <1>4, PieceIsText
  <2> QED
    BY <1>2, <1>4, <2>1, Zenon
<1>5. CASE ~ (s[n + 1].type = "delta" /\ s[n + 1].m \in ms)
  <2>1. Piece(s, ms, n + 1) = <<>>
    BY <1>1, <1>5, PieceIsText
  <2> QED
    BY <1>2, <1>3, <1>5, <2>1, Zenon
<1> QED
  BY <1>4, <1>5

LEMMA WordAppended ==
    ASSUME NEW q \in Seq(Nat), NEW t \in Nat
    PROVE  /\ q \o <<t>> \in Seq(Nat) /\ Len(q \o <<t>>) = Len(q) + 1
           /\ DOMAIN (q \o <<t>>) = 1 .. Len(q) + 1 /\ DOMAIN q = 1 .. Len(q) /\ Len(q) \in Nat
           /\ \A i \in 1 .. Len(q) : (q \o <<t>>)[i] = q[i] /\ q[i] \in Nat
           /\ (q \o <<t>>)[Len(q) + 1] = t
<1>1. <<t>> \in Seq(Nat) /\ Len(<<t>>) = 1 /\ <<t>>[1] = t
  OBVIOUS
<1>2. /\ q \o <<t>> \in Seq(Nat) /\ Len(q \o <<t>>) = Len(q) + 1
      /\ \A i \in 1 .. Len(q) + 1 : (q \o <<t>>)[i] = IF i <= Len(q) THEN q[i] ELSE <<t>>[i - Len(q)]
  BY <1>1, ConcatProperties
<1>3. DOMAIN (q \o <<t>>) = 1 .. Len(q) + 1 /\ DOMAIN q = 1 .. Len(q) /\ Len(q) \in Nat
  BY <1>2, LenProperties
<1>4. ASSUME NEW i \in 1 .. Len(q) PROVE (q \o <<t>>)[i] = q[i] /\ q[i] \in Nat
  BY <1>2, <1>3, <1>4
<1>5. (q \o <<t>>)[Len(q) + 1] = t
  <2>1. Len(q) + 1 \in 1 .. Len(q) + 1 /\ Len(q) + 1 - Len(q) = 1 /\ ~ (Len(q) + 1 <= Len(q))
    BY <1>3
  <2>2. (q \o <<t>>)[Len(q) + 1] = <<t>>[Len(q) + 1 - Len(q)]
    BY <1>2, <2>1
  <2> QED
    BY <1>1, <2>1, <2>2
<1> QED
  BY <1>2, <1>3, <1>4, <1>5

LEMMA AscendsOn ==
    ASSUME NEW q \in Seq(Nat), NEW t \in Nat, Ascends(q), \A i \in DOMAIN q : q[i] < t
    PROVE  Ascends(q \o <<t>>)
<1> DEFINE r == q \o <<t>>
<1>1. /\ DOMAIN r = 1 .. Len(q) + 1 /\ DOMAIN q = 1 .. Len(q) /\ Len(q) \in Nat
      /\ \A i \in 1 .. Len(q) : r[i] = q[i] /\ q[i] \in Nat
      /\ r[Len(q) + 1] = t
  BY WordAppended
<1> HIDE DEF r
<1>2. ASSUME NEW i \in DOMAIN r, NEW j \in DOMAIN r, i < j PROVE r[i] < r[j]
  <2>1. CASE j = Len(q) + 1
    BY <1>1, <1>2, <2>1
  <2>2. CASE j # Len(q) + 1
    <3>1. i \in 1 .. Len(q) /\ j \in 1 .. Len(q)
      BY <1>1, <1>2, <2>2
    <3> QED
      BY <1>1, <1>2, <3>1 DEF Ascends
  <2> QED
    BY <2>1, <2>2
<1> QED
  BY <1>2 DEF Ascends, r

LEMMA SpokenBefore ==
    ASSUME NEW s, IsTurn(s), NEW n \in 0 .. Len(s) - 1, s[n + 1].type = "delta",
           NEW m, NEW t, Spoken(s, t, m, n)
    PROVE  t < Token(s, n + 1)
<1>1. PICK d \in 1 .. n : IsWord(s, d, m) /\ Token(s, d) = t
  BY DEF Spoken
<1>2. n + 1 \in 1 .. Len(s) /\ d \in 1 .. Len(s) /\ d < n + 1
  BY TurnIsEvents
<1> QED
  BY <1>1, <1>2, WordsAscend DEF IsWord

\* A message said so far is its words so far, each once and in order.
IsSaid(q, s, m, n) ==
    /\ Ascends(q) /\ \A i \in DOMAIN q : Spoken(s, q[i], m, n)
    /\ \A t : Spoken(s, t, m, n) => \E i \in DOMAIN q : q[i] = t

LEMMA SaidIsSpoken ==
    ASSUME NEW s, IsTurn(s), NEW m, NEW n \in 0 .. Len(s)
    PROVE  IsSaid(SaidIn(s, {m}, n), s, m, n)
<1> DEFINE q(k) == SaidIn(s, {m}, k)
           Good(k) == /\ Ascends(q(k)) /\ \A i \in DOMAIN q(k) : Spoken(s, q(k)[i], m, k)
                      /\ \A t : Spoken(s, t, m, k) => \E i \in DOMAIN q(k) : q(k)[i] = t
           G == {k \in 0 .. Len(s) : Good(k)}
<1>1. Len(s) \in Nat
  BY TurnIsEvents
<1>2. 0 \in G
  <2>1. q(0) = <<>>
    BY <1>1, SaidUnfolds
  <2>2. DOMAIN <<>> = {}
    OBVIOUS
  <2>3. \A t : ~ Spoken(s, t, m, 0)
    BY DEF Spoken
  <2> HIDE DEF q
  <2>4. Good(0)
    BY <2>1, <2>2, <2>3 DEF Ascends
  <2> QED
    BY <1>1, <2>4
<1>3. ASSUME NEW k \in 0 .. Len(s) - 1, k \in G PROVE k + 1 \in G
  <2>a. k \in 0 .. Len(s) /\ k \in Nat /\ k + 1 \in 1 .. Len(s) /\ k + 1 \in 0 .. Len(s)
    BY <1>1
  <2>b. q(k) \in Seq(Nat)
    BY <2>a, SaidIsText
  <2>c. Good(k)
    <3> HIDE DEF Good
    <3> QED
      BY <1>3
  <2>1. q(k) \in Seq(Nat) /\ Good(k) /\ k \in Nat /\ k + 1 \in 1 .. Len(s) /\ k + 1 \in 0 .. Len(s)
    BY <2>a, <2>b, <2>c, Zenon
  <2>2. CASE s[k + 1].type = "delta" /\ s[k + 1].m = m
    <3> DEFINE t == Token(s, k + 1)
    <3>1. q(k + 1) = q(k) \o <<t>> /\ t \in Nat
      BY <2>1, <2>2, SaidGrows, WordsAreTokens, Zenon
    <3>2. \A i \in DOMAIN q(k) : q(k)[i] < t
      BY <2>1, <2>2, SpokenBefore, Zenon
    <3>3. Spoken(s, t, m, k + 1)
      BY <2>1, <2>2, TurnIsEvents DEF Spoken, IsWord
    <3>4. \A u : Spoken(s, u, m, k + 1) => u = t \/ Spoken(s, u, m, k)
      <4> SUFFICES ASSUME NEW u, Spoken(s, u, m, k + 1), u # t PROVE Spoken(s, u, m, k)
        OBVIOUS
      <4>1. PICK d \in 1 .. k + 1 : IsWord(s, d, m) /\ Token(s, d) = u
        BY DEF Spoken
      <4>2. d \in 1 .. k
        BY <2>1, <4>1
      <4> QED
        BY <4>1, <4>2 DEF Spoken
    <3>5. \A u : Spoken(s, u, m, k) => Spoken(s, u, m, k + 1)
      BY <2>1, SpokenStays
    <3> HIDE DEF t, q
    <3>6. Ascends(q(k + 1))
      BY <2>1, <3>1, <3>2, AscendsOn, Zenon
    <3>7. /\ DOMAIN q(k + 1) = 1 .. Len(q(k)) + 1 /\ DOMAIN q(k) = 1 .. Len(q(k)) /\ Len(q(k)) \in Nat
          /\ \A i \in 1 .. Len(q(k)) : q(k + 1)[i] = q(k)[i]
          /\ q(k + 1)[Len(q(k)) + 1] = t
      BY <2>1, <3>1, WordAppended
    <3>8. ASSUME NEW i \in DOMAIN q(k + 1) PROVE Spoken(s, q(k + 1)[i], m, k + 1)
      <4>1. CASE i = Len(q(k)) + 1
        BY <3>3, <3>7, <4>1
      <4>2. CASE i # Len(q(k)) + 1
        <5>1. i \in DOMAIN q(k)
          BY <3>7, <3>8, <4>2
        <5> QED
          BY <2>1, <3>5, <3>7, <5>1
      <4> QED
        BY <4>1, <4>2
    <3>9. ASSUME NEW u, Spoken(s, u, m, k + 1) PROVE \E i \in DOMAIN q(k + 1) : q(k + 1)[i] = u
      <4>1. CASE u = t
        BY <3>7, <4>1
      <4>2. CASE Spoken(s, u, m, k)
        <5>1. PICK i \in DOMAIN q(k) : q(k)[i] = u
          BY <2>1, <4>2
        <5> QED
          BY <3>7, <5>1
      <4> QED
        BY <3>4, <3>9, <4>1, <4>2
    <3> QED
      BY <2>1, <3>6, <3>8, <3>9
  <2>3. CASE ~ (s[k + 1].type = "delta" /\ s[k + 1].m = m)
    <3>1. q(k + 1) = q(k)
      BY <2>1, <2>3, SaidGrows, Zenon
    <3>2. \A u : Spoken(s, u, m, k + 1) <=> Spoken(s, u, m, k)
      BY <2>1, <2>3 DEF Spoken, IsWord
    <3> HIDE DEF q
    <3> QED
      BY <2>1, <3>1, <3>2
  <2> QED
    BY <2>2, <2>3, Zenon
<1>4. n \in G
  <2> HIDE DEF G
  <2> QED
    BY <1>1, <1>2, <1>3, UpToAll
<1>5. Good(n)
  BY <1>4, Zenon
<1> HIDE DEF q
<1>6. IsSaid(q(n), s, m, n)
  BY <1>5 DEF IsSaid
<1> QED
  BY <1>6 DEF q

\* Where no word of these messages has come, they say what they said.
LEMMA SaidSame ==
    ASSUME NEW s, IsTurn(s), NEW ms, NEW n \in 0 .. Len(s), NEW k \in n .. Len(s),
           \A d \in n + 1 .. k : ~ (s[d].type = "delta" /\ s[d].m \in ms)
    PROVE  SaidIn(s, ms, k) = SaidIn(s, ms, n)
<1> DEFINE G == {j \in 0 .. k - n : SaidIn(s, ms, n + j) = SaidIn(s, ms, n)}
<1>1. Len(s) \in Nat /\ k - n \in Nat /\ k - n \in 0 .. k - n /\ n + (k - n) = k
  BY TurnIsEvents
<1>2. 0 \in G
  BY <1>1
<1>3. ASSUME NEW j \in 0 .. k - n - 1, j \in G PROVE j + 1 \in G
  <2>1. n + j \in 0 .. Len(s) - 1 /\ n + j + 1 \in n + 1 .. k /\ j + 1 \in 0 .. k - n
        /\ n + (j + 1) = n + j + 1
    BY <1>1
  <2>2. SaidIn(s, ms, n + j + 1) = SaidIn(s, ms, n + j)
    BY <2>1, SaidGrows, Zenon
  <2> QED
    BY <1>3, <2>1, <2>2
<1>4. 0 .. k - n \subseteq G
  <2> HIDE DEF G
  <2> QED
    BY <1>1, <1>2, <1>3, UpToAll, Zenon
<1> QED
  BY <1>1, <1>4

Begins(q, t) == Len(q) <= Len(t) /\ \A i \in 1 .. Len(q) : t[i] = q[i]

\* What is said later begins with what was said before.
LEMMA SaidBegins ==
    ASSUME NEW s, IsTurn(s), NEW ms, NEW n \in 0 .. Len(s), NEW k \in n .. Len(s)
    PROVE  Begins(SaidIn(s, ms, n), SaidIn(s, ms, k))
<1> DEFINE G == {j \in 0 .. k - n : Begins(SaidIn(s, ms, n), SaidIn(s, ms, n + j))}
<1>1. Len(s) \in Nat /\ k - n \in Nat /\ k - n \in 0 .. k - n /\ n + (k - n) = k
  BY TurnIsEvents
<1>2. 0 \in G
  <2>1. SaidIn(s, ms, n) \in Seq(Nat) /\ n + 0 = n
    BY SaidIsText
  <2> QED
    BY <1>1, <2>1, LenProperties DEF Begins
<1>3. ASSUME NEW j \in 0 .. k - n - 1, j \in G PROVE j + 1 \in G
  <2>1. n + j \in 0 .. Len(s) - 1 /\ n + j \in 0 .. Len(s) /\ j + 1 \in 0 .. k - n
        /\ n + (j + 1) = n + j + 1 /\ n + j + 1 \in 1 .. Len(s)
    BY <1>1
  <2> DEFINE q == SaidIn(s, ms, n)
             v == SaidIn(s, ms, n + j)
             w == SaidIn(s, ms, n + j + 1)
  <2>2. q \in Seq(Nat) /\ v \in Seq(Nat) /\ Begins(q, v)
    BY <1>3, <2>1, SaidIsText
  <2>3. w = v \/ (Token(s, n + j + 1) \in Nat /\ w = v \o <<Token(s, n + j + 1)>>)
    BY <2>1, SaidGrows, WordsAreTokens
  <2> HIDE DEF q, v, w
  <2>4. Begins(q, w)
    <3>1. CASE w = v
      BY <2>2, <3>1
    <3>2. CASE Token(s, n + j + 1) \in Nat /\ w = v \o <<Token(s, n + j + 1)>>
      <4>1. Len(w) = Len(v) + 1 /\ Len(v) \in Nat /\ Len(q) \in Nat /\ \A i \in 1 .. Len(v) : w[i] = v[i]
        BY <2>2, <3>2, WordAppended, LenProperties
      <4> QED
        BY <2>2, <4>1 DEF Begins
    <3> QED
      BY <2>3, <3>1, <3>2
  <2> QED
    BY <2>1, <2>4 DEF q, w
<1>4. 0 .. k - n \subseteq G
  <2> HIDE DEF G
  <2> QED
    BY <1>1, <1>2, <1>3, UpToAll
<1> QED
  BY <1>1, <1>4

(* What a turn in the backend knows *)

TextIds == MessageIds \cup {UserMessage, OldMessage}
TurnLocals == [asked : BOOLEAN, parts : SUBSET (Int \X Nat), raw : [TextIds -> Seq(Nat)],
               visible : [TextIds -> Seq(Nat)], popped : SUBSET MessageIds]
StreamShape ==
    /\ script \in Scripts /\ sent \in 0 .. Len(script) /\ read \in 0 .. sent /\ how \in TurnEnds
    /\ link \in [state : {"none", "up", "closed", "failed"}, from : Nat, upto : Nat]
    /\ link.from <= read
    /\ link.state = "none" => read = 0
    /\ link.state \in {"closed", "failed"} => read <= link.upto /\ link.upto <= sent
    /\ turn \in TurnLocals /\ out \in Seq(Nat)

\* What was put out of a message is what is known of it, the part under way last.
TextsFit ==
    \A m \in MessageIds :
       /\ Ascends(turn.visible[m]) /\ EndsIn(turn.raw[m], turn.visible[m])
       /\ \A i \in DOMAIN turn.visible[m] : Spoken(script, turn.visible[m][i], m, read)
OutFits ==
    \A m \in MessageIds :
       /\ InOrder(script, out, m)
       /\ \A i \in DOMAIN out : out[i] \in Words(script, m) =>
             /\ Spoken(script, out[i], m, read)
             /\ m \notin turn.popped => \E k \in DOMAIN turn.visible[m] : turn.visible[m][k] = out[i]
PoppedIsOver ==
    \A m \in turn.popped :
       /\ turn.raw[m] = <<>> /\ turn.visible[m] = <<>>
       /\ \E j \in 3 .. read : script[j].type \in {"toolcalls", "finish"} /\ script[j].m = m
\* Nothing of the answer is known before the first part that is heard.
NothingYet ==
    (\A j \in link.from + 1 .. read : script[j].type = "part" => script[j].m = UserMessage) =>
       /\ \A m \in MessageIds : turn.raw[m] = <<>> /\ turn.visible[m] = <<>>
       /\ \A q \in turn.parts : q[1] \notin MessageIds
       /\ \A i \in DOMAIN out : \A m \in MessageIds : out[i] \notin Words(script, m)
\* The part that began with event a has come up to event n, and no further.
Underway(s, a, n) ==
    /\ 3 <= a /\ s[a].type = "part" /\ s[a].text = <<>>
    /\ \A d \in a + 1 .. n : IsWord(s, d, s[a].m) /\ s[d].p = s[a].p
\* A part that was heard from its beginning is known as far as it has come.
PartIsKnown ==
    \A a \in link.from + 1 .. read :
       Underway(script, a, read) =>
          /\ <<script[a].m, script[a].p>> \in turn.parts
          /\ Len(turn.raw[script[a].m]) = read - a
          /\ \A i \in 1 .. read - a : turn.raw[script[a].m][i] = Token(script, a + i)
\* A turn that was heard from its beginning is known whole.
KnownWhole ==
    link.from <= 2 =>
       /\ (read >= 3 /\ script[read].type \in {"part", "delta"}) =>
            <<script[read].m, script[read].p>> \in turn.parts
       /\ \A m \in MessageIds \ turn.popped : turn.visible[m] = SaidIn(script, {m}, read)
OutIsWhole == link.from \in {0, 2} => out = SaidIn(script, MessageIds, read)
LastIsShown ==
    \A m \in MessageIds :
       (\A d \in 1 .. read : script[d].type = "delta" => script[d].m <= m)
          => EndsIn(turn.visible[m], out)
AskedIsKnown == (link.state # "none" /\ link.from = 0 /\ read >= 1) => turn.asked

UnderWay == /\ TextsFit /\ OutFits /\ PoppedIsOver /\ NothingYet /\ PartIsKnown
            /\ KnownWhole /\ OutIsWhole /\ LastIsShown /\ AskedIsKnown
OutInOrder == \A m \in MessageIds : (m \in turn.popped /\ Recovered) \/ InOrder(script, out, m)
EndIsWhole ==
    how \in {"finished", "idle"} =>
       /\ \A d \in read + 1 .. Len(script) : script[d].type # "delta"
       /\ OutIsWhole
StreamInv ==
    /\ StreamShape /\ (how = "under way" => UnderWay) /\ OutInOrder /\ EndIsWhole
    /\ how = "polled" => sent = Len(script) /\ PolledIsWhole

LEMMA StreamFacts ==
    ASSUME StreamShape
    PROVE  /\ IsTurn(script) /\ Len(script) \in Nat /\ sent \in Nat /\ read \in Nat
           /\ read <= sent /\ sent <= Len(script) /\ read \in 0 .. Len(script)
           /\ DOMAIN script = 1 .. Len(script) /\ link.from \in Nat /\ link.from <= read
           /\ turn.asked \in BOOLEAN /\ turn.parts \subseteq Int \X Nat
           /\ turn.popped \subseteq MessageIds /\ out \in Seq(Nat)
           /\ MessageIds \subseteq TextIds /\ UserMessage \notin MessageIds /\ OldMessage \notin MessageIds
           /\ \A m \in TextIds : turn.raw[m] \in Seq(Nat) /\ turn.visible[m] \in Seq(Nat)
<1>1. IsTurn(script)
  BY StreamAssumption DEF StreamShape
<1>2. Len(script) \in Nat /\ DOMAIN script = 1 .. Len(script)
  BY <1>1, TurnIsEvents
<1>3. UserMessage \notin MessageIds /\ OldMessage \notin MessageIds /\ MessageIds \subseteq TextIds
  BY StreamAssumption DEF UserMessage, OldMessage, MessageIds, TextIds
<1>4. turn \in TurnLocals
  BY DEF StreamShape
<1>5. /\ turn.asked \in BOOLEAN /\ turn.parts \subseteq Int \X Nat
      /\ turn.popped \subseteq MessageIds
      /\ \A m \in TextIds : turn.raw[m] \in Seq(Nat) /\ turn.visible[m] \in Seq(Nat)
  BY <1>4 DEF TurnLocals
<1>6. /\ sent \in Nat /\ read \in Nat /\ read <= sent /\ sent <= Len(script) /\ read \in 0 .. Len(script)
      /\ link.from \in Nat /\ link.from <= read /\ out \in Seq(Nat)
  BY <1>2 DEF StreamShape
<1> QED
  BY <1>1, <1>2, <1>3, <1>5, <1>6

LEMMA HandleFacts ==
    ASSUME StreamInv, Handle
    PROVE  /\ StreamShape /\ UnderWay /\ how = "under way" /\ link.state # "none"
           /\ IsTurn(script) /\ Len(script) \in Nat /\ read \in Nat /\ read + 1 \in 1 .. Len(script)
           /\ read \in 0 .. Len(script) - 1 /\ read \in 0 .. Len(script) /\ read + 1 <= sent
           /\ read' = read + 1 /\ script' = script /\ sent' = sent /\ link' = link
           /\ link.state \in {"closed", "failed"} => read + 1 <= link.upto
<1>1. StreamShape /\ UnderWay /\ how = "under way" /\ link.state # "none"
      /\ link \in [state : {"none", "up", "closed", "failed"}, from : Nat, upto : Nat]
  BY Zenon DEF StreamInv, StreamShape, Handle, Following
<1>2. IsTurn(script) /\ Len(script) \in Nat /\ read \in Nat /\ sent \in Nat /\ sent <= Len(script)
  BY <1>1, StreamFacts, Zenon
<1>3. read < Arrived /\ read' = read + 1 /\ script' = script /\ sent' = sent /\ link' = link
  BY DEF Handle
<1>4. link.state = "up" \/ link.state \in {"closed", "failed"}
  BY <1>1, Zenon
<1>5. read + 1 <= sent /\ (link.state \in {"closed", "failed"} => read + 1 <= link.upto)
  <2>1. CASE link.state = "up"
    <3>1. read < sent
      BY <1>3, <2>1 DEF Arrived
    <3> QED
      BY <1>2, <2>1, <3>1
  <2>2. CASE link.state \in {"closed", "failed"}
    <3>1. read < link.upto
      BY <1>3, <2>2 DEF Arrived
    <3>2. link.upto \in Nat
      BY <1>1, Zenon
    <3>3. link.upto <= sent
      BY <1>1, <2>2, Zenon DEF StreamShape
    <3> QED
      BY <1>2, <3>1, <3>2, <3>3
  <2> QED
    BY <1>4, <2>1, <2>2
<1>6. read + 1 \in 1 .. Len(script) /\ read \in 0 .. Len(script) - 1 /\ read \in 0 .. Len(script)
  BY <1>2, <1>5
<1> QED
  BY <1>1, <1>2, <1>3, <1>5, <1>6, Zenon

LEMMA DropIsRest ==
    ASSUME NEW text \in Seq(Nat), NEW n \in 0 .. Len(text)
    PROVE  /\ Drop(text, n) \in Seq(Nat) /\ Len(Drop(text, n)) = Len(text) - n
           /\ \A i \in 1 .. Len(text) - n : Drop(text, n)[i] = text[n + i]
<1>1. Len(text) \in Nat /\ \A i \in n + 1 .. Len(text) : text[i] \in Nat
  BY LenProperties
<1>2. /\ SubSeq(text, n + 1, Len(text)) \in Seq(Nat)
      /\ Len(SubSeq(text, n + 1, Len(text))) =
           IF n + 1 <= Len(text) THEN Len(text) - (n + 1) + 1 ELSE 0
      /\ \A i \in 1 .. Len(text) - (n + 1) + 1 : SubSeq(text, n + 1, Len(text))[i] = text[n + 1 + i - 1]
  BY <1>1, SubSeqProperties
<1>3. Len(text) - (n + 1) + 1 = Len(text) - n /\ \A i \in Nat : n + 1 + i - 1 = n + i
  BY <1>1
<1>4. ASSUME NEW i \in 1 .. Len(text) - n PROVE SubSeq(text, n + 1, Len(text))[i] = text[n + i]
  BY <1>1, <1>2, <1>3
<1> QED
  BY <1>1, <1>2, <1>4 DEF Drop

LEMMA PrefixBegins ==
    ASSUME NEW q \in Seq(Nat), NEW t \in Seq(Nat)
    PROVE  IsPrefix(q, t) <=> Begins(q, t)
<1>1. Len(q) \in Nat /\ Len(t) \in Nat /\ \A i \in 1 .. Len(q) : q[i] \in Nat
  BY LenProperties
<1>2. ASSUME Len(q) <= Len(t)
      PROVE  /\ SubSeq(t, 1, Len(q)) \in Seq(Nat) /\ Len(SubSeq(t, 1, Len(q))) = Len(q)
             /\ \A i \in 1 .. Len(q) : SubSeq(t, 1, Len(q))[i] = t[i]
  <2>1. \A i \in 1 .. Len(q) : t[i] \in Nat
    BY <1>1, <1>2, LenProperties
  <2>2. /\ SubSeq(t, 1, Len(q)) \in Seq(Nat)
        /\ Len(SubSeq(t, 1, Len(q))) = IF 1 <= Len(q) THEN Len(q) - 1 + 1 ELSE 0
        /\ \A i \in 1 .. Len(q) - 1 + 1 : SubSeq(t, 1, Len(q))[i] = t[1 + i - 1]
    BY <1>1, <2>1, SubSeqProperties
  <2>3. ASSUME NEW i \in 1 .. Len(q) PROVE SubSeq(t, 1, Len(q))[i] = t[i]
    <3>1. i \in 1 .. Len(q) - 1 + 1 /\ 1 + i - 1 = i
      BY <1>1
    <3> QED
      BY <2>2, <3>1
  <2> QED
    BY <1>1, <2>2, <2>3
<1>3. SubSeq(q, 1, Len(q)) = q
  BY SubSeqFull
<1>4. ASSUME IsPrefix(q, t) PROVE Begins(q, t)
  BY <1>2, <1>3, <1>4 DEF IsPrefix, Begins
<1>5. ASSUME Begins(q, t) PROVE IsPrefix(q, t)
  <2>1. Len(q) <= Len(t) /\ \A i \in 1 .. Len(q) : t[i] = q[i]
    BY <1>5 DEF Begins
  <2>2. SubSeq(t, 1, Len(q)) = q
    BY <1>2, <2>1, SeqEqual
  <2> QED
    BY <1>3, <2>1, <2>2 DEF IsPrefix
<1> QED
  BY <1>4, <1>5

\* What a text adds to what is known of its message.
MoreOf(m, text) ==
    LET before == turn.raw[m]
        known == turn.visible[m]
        continues == before # <<>> /\ IsPrefix(before, text)
    IN IF continues THEN Drop(text, Len(before))
       ELSE IF IsPrefix(known, text) THEN Drop(text, Len(known)) ELSE <<>>

LEMMA MoreIsRest ==
    ASSUME StreamShape, NEW m \in TextIds, NEW text \in Seq(Nat)
    PROVE  /\ MoreOf(m, text) \in Seq(Nat)
           /\ \/ MoreOf(m, text) = <<>>
              \/ /\ turn.raw[m] # <<>> /\ Begins(turn.raw[m], text)
                 /\ MoreOf(m, text) = Drop(text, Len(turn.raw[m]))
              \/ /\ Begins(turn.visible[m], text) /\ MoreOf(m, text) = Drop(text, Len(turn.visible[m]))
           /\ (turn.raw[m] # <<>> /\ Begins(turn.raw[m], text)) =>
                MoreOf(m, text) = Drop(text, Len(turn.raw[m]))
           /\ (~ (turn.raw[m] # <<>> /\ Begins(turn.raw[m], text)) /\ Begins(turn.visible[m], text)) =>
                MoreOf(m, text) = Drop(text, Len(turn.visible[m]))
<1>1. turn.raw[m] \in Seq(Nat) /\ turn.visible[m] \in Seq(Nat)
  BY StreamFacts
<1>2. /\ IsPrefix(turn.raw[m], text) <=> Begins(turn.raw[m], text)
      /\ IsPrefix(turn.visible[m], text) <=> Begins(turn.visible[m], text)
  BY <1>1, PrefixBegins
<1>3. Begins(turn.raw[m], text) => Drop(text, Len(turn.raw[m])) \in Seq(Nat)
  BY <1>1, DropIsRest, LenProperties DEF Begins
<1>4. Begins(turn.visible[m], text) => Drop(text, Len(turn.visible[m])) \in Seq(Nat)
  BY <1>1, DropIsRest, LenProperties DEF Begins
<1>5. <<>> \in Seq(Nat)
  OBVIOUS
<1> QED
  BY <1>2, <1>3, <1>4, <1>5 DEF MoreOf

LEMMA Reconciled ==
    ASSUME StreamShape, NEW m \in TextIds, NEW text \in Seq(Nat), NEW parts,
           parts \subseteq Int \X Nat, Reconcile(m, text, parts)
    PROVE  /\ out' = out \o MoreOf(m, text) /\ out' \in Seq(Nat) /\ turn' \in TurnLocals
           /\ turn'.asked = turn.asked /\ turn'.parts = parts /\ turn'.popped = turn.popped
           /\ turn'.raw[m] = text /\ turn'.visible[m] = turn.visible[m] \o MoreOf(m, text)
           /\ \A k \in TextIds : k # m =>
                turn'.raw[k] = turn.raw[k] /\ turn'.visible[k] = turn.visible[k]
<1> DEFINE more == MoreOf(m, text)
<1>1. /\ out' = out \o more
      /\ turn' = [turn EXCEPT !.parts = parts, !.raw[m] = text, !.visible[m] = turn.visible[m] \o more]
  BY DEF Reconcile, MoreOf
<1>2. turn \in TurnLocals /\ out \in Seq(Nat) /\ turn.visible[m] \in Seq(Nat) /\ more \in Seq(Nat)
  BY StreamFacts, MoreIsRest DEF StreamShape
<1> HIDE DEF more
<1>3. turn.visible[m] \o more \in Seq(Nat) /\ out \o more \in Seq(Nat)
  BY <1>2, ConcatProperties
<1> DEFINE seen == turn.visible[m] \o more
<1> HIDE DEF seen
<1>4. turn' = [turn EXCEPT !.parts = parts, !.raw[m] = text, !.visible[m] = seen] /\ seen \in Seq(Nat)
  BY <1>1, <1>3 DEF seen
<1>5. /\ turn' \in TurnLocals
      /\ turn'.asked = turn.asked /\ turn'.parts = parts /\ turn'.popped = turn.popped
      /\ turn'.raw = [turn.raw EXCEPT ![m] = text] /\ turn'.visible = [turn.visible EXCEPT ![m] = seen]
  BY <1>2, <1>4, Zenon DEF TurnLocals
<1>6. /\ turn'.raw[m] = text /\ turn'.visible[m] = seen
      /\ \A k \in TextIds : k # m =>
                turn'.raw[k] = turn.raw[k] /\ turn'.visible[k] = turn.visible[k]
  BY <1>2, <1>5 DEF TurnLocals
<1> QED
  BY <1>1, <1>3, <1>5, <1>6 DEF seen, more

\* A message whose end was seen sends nothing more.
LEMMA NotPopped ==
    ASSUME StreamInv, Handle, script[read + 1].type \in {"part", "delta", "toolcalls", "finish"}
    PROVE  script[read + 1].m \notin turn.popped
<1> DEFINE m == script[read + 1].m
<1>1. /\ StreamShape /\ IsTurn(script) /\ Len(script) \in Nat /\ read \in Nat
      /\ read + 1 \in 1 .. Len(script) /\ PoppedIsOver
  BY HandleFacts, Zenon DEF UnderWay
<1>2. SUFFICES ASSUME m \in turn.popped PROVE FALSE
  OBVIOUS
<1>3. m \in MessageIds
  BY <1>1, <1>2, StreamFacts
<1>4. PICK j \in 3 .. read : script[j].type \in {"toolcalls", "finish"} /\ script[j].m = m
  BY <1>1, <1>2 DEF PoppedIsOver
<1>5. read + 1 <= Len(script) - 1
  <2>1. ~ (script[read + 1].type \in {"idle", "error"})
    OBVIOUS
  <2>2. read + 1 # Len(script)
    <3>1. script[Len(script)].type \in {"idle", "error"}
      BY <1>1 DEF IsTurn
    <3> QED
      BY <2>1, <3>1
  <2> QED
    BY <1>1, <2>2
<1>6. j \in 3 .. Len(script) - 1 /\ read + 1 \in 3 .. Len(script) - 1 /\ j < read + 1 /\ j \in 1 .. Len(script)
  BY <1>1, <1>4, <1>5
<1>7. script[j].type # "finish"
  BY <1>1, <1>5, <1>6, EventsInPlace
<1>8. script[j].m < m
  BY <1>1, <1>4, <1>6, <1>7, MessagesFollow
<1>9. m \in Nat
  BY <1>3, StreamAssumption DEF MessageIds
<1> QED
  BY <1>4, <1>8, <1>9

\* An event that puts nothing out leaves the texts as they fit.
LEMMA ReadOn ==
    ASSUME StreamInv, Handle, out' = out, turn'.popped = turn.popped,
           \A m \in MessageIds : /\ turn'.visible[m] = turn.visible[m]
                                 /\ turn'.raw[m] = turn.raw[m] \/ turn'.raw[m] = <<>>
    PROVE  TextsFit' /\ OutFits' /\ PoppedIsOver' /\ LastIsShown'
<1>1. /\ StreamShape /\ TextsFit /\ OutFits /\ PoppedIsOver /\ LastIsShown
      /\ read \in Nat /\ read' = read + 1 /\ script' = script
  BY HandleFacts, Zenon DEF UnderWay
<1>2. \A m \in MessageIds : turn.visible[m] \in Seq(Nat) /\ Len(turn.visible[m]) \in Nat
  BY <1>1, StreamFacts, LenProperties
<1>3. \A m \in MessageIds : EndsIn(turn'.raw[m], turn.visible[m])
  <2> SUFFICES ASSUME NEW m \in MessageIds PROVE EndsIn(turn'.raw[m], turn.visible[m])
    OBVIOUS
  <2>1. CASE turn'.raw[m] = turn.raw[m]
    BY <1>1, <2>1 DEF TextsFit
  <2>2. CASE turn'.raw[m] = <<>>
    BY <1>2, <2>2 DEF EndsIn
  <2> QED
    BY <2>1, <2>2
<1>4. \A t, m : Spoken(script, t, m, read) => Spoken(script, t, m, read + 1)
  BY <1>1, SpokenStays
<1>5. TextsFit'
  BY <1>1, <1>3, <1>4 DEF TextsFit
<1>6. OutFits'
  BY <1>1, <1>4 DEF OutFits
<1>7. PoppedIsOver'
  <2> SUFFICES ASSUME NEW m \in turn.popped
               PROVE  /\ turn'.raw[m] = <<>> /\ turn'.visible[m] = <<>>
                      /\ \E j \in 3 .. read + 1 : script[j].type \in {"toolcalls", "finish"} /\ script[j].m = m
    BY <1>1 DEF PoppedIsOver
  <2>1. m \in MessageIds
    BY <1>1, StreamFacts
  <2>2. turn.raw[m] = <<>> /\ turn.visible[m] = <<>>
    BY <1>1 DEF PoppedIsOver
  <2>3. PICK j \in 3 .. read : script[j].type \in {"toolcalls", "finish"} /\ script[j].m = m
    BY <1>1 DEF PoppedIsOver
  <2>4. j \in 3 .. read + 1
    BY <1>1
  <2> QED
    BY <2>1, <2>2, <2>3, <2>4
<1>8. LastIsShown'
  <2> SUFFICES ASSUME NEW m \in MessageIds,
                      \A d \in 1 .. read + 1 : script[d].type = "delta" => script[d].m <= m
               PROVE  EndsIn(turn.visible[m], out)
    BY <1>1 DEF LastIsShown
  <2>1. \A d \in 1 .. read : script[d].type = "delta" => script[d].m <= m
    BY <1>1
  <2> QED
    BY <1>1, <2>1 DEF LastIsShown
<1> QED
  BY <1>5, <1>6, <1>7, <1>8

\* An event without a word leaves whole what is whole.
LEMMA SaidStays ==
    ASSUME StreamInv, Handle, script[read + 1].type # "delta", turn.popped \subseteq turn'.popped,
           \A m \in MessageIds \ turn'.popped : turn'.visible[m] = turn.visible[m]
    PROVE  /\ out' = out => OutIsWhole'
           /\ link.from <= 2 => \A m \in MessageIds \ turn'.popped :
                                   turn'.visible[m] = SaidIn(script, {m}, read + 1)
<1>1. /\ IsTurn(script) /\ read \in 0 .. Len(script) - 1 /\ KnownWhole /\ OutIsWhole
      /\ read' = read + 1 /\ script' = script /\ link' = link
  BY HandleFacts, Zenon DEF UnderWay
<1>2. \A ms : SaidIn(script, ms, read + 1) = SaidIn(script, ms, read)
  BY <1>1, SaidGrows, Zenon
<1>3. out' = out => OutIsWhole'
  BY <1>1, <1>2 DEF OutIsWhole
<1>4. link.from <= 2 => \A m \in MessageIds \ turn'.popped :
                                   turn'.visible[m] = SaidIn(script, {m}, read + 1)
  BY <1>1, <1>2 DEF KnownWhole
<1> QED
  BY <1>3, <1>4

LEMMA HandleShape ==
    ASSUME StreamInv, Handle, turn' \in TurnLocals, out' \in Seq(Nat), how' \in TurnEnds
    PROVE  StreamShape'
<1>1. /\ StreamShape /\ link.state # "none" /\ Len(script) \in Nat /\ read \in Nat /\ read + 1 <= sent
      /\ read' = read + 1 /\ script' = script /\ sent' = sent /\ link' = link
      /\ link.state \in {"closed", "failed"} => read + 1 <= link.upto
  BY HandleFacts, Zenon
<1>2. sent \in Nat /\ link.from \in Nat /\ link.from <= read
  BY <1>1, StreamFacts
<1>3. read' \in 0 .. sent' /\ link'.from <= read'
  BY <1>1, <1>2
<1>4. /\ link'.state # "none"
      /\ link'.state \in {"closed", "failed"} => read' <= link'.upto /\ link'.upto <= sent'
  BY <1>1 DEF StreamShape
<1>5. script' \in Scripts /\ sent' \in 0 .. Len(script')
      /\ link' \in [state : {"none", "up", "closed", "failed"}, from : Nat, upto : Nat]
  BY <1>1 DEF StreamShape
<1> QED
  BY <1>3, <1>4, <1>5 DEF StreamShape

\* No part goes on past an event without a word.
LEMMA PartStops ==
    ASSUME StreamInv, Handle, script[read + 1].type # "delta"
    PROVE  \A a \in link.from + 1 .. read : ~ Underway(script, a, read + 1)
<1>1. read \in Nat /\ StreamShape
  BY HandleFacts, Zenon
<1>2. link.from \in Nat
  BY <1>1, StreamFacts
<1> SUFFICES ASSUME NEW a \in link.from + 1 .. read, Underway(script, a, read + 1) PROVE FALSE
  OBVIOUS
<1>3. read + 1 \in a + 1 .. read + 1
  BY <1>1, <1>2
<1> QED
  BY <1>3 DEF Underway, IsWord

LEMMA StillNothing ==
    ASSUME StreamInv, Handle, out' = out,
           \A m \in MessageIds : /\ turn'.visible[m] = turn.visible[m] \/ turn'.visible[m] = <<>>
                                 /\ turn'.raw[m] = turn.raw[m] \/ turn'.raw[m] = <<>>,
           \A q \in turn'.parts : q \in turn.parts \/ q[1] \notin MessageIds
    PROVE  NothingYet'
<1>1. /\ NothingYet /\ read' = read + 1 /\ script' = script /\ link' = link /\ read \in Nat /\ StreamShape
  BY HandleFacts, Zenon DEF UnderWay
<1>2. link.from \in Nat
  BY <1>1, StreamFacts
<1> SUFFICES ASSUME \A j \in link.from + 1 .. read + 1 :
                       script[j].type = "part" => script[j].m = UserMessage
             PROVE  /\ \A m \in MessageIds : turn'.raw[m] = <<>> /\ turn'.visible[m] = <<>>
                    /\ \A q \in turn'.parts : q[1] \notin MessageIds
                    /\ \A i \in DOMAIN out' : \A m \in MessageIds : out'[i] \notin Words(script, m)
  BY <1>1 DEF NothingYet
<1>3. \A j \in link.from + 1 .. read : script[j].type = "part" => script[j].m = UserMessage
  BY <1>1, <1>2
<1>4. /\ \A m \in MessageIds : turn.raw[m] = <<>> /\ turn.visible[m] = <<>>
      /\ \A q \in turn.parts : q[1] \notin MessageIds
      /\ \A i \in DOMAIN out : \A m \in MessageIds : out[i] \notin Words(script, m)
  BY <1>1, <1>3 DEF NothingYet
<1> QED
  BY <1>4

\* The message of the user is announced first.
LEMMA UserStep ==
    ASSUME StreamInv, Handle, script[read + 1].type = "user",
           turn' \in TurnLocals, turn'.asked, turn'.parts = turn.parts,
           turn'.raw = turn.raw, turn'.visible = turn.visible, turn'.popped = turn.popped,
           out' = out, how' = how
    PROVE  StreamShape' /\ UnderWay'
<1>1. /\ StreamShape /\ UnderWay /\ how = "under way" /\ IsTurn(script) /\ read \in Nat
      /\ read + 1 \in 1 .. Len(script) /\ read' = read + 1 /\ script' = script /\ link' = link
  BY HandleFacts, Zenon
<1>a. link.from \in Nat /\ link.from <= read
  BY <1>1, StreamFacts, Zenon
<1>b. read + 1 = 1
  BY <1>1, EventsInPlace, Zenon
<1>c. read \in Nat
  BY <1>1, Zenon
<1>d. read = 0
  BY <1>b, <1>c
<1>2. read = 0 /\ link.from \in Nat /\ link.from <= read
  BY <1>a, <1>d
<1>4. StreamShape'
  BY <1>1, HandleShape, Zenon DEF StreamShape, TurnEnds
<1>5. TextsFit' /\ OutFits' /\ PoppedIsOver' /\ LastIsShown'
  BY ReadOn
<1>6. NothingYet'
  BY StillNothing
<1>7. OutIsWhole'
  BY SaidStays
<1>8. PartIsKnown'
  <2>a. link'.from = link.from /\ read' = read + 1
    BY <1>1, Zenon
  <2>b. link.from = 0
    BY <1>a, <1>d
  <2>1. link'.from + 1 = 1 /\ read' = 1
    BY <2>a, <2>b, <1>d
  <2>2. \A a \in 1 .. 1 : ~ (3 <= a)
    OBVIOUS
  <2> QED
    BY <2>1, <2>2 DEF PartIsKnown, Underway
<1>9. KnownWhole'
  <2>1. link.from <= 2 => \A m \in MessageIds \ turn'.popped :
                                   turn'.visible[m] = SaidIn(script, {m}, read + 1)
    BY SaidStays
  <2> QED
    BY <1>1, <1>2, <2>1, Zenon DEF KnownWhole
<1>10. AskedIsKnown'
  BY DEF AskedIsKnown
<1> QED
  BY <1>4, <1>5, <1>6, <1>7, <1>8, <1>9, <1>10 DEF UnderWay

LEMMA MoreOfOne ==
    ASSUME StreamShape, NEW m \in TextIds, NEW t \in Nat
    PROVE  MoreOf(m, <<t>>) = <<>> \/ MoreOf(m, <<t>>) = <<t>>
<1> DEFINE text == <<t>>
<1>1. text \in Seq(Nat) /\ Len(text) = 1 /\ text[1] = t
  OBVIOUS
<1>2. turn.raw[m] \in Seq(Nat) /\ turn.visible[m] \in Seq(Nat)
  BY StreamFacts
<1> HIDE DEF text
<1>3. ASSUME NEW q \in Seq(Nat), Begins(q, text) PROVE Drop(text, Len(q)) = <<>> \/ Drop(text, Len(q)) = text
  <2>1. Len(q) \in 0 .. Len(text)
    BY <1>1, <1>3, LenProperties DEF Begins
  <2>2. /\ Drop(text, Len(q)) \in Seq(Nat) /\ Len(Drop(text, Len(q))) = Len(text) - Len(q)
        /\ \A i \in 1 .. Len(text) - Len(q) : Drop(text, Len(q))[i] = text[Len(q) + i]
    BY <1>1, <2>1, DropIsRest, Zenon
  <2>3. CASE Len(q) = 0
    <3>1. Len(Drop(text, Len(q))) = Len(text)
      BY <1>1, <2>2, <2>3
    <3>2. \A i \in 1 .. Len(text) : Drop(text, Len(q))[i] = text[i]
      BY <1>1, <2>2, <2>3
    <3> QED
      BY <1>1, <2>2, <3>1, <3>2, SeqEqual
  <2>4. CASE Len(q) = 1
    BY <1>1, <2>2, <2>4, EmptySeq
  <2> QED
    BY <1>1, <2>1, <2>3, <2>4
<1>4. MoreOf(m, text) = <<>> \/ MoreOf(m, text) = text
  BY <1>1, <1>2, <1>3, MoreIsRest, Zenon
<1> QED
  BY <1>4 DEF text

\* Without a word of any message so far, nothing is shown of one.
LEMMA NoWordsYet ==
    ASSUME StreamInv, Handle, read <= 2
    PROVE  \A m \in MessageIds : turn.visible[m] = <<>> /\ turn.raw[m] = <<>>
<1>1. StreamShape /\ IsTurn(script) /\ TextsFit /\ read \in Nat /\ Len(script) \in Nat
  BY HandleFacts, Zenon DEF UnderWay
<1> SUFFICES ASSUME NEW m \in MessageIds PROVE turn.visible[m] = <<>> /\ turn.raw[m] = <<>>
  OBVIOUS
<1>2. turn.visible[m] \in Seq(Nat) /\ turn.raw[m] \in Seq(Nat)
  BY <1>1, StreamFacts
<1>3. \A t : ~ Spoken(script, t, m, read)
  <2> SUFFICES ASSUME NEW t, Spoken(script, t, m, read) PROVE FALSE
    OBVIOUS
  <2>1. PICK d \in 1 .. read : IsWord(script, d, m)
    BY DEF Spoken
  <2>2. d \in 1 .. Len(script) /\ script[d].type = "delta"
    BY <1>1, <2>1, TurnIsEvents DEF IsWord
  <2>3. d \in 3 .. Len(script) - 1
    BY <1>1, <2>2, WordsAreTokens
  <2> QED
    BY <1>1, <2>1, <2>3
<1>4. DOMAIN turn.visible[m] = {}
  BY <1>1, <1>3 DEF TextsFit
<1>5. Len(turn.visible[m]) = 0
  <2>1. DOMAIN turn.visible[m] = 1 .. Len(turn.visible[m]) /\ Len(turn.visible[m]) \in Nat
    BY <1>2, LenProperties
  <2>2. Len(turn.visible[m]) # 0 => 1 \in 1 .. Len(turn.visible[m])
    BY <2>1
  <2> QED
    BY <1>4, <2>1, <2>2
<1>6. Len(turn.raw[m]) = 0
  <2>1. Len(turn.raw[m]) <= Len(turn.visible[m]) /\ Len(turn.raw[m]) \in Nat
    BY <1>1, <1>2, LenProperties, Zenon DEF TextsFit, EndsIn
  <2> QED
    BY <1>5, <2>1
<1> QED
  BY <1>2, <1>5, <1>6, EmptySeq

LEMMA EmptyFits ==
    ASSUME NEW q \in Seq(Nat)
    PROVE  Ascends(<<>>) /\ EndsIn(<<>>, q) /\ DOMAIN <<>> = {}
<1>1. DOMAIN <<>> = {} /\ Len(<<>>) = 0 /\ Len(q) \in Nat
  BY LenProperties
<1> QED
  BY <1>1 DEF Ascends, EndsIn

\* What the user asked may be put out, and is no word of the answer.
LEMMA AskedStep ==
    ASSUME StreamInv, Handle, script[read + 1].type = "part", read + 1 < 3,
           turn' \in TurnLocals, turn'.asked = turn.asked, turn'.popped = turn.popped,
           turn'.parts = turn.parts \cup {<<script[read + 1].m, script[read + 1].p>>},
           \A m \in MessageIds : turn'.raw[m] = turn.raw[m] /\ turn'.visible[m] = turn.visible[m],
           out' = out \/ (~ turn.asked /\ out' = out \o <<Asked>>), how' = how
    PROVE  StreamShape' /\ UnderWay'
<1>1. /\ StreamShape /\ UnderWay /\ how = "under way" /\ IsTurn(script) /\ link.state # "none"
      /\ read' = read + 1 /\ script' = script /\ link' = link
  BY HandleFacts, Zenon
<1>2. read \in Nat /\ read + 1 \in 1 .. Len(script)
  BY HandleFacts, Zenon
<1>t. IsTurn(script)
  BY HandleFacts, Zenon
<1>n. read' = read + 1 /\ script' = script /\ link' = link
  BY HandleFacts, Zenon
<1>3. link.from \in Nat /\ link.from <= read /\ out \in Seq(Nat)
  BY <1>1, StreamFacts, Zenon
<1>4. read + 1 = 2 /\ script[read + 1].m = UserMessage
  BY <1>t, <1>2, EventsInPlace
<1>5. read = 1
  BY <1>2, <1>4
<1>6. \A m \in MessageIds : turn'.visible[m] = <<>> /\ turn'.raw[m] = <<>>
  BY <1>5, NoWordsYet
<1>7. Asked \in Nat
  BY StreamAssumption
<1>8. out' \in Seq(Nat) /\ Len(out) \in Nat /\ DOMAIN out = 1 .. Len(out)
  BY <1>3, <1>7, WordAppended, LenProperties, Zenon, SMTT(40)
<1>9. StreamShape'
  BY <1>1, <1>8, HandleShape, Zenon DEF StreamShape, TurnEnds
<1>10. \A m \in MessageIds : \A i \in DOMAIN out : out[i] \notin Words(script, m)
  <2> SUFFICES ASSUME NEW m \in MessageIds, NEW i \in DOMAIN out, out[i] \in Words(script, m) PROVE FALSE
    OBVIOUS
  <2>1. Spoken(script, out[i], m, read)
    BY <1>1, Zenon DEF UnderWay, OutFits
  <2>2. PICK d \in 1 .. read : IsWord(script, d, m)
    BY <2>1 DEF Spoken
  <2>3. d \in 1 .. Len(script) /\ script[d].type = "delta"
    BY <1>1, <2>2, TurnIsEvents, Zenon DEF IsWord
  <2>4. d \in 3 .. Len(script) - 1
    BY <1>1, <2>3, WordsAreTokens, Zenon
  <2> QED
    BY <1>5, <2>2, <2>4
<1>11. \A m \in MessageIds : \A i \in DOMAIN out' : out'[i] \notin Words(script, m)
  <2> SUFFICES ASSUME NEW m \in MessageIds, NEW i \in DOMAIN out' PROVE out'[i] \notin Words(script, m)
    OBVIOUS
  <2>1. CASE out' = out
    BY <1>10, <2>1
  <2>2. CASE out' = out \o <<Asked>>
    <3>1. /\ DOMAIN out' = 1 .. Len(out) + 1 /\ out'[Len(out) + 1] = Asked
          /\ \A j \in 1 .. Len(out) : out'[j] = out[j]
      BY <1>3, <1>7, <2>2, WordAppended
    <3>2. Asked \notin Words(script, m)
      BY <1>1, NeverAsked, Zenon
    <3>3. i = Len(out) + 1 \/ i \in 1 .. Len(out)
      BY <1>8, <3>1
    <3> QED
      BY <1>8, <1>10, <3>1, <3>2, <3>3
  <2> QED
    BY <2>1, <2>2
<1>12. TextsFit' /\ LastIsShown'
  <2>1. Ascends(<<>>) /\ DOMAIN <<>> = {} /\ EndsIn(<<>>, out') /\ EndsIn(<<>>, <<>>)
    <3>1. <<>> \in Seq(Nat)
      OBVIOUS
    <3> QED
      BY <1>8, <3>1, EmptyFits, Zenon
  <2>2. \A m \in MessageIds : /\ Ascends(turn'.visible[m]) /\ EndsIn(turn'.raw[m], turn'.visible[m])
                              /\ EndsIn(turn'.visible[m], out') /\ DOMAIN turn'.visible[m] = {}
    BY <1>6, <2>1
  <2> QED
    BY <2>2 DEF TextsFit, LastIsShown
<1>13. OutFits'
  BY <1>1, <1>11, Zenon DEF OutFits, InOrder
<1>14. PoppedIsOver'
  <2> SUFFICES ASSUME NEW m \in turn.popped PROVE FALSE
    BY DEF PoppedIsOver
  <2>1. PICK j \in 3 .. read : TRUE
    BY <1>1, Zenon DEF UnderWay, PoppedIsOver
  <2> QED
    BY <1>5, <2>1
<1>15. NothingYet'
  <2>1. \A j \in link.from + 1 .. read : script[j].type # "part"
    <3> SUFFICES ASSUME NEW j \in link.from + 1 .. read, script[j].type = "part" PROVE FALSE
      OBVIOUS
    <3>1. j = 1 /\ 1 \in 1 .. Len(script)
      BY <1>2, <1>3, <1>5
    <3>2. script[1].type = "user"
      BY <1>t, FirstEvent
    <3> QED
      BY <3>1, <3>2
  <2>2. \A q \in turn.parts : q[1] \notin MessageIds
    BY <1>1, <2>1, Zenon DEF UnderWay, NothingYet
  <2>3. UserMessage \notin MessageIds
    BY <1>1, StreamFacts, Zenon
  <2>4. \A q \in turn'.parts : q[1] \notin MessageIds
    BY <1>4, <2>2, <2>3
  <2> QED
    BY <1>1, <1>6, <1>11, <2>4, Zenon DEF NothingYet
<1>16. PartIsKnown'
  <2>1. read' = 2 /\ link'.from \in Nat
    BY <1>1, <1>3, <1>4, Zenon
  <2>2. \A a \in link'.from + 1 .. read' : ~ (3 <= a)
    BY <2>1
  <2> QED
    BY <2>2 DEF PartIsKnown, Underway
<1>17. KnownWhole' /\ (out' = out => OutIsWhole')
  <2>1. script[read + 1].type # "delta" /\ turn.popped \subseteq turn'.popped
        /\ \A m \in MessageIds \ turn'.popped : turn'.visible[m] = turn.visible[m]
    OBVIOUS
  <2>2. /\ out' = out => OutIsWhole'
        /\ link.from <= 2 => \A m \in MessageIds \ turn'.popped :
                                   turn'.visible[m] = SaidIn(script, {m}, read + 1)
    BY <2>1, SaidStays
  <2>3. ~ (read' >= 3)
    BY <1>n, <1>4
  <2> QED
    BY <1>1, <2>2, <2>3, Zenon DEF KnownWhole
<1>18. OutIsWhole'
  <2>1. CASE link.from = 0
    <3>1. read >= 1
      BY <1>5
    <3>2. turn.asked
      BY <1>1, <2>1, <3>1, Zenon DEF UnderWay, AskedIsKnown
    <3> QED
      BY <1>17, <3>2
  <2>2. CASE link.from # 0
    <3>1. link.from \notin {0, 2}
      BY <1>3, <1>5, <2>2
    <3> QED
      BY <1>1, <3>1, Zenon DEF OutIsWhole
  <2> QED
    BY <2>1, <2>2
<1>19. AskedIsKnown'
  <2>1. read >= 1
    BY <1>5
  <2> QED
    BY <1>1, <2>1, Zenon DEF UnderWay, AskedIsKnown
<1> QED
  BY <1>9, <1>12, <1>13, <1>14, <1>15, <1>16, <1>17, <1>18, <1>19 DEF UnderWay

\* A part that begins, or one that ends and was heard from its beginning, adds nothing.
LEMMA QuietPartStep ==
    ASSUME StreamInv, Handle, script[read + 1].type = "part", read + 1 >= 3,
           turn' \in TurnLocals, turn'.asked = turn.asked, turn'.popped = turn.popped,
           turn'.parts = turn.parts \cup {<<script[read + 1].m, script[read + 1].p>>},
           \A m \in MessageIds : /\ turn'.visible[m] = turn.visible[m]
                                 /\ turn'.raw[m] = turn.raw[m] \/ turn'.raw[m] = <<>>,
           script[read + 1].text = <<>> => turn'.raw[script[read + 1].m] = <<>>,
           out' = out, how' = how
    PROVE  StreamShape' /\ UnderWay'
<1> DEFINE e == script[read + 1]
<1>1. /\ StreamShape /\ UnderWay /\ how = "under way" /\ IsTurn(script) /\ link.state # "none"
      /\ read' = read + 1 /\ script' = script /\ link' = link
  BY HandleFacts, Zenon
<1>2. read \in Nat /\ read + 1 \in 1 .. Len(script)
  BY HandleFacts, Zenon
<1>t. IsTurn(script)
  BY HandleFacts, Zenon
<1>n. read' = read + 1 /\ script' = script /\ link' = link
  BY HandleFacts, Zenon
<1>3. link.from \in Nat /\ link.from <= read /\ out \in Seq(Nat)
  BY <1>1, StreamFacts, Zenon
<1>4. e.m \in MessageIds
  BY <1>1, <1>2, EventsInPlace, Zenon
<1>5. StreamShape'
  BY <1>1, <1>3, HandleShape, Zenon DEF StreamShape, TurnEnds
<1>6. TextsFit' /\ OutFits' /\ PoppedIsOver' /\ LastIsShown'
  BY ReadOn
<1>7. NothingYet'
  <2>1. UserMessage \notin MessageIds
    BY <1>1, StreamFacts, Zenon
  <2>2. read + 1 \in link.from + 1 .. read + 1
    BY <1>2, <1>3
  <2> QED
    BY <1>1, <1>4, <2>1, <2>2, Zenon DEF NothingYet
<1>8. PartIsKnown'
  <2> SUFFICES ASSUME NEW a \in link'.from + 1 .. read', Underway(script', a, read')
               PROVE  /\ <<script'[a].m, script'[a].p>> \in turn'.parts
                      /\ Len(turn'.raw[script'[a].m]) = read' - a
                      /\ \A i \in 1 .. read' - a : turn'.raw[script'[a].m][i] = Token(script', a + i)
    BY DEF PartIsKnown
  <2>0. a \in link.from + 1 .. read + 1 /\ Underway(script, a, read + 1)
    BY <1>n
  <2>1. a = read + 1
    <3>1. ~ (a \in link.from + 1 .. read)
      BY <2>0, PartStops
    <3> QED
      BY <1>2, <1>3, <2>0, <3>1
  <2>2. script[a].text = <<>> /\ turn'.raw[script[a].m] = <<>>
    BY <2>0, <2>1 DEF Underway
  <2>3. read' - a = 0
    BY <1>2, <1>n, <2>1
  <2> QED
    BY <1>n, <2>1, <2>2, <2>3
<1>9. KnownWhole' /\ OutIsWhole'
  <2>1. script[read + 1].type # "delta" /\ turn.popped \subseteq turn'.popped
        /\ \A m \in MessageIds \ turn'.popped : turn'.visible[m] = turn.visible[m]
    OBVIOUS
  <2>2. /\ OutIsWhole'
        /\ link.from <= 2 => \A m \in MessageIds \ turn'.popped :
                                   turn'.visible[m] = SaidIn(script, {m}, read + 1)
    BY <2>1, SaidStays
  <2> QED
    BY <1>1, <2>2, Zenon DEF KnownWhole
<1>10. AskedIsKnown'
  <2>1. link.from = 0 => read >= 1
    BY <1>2
  <2> QED
    BY <1>1, <2>1, Zenon DEF UnderWay, AskedIsKnown
<1> QED
  BY <1>5, <1>6, <1>7, <1>8, <1>9, <1>10 DEF UnderWay

\* A word follows a word of its part, or the part's beginning.
LEMMA PartBefore ==
    ASSUME NEW s, IsTurn(s), NEW n \in Nat, n + 1 \in 1 .. Len(s), s[n + 1].type = "delta"
    PROVE  /\ n >= 3 /\ s[n].type \in {"part", "delta"}
           /\ s[n].m = s[n + 1].m /\ s[n].p = s[n + 1].p
<1>1. n + 1 \in 3 .. Len(s) - 1 /\ s[n + 1].m \in MessageIds /\ GrowsPart(s, n + 1)
  BY EventsInPlace
<1>2. n + 1 - 1 = n
  OBVIOUS
<1>3. OfPart(s[n], s[n + 1].m, s[n + 1].p)
  BY <1>1, <1>2 DEF GrowsPart
<1>4. s[n].type \in {"part", "delta"} /\ s[n].m = s[n + 1].m /\ s[n].p = s[n + 1].p
  <2>1. CASE s[n] = Event("part", s[n + 1].m, s[n + 1].p, <<>>)
    BY <2>1 DEF Event
  <2>2. CASE s[n] = Event("delta", s[n + 1].m, s[n + 1].p, s[n].text)
    BY <2>2 DEF Event
  <2> QED
    BY <1>3, <2>1, <2>2 DEF OfPart
<1>5. n # 2
  <2> SUFFICES ASSUME n = 2 PROVE FALSE
    OBVIOUS
  <2>1. s[2].m = UserMessage
    BY DEF IsTurn, Event
  <2>2. UserMessage \notin MessageIds
    BY StreamAssumption DEF UserMessage, MessageIds
  <2> QED
    BY <1>1, <1>4, <2>1, <2>2
<1>6. n >= 2
  BY <1>1
<1> QED
  BY <1>4, <1>5, <1>6

\* A word of a part whose beginning was lost is passed over.
LEMMA LostWordStep ==
    ASSUME StreamInv, Handle, script[read + 1].type = "delta",
           <<script[read + 1].m, script[read + 1].p>> \notin turn.parts,
           turn' = turn, out' = out, how' = how
    PROVE  StreamShape' /\ UnderWay'
<1>1. /\ StreamShape /\ UnderWay /\ how = "under way" /\ IsTurn(script) /\ link.state # "none"
  BY HandleFacts, Zenon
<1>2. read \in Nat /\ read + 1 \in 1 .. Len(script)
  BY HandleFacts, Zenon
<1>n. read' = read + 1 /\ script' = script /\ link' = link
  BY HandleFacts, Zenon
<1>3. link.from \in Nat /\ link.from <= read /\ out \in Seq(Nat)
  BY <1>1, StreamFacts, Zenon
<1>4. /\ read >= 3 /\ script[read].type \in {"part", "delta"}
      /\ script[read].m = script[read + 1].m /\ script[read].p = script[read + 1].p
  BY <1>1, <1>2, PartBefore, Zenon
<1>5. ~ (link.from <= 2)
  BY <1>1, <1>4, Zenon DEF UnderWay, KnownWhole
<1>6. StreamShape'
  BY <1>1, <1>3, HandleShape, Zenon DEF StreamShape, TurnEnds
<1>7. TextsFit' /\ OutFits' /\ PoppedIsOver' /\ LastIsShown'
  BY ReadOn
<1>8. NothingYet'
  BY StillNothing
<1>9. PartIsKnown'
  <2> SUFFICES ASSUME NEW a \in link'.from + 1 .. read', Underway(script', a, read') PROVE FALSE
    BY DEF PartIsKnown
  <2>0. a \in link.from + 1 .. read + 1 /\ Underway(script, a, read + 1)
    BY <1>n
  <2>1. a # read + 1
    BY <2>0 DEF Underway
  <2>2. a \in link.from + 1 .. read /\ read + 1 \in a + 1 .. read + 1
        /\ \A d \in a + 1 .. read : d \in a + 1 .. read + 1
    BY <1>2, <1>3, <2>0, <2>1
  <2>3. Underway(script, a, read)
    BY <2>0, <2>2 DEF Underway
  <2>4. <<script[a].m, script[a].p>> \in turn.parts
    BY <1>1, <2>2, <2>3, Zenon DEF UnderWay, PartIsKnown
  <2>5. script[read + 1].m = script[a].m /\ script[read + 1].p = script[a].p
    BY <2>0, <2>2 DEF Underway, IsWord
  <2> QED
    BY <2>4, <2>5
<1>10. KnownWhole' /\ OutIsWhole'
  <2>1. link.from \notin {0, 2}
    BY <1>3, <1>5
  <2> QED
    BY <1>n, <1>5, <2>1 DEF KnownWhole, OutIsWhole
<1>11. AskedIsKnown'
  <2>1. link.from = 0 => read >= 1
    BY <1>2, <1>4
  <2> QED
    BY <1>1, <1>n, <2>1, Zenon DEF UnderWay, AskedIsKnown
<1> QED
  BY <1>6, <1>7, <1>8, <1>9, <1>10, <1>11 DEF UnderWay

\* A message that is through is forgotten.
LEMMA OverStep ==
    ASSUME StreamInv, Handle, script[read + 1].type \in {"toolcalls", "finish"},
           turn' \in TurnLocals, turn'.asked = turn.asked, turn'.parts = turn.parts,
           turn'.popped = turn.popped \cup {script[read + 1].m},
           turn'.raw[script[read + 1].m] = <<>>, turn'.visible[script[read + 1].m] = <<>>,
           \A k \in MessageIds : k # script[read + 1].m =>
               turn'.raw[k] = turn.raw[k] /\ turn'.visible[k] = turn.visible[k],
           out' = out, how' \in TurnEnds
    PROVE  StreamShape' /\ UnderWay'
<1> DEFINE m == script[read + 1].m
<1>1. /\ StreamShape /\ UnderWay /\ how = "under way" /\ IsTurn(script) /\ link.state # "none"
  BY HandleFacts, Zenon
<1>2. read \in Nat /\ read + 1 \in 1 .. Len(script)
  BY HandleFacts, Zenon
<1>n. read' = read + 1 /\ script' = script /\ link' = link
  BY HandleFacts, Zenon
<1>3. link.from \in Nat /\ link.from <= read /\ out \in Seq(Nat)
  BY <1>1, StreamFacts, Zenon
<1>4. m \in MessageIds /\ read + 1 \in 3 .. read + 1
  <2>0. IsTurn(script) /\ Len(script) \in Nat
    BY HandleFacts, Zenon
  <2>1. read + 1 \in 3 .. Len(script) /\ m \in MessageIds
    <3>1. CASE script[read + 1].type = "toolcalls"
      <4>1. read + 1 \in 3 .. Len(script) - 1 /\ m \in MessageIds
        BY <1>2, <2>0, <3>1, EventsInPlace
      <4> QED
        BY <2>0, <4>1
    <3>2. CASE script[read + 1].type = "finish"
      BY <1>2, <2>0, <3>2, EventsInPlace
    <3> QED
      BY <3>1, <3>2
  <2> QED
    BY <1>2, <2>1
<1>5. StreamShape'
  BY <1>1, <1>3, HandleShape, Zenon DEF StreamShape, TurnEnds
<1>6. \A t, k : Spoken(script, t, k, read) => Spoken(script, t, k, read + 1)
  BY <1>2, SpokenStays
<1>e. Ascends(<<>>) /\ DOMAIN <<>> = {} /\ EndsIn(<<>>, out) /\ EndsIn(<<>>, <<>>)
  <2>1. <<>> \in Seq(Nat)
    OBVIOUS
  <2> QED
    BY <1>3, <2>1, EmptyFits, Zenon
<1>7. TextsFit'
  <2> SUFFICES ASSUME NEW k \in MessageIds
               PROVE  /\ Ascends(turn'.visible[k]) /\ EndsIn(turn'.raw[k], turn'.visible[k])
                      /\ \A i \in DOMAIN turn'.visible[k] : Spoken(script, turn'.visible[k][i], k, read + 1)
    BY <1>n DEF TextsFit
  <2>1. CASE k = m
    BY <1>e, <2>1
  <2>2. CASE k # m
    BY <1>1, <1>6, <2>2, Zenon DEF UnderWay, TextsFit
  <2> QED
    BY <2>1, <2>2
<1>8. OutFits'
  <2> SUFFICES ASSUME NEW k \in MessageIds
               PROVE  /\ InOrder(script, out, k)
                      /\ \A i \in DOMAIN out : out[i] \in Words(script, k) =>
                            /\ Spoken(script, out[i], k, read + 1)
                            /\ k \notin turn'.popped =>
                                 \E j \in DOMAIN turn'.visible[k] : turn'.visible[k][j] = out[i]
    BY <1>n DEF OutFits
  <2>1. k \notin turn'.popped => k # m /\ k \notin turn.popped
    OBVIOUS
  <2>2. /\ InOrder(script, out, k)
        /\ \A i \in DOMAIN out : out[i] \in Words(script, k) =>
              /\ Spoken(script, out[i], k, read)
              /\ k \notin turn.popped =>
                   \E j \in DOMAIN turn.visible[k] : turn.visible[k][j] = out[i]
    BY <1>1, Zenon DEF UnderWay, OutFits
  <2>3. k \notin turn'.popped => turn'.visible[k] = turn.visible[k]
    BY <2>1
  <2> QED
    BY <1>6, <2>1, <2>2, <2>3
<1>9. PoppedIsOver'
  <2> SUFFICES ASSUME NEW k \in turn'.popped
               PROVE  /\ turn'.raw[k] = <<>> /\ turn'.visible[k] = <<>>
                      /\ \E j \in 3 .. read + 1 : script[j].type \in {"toolcalls", "finish"} /\ script[j].m = k
    BY <1>n DEF PoppedIsOver
  <2>1. CASE k = m
    BY <1>4, <2>1
  <2>2. CASE k # m
    <3>1. k \in turn.popped /\ k \in MessageIds
      BY <1>1, <2>2, StreamFacts, Zenon
    <3>2. turn.raw[k] = <<>> /\ turn.visible[k] = <<>>
      BY <1>1, <3>1, Zenon DEF UnderWay, PoppedIsOver
    <3>3. PICK j \in 3 .. read : script[j].type \in {"toolcalls", "finish"} /\ script[j].m = k
      BY <1>1, <3>1, Zenon DEF UnderWay, PoppedIsOver
    <3>4. j \in 3 .. read + 1
      BY <1>2
    <3> QED
      BY <2>2, <3>1, <3>2, <3>3, <3>4
  <2> QED
    BY <2>1, <2>2
<1>10. NothingYet'
  <2>1. \A k \in MessageIds : /\ turn'.visible[k] = turn.visible[k] \/ turn'.visible[k] = <<>>
                              /\ turn'.raw[k] = turn.raw[k] \/ turn'.raw[k] = <<>>
    OBVIOUS
  <2> QED
    BY <2>1, StillNothing
<1>11. PartIsKnown'
  <2> SUFFICES ASSUME NEW a \in link'.from + 1 .. read', Underway(script', a, read') PROVE FALSE
    BY DEF PartIsKnown
  <2>0. a \in link.from + 1 .. read + 1 /\ Underway(script, a, read + 1)
    BY <1>n
  <2>1. a # read + 1
    BY <2>0 DEF Underway
  <2>2. ~ (a \in link.from + 1 .. read)
    BY <2>0, PartStops
  <2> QED
    BY <1>2, <1>3, <2>0, <2>1, <2>2
<1>12. KnownWhole' /\ OutIsWhole'
  <2>1. script[read + 1].type # "delta" /\ turn.popped \subseteq turn'.popped
        /\ \A k \in MessageIds \ turn'.popped : turn'.visible[k] = turn.visible[k]
    OBVIOUS
  <2>2. /\ OutIsWhole'
        /\ link.from <= 2 => \A k \in MessageIds \ turn'.popped :
                                   turn'.visible[k] = SaidIn(script, {k}, read + 1)
    BY <2>1, SaidStays
  <2> QED
    BY <1>n, <2>2 DEF KnownWhole
<1>13. LastIsShown'
  <2> SUFFICES ASSUME NEW k \in MessageIds,
                      \A d \in 1 .. read + 1 : script[d].type = "delta" => script[d].m <= k
               PROVE  EndsIn(turn'.visible[k], out)
    BY <1>n DEF LastIsShown
  <2>1. CASE k = m
    BY <1>e, <2>1
  <2>2. CASE k # m
    <3>1. \A d \in 1 .. read : script[d].type = "delta" => script[d].m <= k
      BY <1>2
    <3> QED
      BY <1>1, <2>2, <3>1, Zenon DEF UnderWay, LastIsShown
  <2> QED
    BY <2>1, <2>2
<1>14. AskedIsKnown'
  <2>1. read >= 1
    BY <1>2, <1>4
  <2> QED
    BY <1>1, <1>n, <2>1, Zenon DEF UnderWay, AskedIsKnown
<1> QED
  BY <1>5, <1>7, <1>8, <1>9, <1>10, <1>11, <1>12, <1>13, <1>14 DEF UnderWay

LEMMA EndsOn ==
    ASSUME NEW q \in Seq(Nat), NEW v \in Seq(Nat), NEW t \in Nat, EndsIn(q, v)
    PROVE  EndsIn(q \o <<t>>, v \o <<t>>)
<1> DEFINE q1 == q \o <<t>>
           v1 == v \o <<t>>
<1>1. /\ Len(q1) = Len(q) + 1 /\ Len(q) \in Nat /\ q1[Len(q) + 1] = t
      /\ \A i \in 1 .. Len(q) : q1[i] = q[i]
  BY WordAppended
<1>2. /\ Len(v1) = Len(v) + 1 /\ Len(v) \in Nat /\ v1[Len(v) + 1] = t
      /\ \A i \in 1 .. Len(v) : v1[i] = v[i]
  BY WordAppended
<1> HIDE DEF q1, v1
<1>3. Len(q) <= Len(v) /\ \A i \in 1 .. Len(q) : q[i] = v[Len(v) - Len(q) + i]
  BY DEF EndsIn
<1>4. ASSUME NEW i \in 1 .. Len(q1) PROVE q1[i] = v1[Len(v1) - Len(q1) + i]
  <2>1. CASE i = Len(q) + 1
    <3>1. Len(v1) - Len(q1) + i = Len(v) + 1
      BY <1>1, <1>2, <2>1
    <3> QED
      BY <1>1, <1>2, <2>1, <3>1
  <2>2. CASE i # Len(q) + 1
    <3>1. i \in 1 .. Len(q) /\ Len(v1) - Len(q1) + i = Len(v) - Len(q) + i
          /\ Len(v) - Len(q) + i \in 1 .. Len(v)
      BY <1>1, <1>2, <1>3, <2>2
    <3> QED
      BY <1>1, <1>2, <1>3, <3>1, Zenon
  <2> QED
    BY <2>1, <2>2
<1> QED
  BY <1>1, <1>2, <1>3, <1>4 DEF EndsIn, q1, v1

Longer(w, q, t) == w = q \o <<t>>

LEMMA LongerBy ==
    ASSUME NEW q \in Seq(Nat), NEW t \in Nat, NEW w, Longer(w, q, t)
    PROVE  /\ w \in Seq(Nat) /\ Len(w) = Len(q) + 1 /\ DOMAIN w = 1 .. Len(q) + 1
           /\ DOMAIN q = 1 .. Len(q) /\ Len(q) \in Nat
           /\ \A i \in 1 .. Len(q) : w[i] = q[i]
           /\ w[Len(q) + 1] = t
BY WordAppended DEF Longer

\* A word of a part that was heard from its beginning, or announced, is put out at once.
LEMMA WordStep ==
    ASSUME StreamInv, Handle, script[read + 1].type = "delta", NEW m, m = script[read + 1].m,
           NEW t, t = Token(script, read + 1),
           <<m, script[read + 1].p>> \in turn.parts,
           turn' \in TurnLocals, turn'.asked = turn.asked, turn'.parts = turn.parts,
           turn'.popped = turn.popped,
           Longer(turn'.raw[m], turn.raw[m], t), Longer(turn'.visible[m], turn.visible[m], t),
           \A k \in MessageIds : k # m =>
               turn'.raw[k] = turn.raw[k] /\ turn'.visible[k] = turn.visible[k],
           Longer(out', out, t), how' = how
    PROVE  StreamShape' /\ UnderWay'
<1>1. /\ StreamShape /\ UnderWay /\ how = "under way" /\ link.state # "none"
  BY HandleFacts, Zenon
<1>2. read \in Nat /\ read + 1 \in 1 .. Len(script) /\ read \in 0 .. Len(script) - 1
  BY HandleFacts, Zenon
<1>t. IsTurn(script) /\ Len(script) \in Nat
  BY HandleFacts, Zenon
<1>n. read' = read + 1 /\ script' = script /\ link' = link
  BY HandleFacts, Zenon
<1>3. link.from \in Nat /\ link.from <= read /\ out \in Seq(Nat)
  BY <1>1, StreamFacts, Zenon
<1>4. m \in MessageIds /\ t \in Nat /\ read + 1 \in 3 .. Len(script) - 1
  BY <1>2, <1>t, WordsAreTokens
<1>5. turn.raw[m] \in Seq(Nat) /\ turn.visible[m] \in Seq(Nat) /\ m \notin turn.popped
  BY <1>1, <1>4, StreamFacts, NotPopped, Zenon
<1>6. /\ DOMAIN out' = 1 .. Len(out) + 1 /\ Len(out) \in Nat /\ out'[Len(out) + 1] = t
      /\ DOMAIN out = 1 .. Len(out) /\ \A i \in 1 .. Len(out) : out'[i] = out[i]
      /\ out' \in Seq(Nat)
  BY <1>3, <1>4, LongerBy
<1> DEFINE v == turn.visible[m]
           v1 == turn'.visible[m]
<1>7. /\ DOMAIN v1 = 1 .. Len(v) + 1 /\ Len(v) \in Nat /\ v1[Len(v) + 1] = t
      /\ DOMAIN v = 1 .. Len(v) /\ \A i \in 1 .. Len(v) : v1[i] = v[i]
  <2>1. v \in Seq(Nat) /\ Longer(v1, v, t)
    BY <1>5
  <2> HIDE DEF v, v1
  <2> QED
    BY <1>4, <2>1, LongerBy
<1>8. \A u, k : Spoken(script, u, k, read) => u < t
  BY <1>2, <1>t, SpokenBefore
<1>9. \A u, k : Spoken(script, u, k, read) => Spoken(script, u, k, read + 1)
  BY <1>2, SpokenStays
<1>10. IsWord(script, read + 1, m) /\ Spoken(script, t, m, read + 1)
  <2>1. IsWord(script, read + 1, m)
    BY <1>2, <1>t, TurnIsEvents DEF IsWord
  <2>2. read + 1 \in 1 .. read + 1
    BY <1>2
  <2> QED
    BY <2>1, <2>2 DEF Spoken
<1>11. \A k : t \in Words(script, k) => k = m
  BY <1>t, <1>10, SpokenIsWord, WordsOfOne
<1>12. StreamShape'
  BY <1>1, <1>6, HandleShape, Zenon DEF StreamShape, TurnEnds
<1>13. TextsFit'
  <2> SUFFICES ASSUME NEW k \in MessageIds
               PROVE  /\ Ascends(turn'.visible[k]) /\ EndsIn(turn'.raw[k], turn'.visible[k])
                      /\ \A i \in DOMAIN turn'.visible[k] : Spoken(script, turn'.visible[k][i], k, read + 1)
    BY <1>n DEF TextsFit
  <2>0. /\ Ascends(turn.visible[k]) /\ EndsIn(turn.raw[k], turn.visible[k])
        /\ \A i \in DOMAIN turn.visible[k] : Spoken(script, turn.visible[k][i], k, read)
    BY <1>1, Zenon DEF UnderWay, TextsFit
  <2>1. CASE k = m
    <3>1. Ascends(v1)
      BY <1>4, <1>5, <1>8, <2>0, <2>1, AscendsOn, Zenon DEF Longer
    <3>2. EndsIn(turn'.raw[m], v1)
      BY <1>4, <1>5, <2>0, <2>1, EndsOn, Zenon DEF Longer
    <3>3. ASSUME NEW i \in DOMAIN v1 PROVE Spoken(script, v1[i], m, read + 1)
      <4>1. CASE i = Len(v) + 1
        BY <1>7, <1>10, <4>1, Zenon
      <4>2. CASE i # Len(v) + 1
        <5>1. i \in 1 .. Len(v)
          BY <1>7, <3>3, <4>2, SMTT(40)
        <5>2. i \in DOMAIN v /\ v1[i] = v[i]
          BY <1>7, <5>1
        <5>3. Spoken(script, v[i], m, read)
          BY <2>0, <2>1, <5>2
        <5> QED
          BY <1>9, <5>2, <5>3
      <4> QED
        BY <4>1, <4>2
    <3> QED
      BY <2>1, <3>1, <3>2, <3>3
  <2>2. CASE k # m
    BY <1>9, <2>0, <2>2
  <2> QED
    BY <2>1, <2>2
<1>14. OutFits'
  <2> SUFFICES ASSUME NEW k \in MessageIds
               PROVE  /\ InOrder(script, out', k)
                      /\ \A i \in DOMAIN out' : out'[i] \in Words(script, k) =>
                            /\ Spoken(script, out'[i], k, read + 1)
                            /\ k \notin turn.popped =>
                                 \E j \in DOMAIN turn'.visible[k] : turn'.visible[k][j] = out'[i]
    BY <1>n DEF OutFits
  <2>0. /\ InOrder(script, out, k)
        /\ \A i \in DOMAIN out : out[i] \in Words(script, k) =>
              /\ Spoken(script, out[i], k, read)
              /\ k \notin turn.popped =>
                   \E j \in DOMAIN turn.visible[k] : turn.visible[k][j] = out[i]
    BY <1>1, Zenon DEF UnderWay, OutFits
  <2>1. InOrder(script, out', k)
    <3> SUFFICES ASSUME NEW i \in DOMAIN out', NEW j \in DOMAIN out', i < j,
                        out'[i] \in Words(script, k), out'[j] \in Words(script, k)
                 PROVE  out'[i] < out'[j]
      BY DEF InOrder
    <3>1. i \in DOMAIN out /\ out'[i] = out[i]
      BY <1>6
    <3>2. CASE j = Len(out) + 1
      BY <1>6, <1>8, <2>0, <3>1, <3>2
    <3>3. CASE j # Len(out) + 1
      <4>1. j \in DOMAIN out /\ out'[j] = out[j]
        BY <1>6, <3>3
      <4> QED
        BY <2>0, <3>1, <4>1 DEF InOrder
    <3> QED
      BY <3>2, <3>3
  <2>2. ASSUME NEW i \in DOMAIN out', out'[i] \in Words(script, k)
        PROVE  /\ Spoken(script, out'[i], k, read + 1)
               /\ k \notin turn.popped =>
                    \E j \in DOMAIN turn'.visible[k] : turn'.visible[k][j] = out'[i]
    <3>1. CASE i = Len(out) + 1
      <4>1. out'[i] = t /\ k = m
        BY <1>6, <1>11, <2>2, <3>1
      <4>2. Len(v) + 1 \in DOMAIN v1 /\ v1[Len(v) + 1] = t
        <5> HIDE DEF v, v1
        <5> QED
          BY <1>7
      <4> QED
        BY <1>10, <4>1, <4>2, Zenon
    <3>2. CASE i # Len(out) + 1
      <4>1. i \in DOMAIN out /\ out'[i] = out[i]
        BY <1>6, <2>2, <3>2
      <4>2. Spoken(script, out[i], k, read + 1)
        BY <1>9, <2>0, <2>2, <4>1
      <4>3. ASSUME k \notin turn.popped
            PROVE  \E j \in DOMAIN turn'.visible[k] : turn'.visible[k][j] = out[i]
        <5>1. PICK j \in DOMAIN turn.visible[k] : turn.visible[k][j] = out[i]
          BY <2>0, <2>2, <4>1, <4>3
        <5>2. CASE k = m
          <6>1. j \in DOMAIN v /\ v[j] = out[i]
            BY <5>1, <5>2
          <6> HIDE DEF v, v1
          <6>2. j \in DOMAIN v1 /\ v1[j] = out[i]
            BY <1>7, <6>1
          <6> USE DEF v, v1
          <6> QED
            BY <5>2, <6>2
        <5>3. CASE k # m
          BY <5>1, <5>3
        <5> QED
          BY <5>2, <5>3
      <4> QED
        BY <4>1, <4>2, <4>3
    <3> QED
      BY <3>1, <3>2
  <2> QED
    BY <2>1, <2>2
<1>15. PoppedIsOver'
  <2> SUFFICES ASSUME NEW k \in turn.popped
               PROVE  /\ turn'.raw[k] = <<>> /\ turn'.visible[k] = <<>>
                      /\ \E j \in 3 .. read + 1 : script[j].type \in {"toolcalls", "finish"} /\ script[j].m = k
    BY <1>n DEF PoppedIsOver
  <2>1. k \in MessageIds /\ k # m
    BY <1>1, <1>5, StreamFacts, Zenon
  <2>2. turn.raw[k] = <<>> /\ turn.visible[k] = <<>>
    BY <1>1, Zenon DEF UnderWay, PoppedIsOver
  <2>3. PICK j \in 3 .. read : script[j].type \in {"toolcalls", "finish"} /\ script[j].m = k
    BY <1>1, Zenon DEF UnderWay, PoppedIsOver
  <2>4. j \in 3 .. read + 1
    BY <1>2
  <2> QED
    BY <2>1, <2>2, <2>3, <2>4
<1>16. NothingYet'
  <2> SUFFICES ASSUME \A j \in link.from + 1 .. read + 1 :
                         script[j].type = "part" => script[j].m = UserMessage
               PROVE  FALSE
    BY <1>n DEF NothingYet
  <2>1. \A j \in link.from + 1 .. read : script[j].type = "part" => script[j].m = UserMessage
    BY <1>2, <1>3
  <2>2. \A q \in turn.parts : q[1] \notin MessageIds
    BY <1>1, <2>1, Zenon DEF UnderWay, NothingYet
  <2> QED
    BY <1>4, <2>2
<1>17. PartIsKnown'
  <2> SUFFICES ASSUME NEW a \in link'.from + 1 .. read', Underway(script', a, read')
               PROVE  /\ <<script'[a].m, script'[a].p>> \in turn'.parts
                      /\ Len(turn'.raw[script'[a].m]) = read' - a
                      /\ \A i \in 1 .. read' - a : turn'.raw[script'[a].m][i] = Token(script', a + i)
    BY DEF PartIsKnown
  <2>0. a \in link.from + 1 .. read + 1 /\ Underway(script, a, read + 1)
    BY <1>n
  <2>1. a # read + 1
    BY <2>0 DEF Underway
  <2>2. a \in link.from + 1 .. read /\ read + 1 \in a + 1 .. read + 1 /\ a \in Nat
        /\ \A d \in a + 1 .. read : d \in a + 1 .. read + 1
    BY <1>2, <1>3, <2>0, <2>1
  <2>3. Underway(script, a, read)
    BY <2>0, <2>2 DEF Underway
  <2>4. script[a].m = m /\ script[a].p = script[read + 1].p
    BY <2>0, <2>2 DEF Underway, IsWord
  <2>5. /\ <<m, script[a].p>> \in turn.parts /\ Len(turn.raw[m]) = read - a
        /\ \A i \in 1 .. read - a : turn.raw[m][i] = Token(script, a + i)
    BY <1>1, <2>2, <2>3, <2>4, Zenon DEF UnderWay, PartIsKnown
  <2> DEFINE w == turn.raw[m]
             w1 == turn'.raw[m]
  <2>6. /\ Len(w1) = Len(w) + 1 /\ w1[Len(w) + 1] = t /\ \A i \in 1 .. Len(w) : w1[i] = w[i]
    <3>1. w \in Seq(Nat) /\ Longer(w1, w, t)
      BY <1>5
    <3> HIDE DEF w, w1
    <3> QED
      BY <1>4, <3>1, LongerBy
  <2>7. Len(w1) = read + 1 - a
    BY <1>2, <2>2, <2>5, <2>6, SMTT(40)
  <2>8. ASSUME NEW i \in 1 .. read + 1 - a PROVE w1[i] = Token(script, a + i)
    <3>1. CASE i = read + 1 - a
      <4>1. i = Len(w) + 1 /\ a + i = read + 1
        BY <1>2, <2>2, <2>5, <3>1
      <4> QED
        BY <2>6, <4>1, Zenon
    <3>2. CASE i # read + 1 - a
      <4>1. i \in 1 .. read - a
        BY <1>2, <2>2, <2>8, <3>2
      <4> QED
        BY <2>5, <2>6, <4>1
    <3> QED
      BY <3>1, <3>2
  <2>9. <<script[a].m, script[a].p>> \in turn'.parts
    BY <2>4, <2>5
  <2> HIDE DEF w1
  <2>10. script'[a].m = m /\ read' - a = read + 1 - a
    <3>1. script' = script
      BY <1>n
    <3>2. script'[a].m = m
      BY <2>4, <3>1
    <3>3. read' - a = read + 1 - a
      <4>1. read' = read + 1
        BY <1>n
      <4> QED
        BY <1>2, <2>2, <4>1
    <3> QED
      BY <3>2, <3>3
  <2>11. turn'.raw[script'[a].m] = w1
    BY <2>10 DEF w1
  <2> QED
    BY <1>n, <2>7, <2>8, <2>9, <2>10, <2>11
<1>18. KnownWhole'
  <2>1. link.from <= 2 => \A k \in MessageIds \ turn.popped : turn.visible[k] = SaidIn(script, {k}, read)
    BY <1>1, Zenon DEF UnderWay, KnownWhole
  <2>2. SaidIn(script, {m}, read + 1) = SaidIn(script, {m}, read) \o <<t>>
    BY <1>2, <1>t, SaidGrows, Zenon
  <2>3. \A k : k # m => SaidIn(script, {k}, read + 1) = SaidIn(script, {k}, read)
    BY <1>2, <1>t, SaidGrows, Zenon
  <2>4. link.from <= 2 => \A k \in MessageIds \ turn'.popped : turn'.visible[k] = SaidIn(script, {k}, read + 1)
    BY <2>1, <2>2, <2>3, Zenon, SMTT(40) DEF Longer
  <2> QED
    BY <1>n, <2>4 DEF KnownWhole
<1>19. OutIsWhole'
  <2>1. SaidIn(script, MessageIds, read + 1) = SaidIn(script, MessageIds, read) \o <<t>>
    BY <1>2, <1>4, <1>t, SaidGrows
  <2> QED
    BY <1>1, <1>n, <2>1, Zenon DEF UnderWay, OutIsWhole, Longer
<1>20. LastIsShown'
  <2> SUFFICES ASSUME NEW k \in MessageIds,
                      \A d \in 1 .. read + 1 : script[d].type = "delta" => script[d].m <= k
               PROVE  EndsIn(turn'.visible[k], out')
    BY <1>n DEF LastIsShown
  <2>1. \A d \in 1 .. read : script[d].type = "delta" => script[d].m <= k
    BY <1>2
  <2>2. EndsIn(turn.visible[k], out)
    BY <1>1, <2>1, Zenon DEF UnderWay, LastIsShown
  <2>3. CASE k = m
    BY <1>3, <1>4, <1>5, <2>2, <2>3, EndsOn, Zenon DEF Longer
  <2>4. CASE k # m
    <3>1. read + 1 \in 1 .. read + 1
      BY <1>2
    <3>2. m <= k /\ m \in Nat /\ k \in Nat
      BY <1>4, <3>1, StreamAssumption DEF MessageIds
    <3>3. ~ \E i \in DOMAIN turn.visible[k] : TRUE
      <4> SUFFICES ASSUME NEW i \in DOMAIN turn.visible[k] PROVE FALSE
        OBVIOUS
      <4>1. PICK d \in 1 .. read : IsWord(script, d, k)
        BY <1>1, Zenon DEF UnderWay, TextsFit, Spoken
      <4>2. d \in 1 .. Len(script) /\ d < read + 1 /\ script[d].type = "delta" /\ script[d].m = k
        BY <1>2, <1>t, <4>1 DEF IsWord
      <4>3. k <= m
        BY <1>2, <1>t, <4>2, WordsAscend
      <4> QED
        BY <2>4, <3>2, <4>3
    <3>4. turn.visible[k] = <<>>
      <4>1. turn.visible[k] \in Seq(Nat)
        BY <1>1, StreamFacts, Zenon
      <4>2. DOMAIN turn.visible[k] = 1 .. Len(turn.visible[k]) /\ Len(turn.visible[k]) \in Nat
        BY <4>1, LenProperties
      <4>3. Len(turn.visible[k]) # 0 => 1 \in 1 .. Len(turn.visible[k])
        BY <4>2
      <4>4. Len(turn.visible[k]) = 0
        BY <3>3, <4>2, <4>3
      <4> QED
        BY <4>1, <4>4, EmptySeq
    <3> QED
      BY <1>6, <2>4, <3>4, EmptyFits
  <2> QED
    BY <2>3, <2>4
<1>21. AskedIsKnown'
  <2>1. read >= 1
    BY <1>2, <1>4
  <2> QED
    BY <1>1, <1>n, <2>1, Zenon DEF UnderWay, AskedIsKnown
<1> QED
  BY <1>12, <1>13, <1>14, <1>15, <1>16, <1>17, <1>18, <1>19, <1>20, <1>21 DEF UnderWay

\* The part that ends with event j began with event start, and these are its words.
IsClosed(s, j, start) ==
    /\ s[j].text \in Seq(Nat) /\ Len(s[j].text) \in Nat \ {0} /\ start \in 3 .. j - 2
    /\ DOMAIN s[j].text = 1 .. Len(s[j].text)
    /\ s[start].type = "part" /\ s[start].text = <<>>
    /\ s[start].m = s[j].m /\ s[start].p = s[j].p
    /\ \A i \in 1 .. Len(s[j].text) :
          /\ start + i \in 1 .. j - 1 /\ IsWord(s, start + i, s[j].m)
          /\ s[start + i].p = s[j].p /\ Token(s, start + i) = s[j].text[i]

LEMMA StillWithin ==
    ASSUME NEW j \in Nat, NEW n \in Nat, j <= n, NEW i \in 1 .. j - 1
    PROVE  i \in 1 .. n
OBVIOUS

\* The end of a part carries the words that came since its beginning.
LEMMA ClosedPart ==
    ASSUME NEW s, IsTurn(s), NEW j \in 1 .. Len(s), s[j].type = "part", j >= 3, s[j].text # <<>>,
           NEW start, start = j - Len(s[j].text) - 1
    PROVE  IsClosed(s, j, start)
<1>1. ClosesPart(s, j) /\ s[j].text \in Seq(Nat) /\ Len(s) \in Nat /\ DOMAIN s = 1 .. Len(s)
  BY EventsInPlace, TurnIsEvents DEF Events
<1>2. Len(s[j].text) \in Nat /\ Len(s[j].text) # 0 /\ DOMAIN s[j].text = 1 .. Len(s[j].text)
  BY <1>1, LenProperties, EmptySeq
<1>3. /\ start > 2 /\ s[start] = Event("part", s[j].m, s[j].p, <<>>)
      /\ \A i \in DOMAIN s[j].text :
            s[start + i] = Event("delta", s[j].m, s[j].p, <<s[j].text[i]>>)
  BY <1>1, Zenon DEF ClosesPart
<1>4. j \in Nat /\ start \in Int
  BY <1>1, <1>2
<1>5. start \in 3 .. j - 2
  BY <1>2, <1>3, <1>4
<1>6. /\ s[start].type = "part" /\ s[start].text = <<>>
      /\ s[start].m = s[j].m /\ s[start].p = s[j].p
  BY <1>3 DEF Event
<1>7. ASSUME NEW i \in 1 .. Len(s[j].text)
      PROVE  /\ start + i \in 1 .. j - 1 /\ IsWord(s, start + i, s[j].m)
             /\ s[start + i].p = s[j].p /\ Token(s, start + i) = s[j].text[i]
  <2>0. start + Len(s[j].text) = j - 1
    BY <1>2, <1>4
  <2>1. start + i \in 1 .. j - 1 /\ start + i \in 1 .. Len(s)
    <3> DEFINE n == Len(s[j].text)
    <3>1. n \in Nat /\ start + n = j - 1 /\ i \in 1 .. n
      BY <1>2, <2>0
    <3>2. Len(s) \in Nat /\ j <= Len(s)
      BY <1>1
    <3> HIDE DEF n
    <3>3. start + i \in 1 .. j - 1
      BY <1>4, <1>5, <3>1, SMTT(40)
    <3> QED
      BY <1>4, <3>2, <3>3, StillWithin
  <2>2. s[start + i] = Event("delta", s[j].m, s[j].p, <<s[j].text[i]>>)
    BY <1>2, <1>3, Zenon
  <2>3. s[start + i].type = "delta" /\ s[start + i].m = s[j].m /\ s[start + i].p = s[j].p
        /\ s[start + i].text = <<s[j].text[i]>>
    BY <2>2 DEF Event
  <2>4. IsWord(s, start + i, s[j].m)
    BY <1>1, <2>1, <2>3 DEF IsWord
  <2>5. Token(s, start + i) = s[j].text[i]
    BY <2>3 DEF Token
  <2> QED
    BY <2>1, <2>3, <2>4, <2>5
<1> QED
  BY <1>1, <1>2, <1>5, <1>6, <1>7, Zenon DEF IsClosed

\* Such an end that was heard from the beginning tells nothing new.
LEMMA HeardIsKnown ==
    ASSUME StreamInv, Handle, NEW j, j = read + 1, script[j].type = "part", j >= 3,
           script[j].text # <<>>, read - Len(script[j].text) > link.from
    PROVE  turn.raw[script[j].m] = script[j].text
<1>1. /\ StreamShape /\ UnderWay
  BY HandleFacts, Zenon
<1>2. read \in Nat /\ j \in 1 .. Len(script)
  BY HandleFacts, Zenon
<1>t. IsTurn(script) /\ Len(script) \in Nat
  BY HandleFacts, Zenon
<1>3. link.from \in Nat /\ link.from <= read
  BY <1>1, StreamFacts
<1>4. script[j].m \in MessageIds
  BY <1>2, <1>t, EventsInPlace
<1> DEFINE a == j - Len(script[j].text) - 1
<1>5. IsClosed(script, j, a)
  BY <1>2, <1>t, ClosedPart
<1>6. Len(script[j].text) \in Nat /\ script[j].text \in Seq(Nat)
  BY <1>5 DEF IsClosed
<1> DEFINE n == Len(script[j].text)
<1>n. n \in Nat /\ read - n > link.from /\ a = j - n - 1
  BY <1>6
<1> HIDE DEF a, n
<1>7. a = read - n /\ a > link.from
  BY <1>2, <1>n
<1>8. a \in 3 .. j - 2 /\ script[a].type = "part" /\ script[a].text = <<>>
      /\ script[a].m = script[j].m /\ script[a].p = script[j].p
  BY <1>5 DEF IsClosed
<1>r. read \in Nat /\ link.from \in Nat
  BY <1>2, <1>3
<1>9. a \in link.from + 1 .. read /\ read - a = n /\ a \in Nat /\ 3 <= a
  <2>1. 3 <= a /\ a \in Int
    BY <1>8
  <2> QED
    BY <1>r, <1>n, <1>7, <2>1, SMTT(40)
<1>10. ASSUME NEW d \in a + 1 .. read
       PROVE  IsWord(script, d, script[j].m) /\ script[d].p = script[j].p
  <2>1. d - a \in 1 .. n /\ a + (d - a) = d
    BY <1>r, <1>9
  <2> QED
    BY <1>5, <2>1, Zenon DEF IsClosed, n
<1>11. Underway(script, a, read)
  BY <1>8, <1>9, <1>10 DEF Underway
<1>12. /\ Len(turn.raw[script[j].m]) = read - a
       /\ \A i \in 1 .. read - a : turn.raw[script[j].m][i] = Token(script, a + i)
  BY <1>1, <1>8, <1>9, <1>11, Zenon DEF UnderWay, PartIsKnown
<1>13. turn.raw[script[j].m] \in Seq(Nat)
  BY <1>1, <1>4, StreamFacts
<1>14. \A i \in 1 .. Len(script[j].text) : Token(script, a + i) = script[j].text[i]
  BY <1>5 DEF IsClosed
<1>15. Len(turn.raw[script[j].m]) = Len(script[j].text)
       /\ \A i \in 1 .. Len(script[j].text) : turn.raw[script[j].m][i] = script[j].text[i]
  BY <1>9, <1>12, <1>14 DEF n
<1> QED
  BY <1>6, <1>13, <1>15, SeqEqual, Zenon

LEMMA TextAppended ==
    ASSUME NEW q \in Seq(Nat), NEW w \in Seq(Nat), NEW r, r = q \o w
    PROVE  /\ r \in Seq(Nat) /\ Len(r) = Len(q) + Len(w) /\ DOMAIN r = 1 .. Len(q) + Len(w)
           /\ Len(q) \in Nat /\ DOMAIN q = 1 .. Len(q) /\ Len(w) \in Nat /\ DOMAIN w = 1 .. Len(w)
           /\ \A i \in 1 .. Len(q) : r[i] = q[i]
           /\ \A i \in 1 .. Len(w) : r[Len(q) + i] = w[i]
<1>1. Len(q) \in Nat /\ DOMAIN q = 1 .. Len(q) /\ Len(w) \in Nat /\ DOMAIN w = 1 .. Len(w)
  BY LenProperties
<1>2. /\ r \in Seq(Nat) /\ Len(r) = Len(q) + Len(w)
      /\ \A i \in 1 .. Len(q) + Len(w) : r[i] = IF i <= Len(q) THEN q[i] ELSE w[i - Len(q)]
  BY ConcatProperties
<1>3. DOMAIN r = 1 .. Len(q) + Len(w)
  BY <1>2, LenProperties
<1>4. ASSUME NEW i \in 1 .. Len(q) PROVE r[i] = q[i]
  BY <1>1, <1>2
<1>5. ASSUME NEW i \in 1 .. Len(w) PROVE r[Len(q) + i] = w[i]
  <2>1. Len(q) + i \in 1 .. Len(q) + Len(w) /\ ~ (Len(q) + i <= Len(q)) /\ Len(q) + i - Len(q) = i
    BY <1>1
  <2> QED
    BY <1>2, <2>1
<1> QED
  BY <1>1, <1>2, <1>3, <1>4, <1>5

LEMMA EndsInWhole ==
    ASSUME NEW q \in Seq(Nat), NEW w \in Seq(Nat), NEW r, r = q \o w
    PROVE  EndsIn(w, r) /\ EndsIn(w, w)
<1>1. /\ Len(r) = Len(q) + Len(w) /\ Len(q) \in Nat /\ Len(w) \in Nat
      /\ \A i \in 1 .. Len(w) : r[Len(q) + i] = w[i]
  BY TextAppended
<1>2. Len(r) - Len(w) = Len(q) /\ Len(w) <= Len(r) /\ Len(w) <= Len(w)
      /\ \A i \in 1 .. Len(w) : Len(w) - Len(w) + i = i
  BY <1>1
<1> QED
  BY <1>1, <1>2 DEF EndsIn

Joined(w, q, t) == w = q \o t

LEMMA WordsInPlace ==
    ASSUME NEW s, IsTurn(s), NEW j \in 1 .. Len(s), NEW start, IsClosed(s, j, start)
    PROVE  /\ Ascends(s[j].text)
           /\ \A i \in DOMAIN s[j].text : Spoken(s, s[j].text[i], s[j].m, j)
<1>1. Len(s) \in Nat /\ DOMAIN s = 1 .. Len(s)
  BY TurnIsEvents
<1>2. DOMAIN s[j].text = 1 .. Len(s[j].text) /\ start \in 3 .. j - 2 /\ Len(s[j].text) \in Nat
  BY DEF IsClosed
<1>3. ASSUME NEW i \in DOMAIN s[j].text
      PROVE  /\ start + i \in 1 .. j /\ start + i \in 1 .. Len(s) /\ IsWord(s, start + i, s[j].m)
             /\ Token(s, start + i) = s[j].text[i] /\ s[start + i].type = "delta"
  <2>1. start + i \in 1 .. j - 1 /\ IsWord(s, start + i, s[j].m) /\ Token(s, start + i) = s[j].text[i]
    BY <1>2 DEF IsClosed
  <2>2. start + i \in 1 .. j /\ start + i \in 1 .. Len(s)
    BY <1>1, <2>1
  <2> QED
    BY <2>1, <2>2 DEF IsWord
<1>4. Ascends(s[j].text)
  <2> SUFFICES ASSUME NEW i \in DOMAIN s[j].text, NEW k \in DOMAIN s[j].text, i < k
               PROVE  s[j].text[i] < s[j].text[k]
    BY DEF Ascends
  <2>1. start + i < start + k
    BY <1>2
  <2>2. Token(s, start + i) < Token(s, start + k)
    BY <1>3, <2>1, WordsAscend
  <2> QED
    BY <1>3, <2>2
<1>5. \A i \in DOMAIN s[j].text : Spoken(s, s[j].text[i], s[j].m, j)
  BY <1>3 DEF Spoken
<1> QED
  BY <1>4, <1>5

\* The end of a part whose beginning was lost is put out as a whole.
LEMMA LostPartStep ==
    ASSUME StreamInv, Handle, NEW j, j = read + 1, NEW m, NEW text,
           m = script[j].m, text = script[j].text,
           script[j].type = "part", j >= 3, text # <<>>, ~ (read - Len(text) > link.from),
           turn' \in TurnLocals, turn'.asked = turn.asked, turn'.popped = turn.popped,
           turn'.raw[m] = text, turn'.visible[m] = text,
           \A k \in MessageIds : k # m =>
               turn'.raw[k] = turn.raw[k] /\ turn'.visible[k] = turn.visible[k],
           out' \in Seq(Nat), NEW whole, Joined(whole, out, text), out' = whole, how' = how,
           \A k \in MessageIds : turn.raw[k] = <<>> /\ turn.visible[k] = <<>>,
           \A k \in MessageIds : \A i \in DOMAIN out : out[i] \notin Words(script, k)
    PROVE  StreamShape' /\ UnderWay'
<1>1. /\ StreamShape /\ UnderWay /\ how = "under way" /\ link.state # "none"
  BY HandleFacts, Zenon
<1>2. read \in Nat /\ j \in 1 .. Len(script)
  BY HandleFacts, Zenon
<1>t. IsTurn(script) /\ Len(script) \in Nat
  BY HandleFacts, Zenon
<1>n. read' = j /\ script' = script /\ link' = link
  BY HandleFacts, Zenon
<1>3. link.from \in Nat /\ link.from <= read /\ out \in Seq(Nat)
  BY <1>1, StreamFacts, Zenon
<1>4. m \in MessageIds
  BY <1>2, <1>t, EventsInPlace
<1>5. m \notin turn.popped
  BY NotPopped
<1> DEFINE a == j - Len(text) - 1
<1>6. IsClosed(script, j, a)
  BY <1>2, <1>t, ClosedPart, Zenon
<1>7. a \in 3 .. j - 2 /\ text \in Seq(Nat) /\ Len(text) \in Nat /\ DOMAIN text = 1 .. Len(text)
  BY <1>6 DEF IsClosed
<1>8. Ascends(text) /\ \A i \in DOMAIN text : Spoken(script, text[i], m, j)
  <2>1. /\ Ascends(script[j].text)
        /\ \A i \in DOMAIN script[j].text : Spoken(script, script[j].text[i], script[j].m, j)
    BY <1>2, <1>t, <1>6, WordsInPlace, Zenon
  <2> QED
    BY <2>1
<1>9. link.from > 2
  <2>1. a >= 3 /\ a = read - Len(text)
    BY <1>2, <1>7
  <2>2. Len(text) \in Nat
    BY <1>7
  <2> QED
    BY <1>2, <1>3, <2>1, <2>2
<1> HIDE DEF a
<1>10. \A u, k : Spoken(script, u, k, read) => Spoken(script, u, k, j)
  BY <1>2, SpokenStays
<1>11. StreamShape'
  BY <1>1, HandleShape, Zenon DEF StreamShape, TurnEnds
<1>12. /\ Len(out) \in Nat /\ DOMAIN out = 1 .. Len(out)
       /\ DOMAIN whole = 1 .. Len(out) + Len(text)
       /\ \A i \in 1 .. Len(out) : whole[i] = out[i]
       /\ \A i \in 1 .. Len(text) : whole[Len(out) + i] = text[i]
  BY <1>3, <1>7, TextAppended DEF Joined
<1>13. EndsIn(text, whole) /\ EndsIn(text, text)
  BY <1>3, <1>7, EndsInWhole, Zenon DEF Joined
<1>e. Ascends(<<>>) /\ DOMAIN <<>> = {} /\ EndsIn(<<>>, whole) /\ EndsIn(<<>>, <<>>)
  <2>1. <<>> \in Seq(Nat)
    OBVIOUS
  <2> QED
    BY <2>1, EmptyFits, Zenon
<1>14. TextsFit'
  <2> SUFFICES ASSUME NEW k \in MessageIds
               PROVE  /\ Ascends(turn'.visible[k]) /\ EndsIn(turn'.raw[k], turn'.visible[k])
                      /\ \A i \in DOMAIN turn'.visible[k] : Spoken(script, turn'.visible[k][i], k, j)
    BY <1>n DEF TextsFit
  <2>1. CASE k = m
    BY <1>8, <1>13, <2>1
  <2>2. CASE k # m
    BY <1>e, <2>2
  <2> QED
    BY <2>1, <2>2
<1>15. \A i \in DOMAIN whole : \A k \in MessageIds : whole[i] \in Words(script, k) =>
          /\ k = m /\ i - Len(out) \in DOMAIN text /\ whole[i] = text[i - Len(out)]
  <2> SUFFICES ASSUME NEW i \in DOMAIN whole, NEW k \in MessageIds, whole[i] \in Words(script, k)
               PROVE  k = m /\ i - Len(out) \in DOMAIN text /\ whole[i] = text[i - Len(out)]
    OBVIOUS
  <2>1. ~ (i \in 1 .. Len(out))
    BY <1>12
  <2>2. i - Len(out) \in DOMAIN text /\ Len(out) + (i - Len(out)) = i
    <3>1. i \in 1 .. Len(out) + Len(text) /\ Len(out) \in Nat /\ Len(text) \in Nat
      BY <1>7, <1>12
    <3>2. i - Len(out) \in 1 .. Len(text) /\ Len(out) + (i - Len(out)) = i
      BY <2>1, <3>1, SMTT(40)
    <3> QED
      BY <1>7, <3>2
  <2>3. whole[i] = text[i - Len(out)]
    BY <1>7, <1>12, <2>2, Zenon
  <2>4. whole[i] \in Words(script, m)
    BY <1>8, <2>2, <2>3, SpokenIsWord
  <2>5. k = m
    BY <1>t, <2>4, WordsOfOne
  <2> QED
    BY <2>2, <2>3, <2>5
<1>16. OutFits'
  <2> SUFFICES ASSUME NEW k \in MessageIds
               PROVE  /\ InOrder(script, whole, k)
                      /\ \A i \in DOMAIN whole : whole[i] \in Words(script, k) =>
                            /\ Spoken(script, whole[i], k, j)
                            /\ k \notin turn.popped =>
                                 \E n \in DOMAIN turn'.visible[k] : turn'.visible[k][n] = whole[i]
    BY <1>n DEF OutFits
  <2>1. InOrder(script, whole, k)
    <3> SUFFICES ASSUME NEW i \in DOMAIN whole, NEW n \in DOMAIN whole, i < n,
                        whole[i] \in Words(script, k), whole[n] \in Words(script, k)
                 PROVE  whole[i] < whole[n]
      BY DEF InOrder
    <3>1. /\ i - Len(out) \in DOMAIN text /\ whole[i] = text[i - Len(out)]
          /\ n - Len(out) \in DOMAIN text /\ whole[n] = text[n - Len(out)]
      BY <1>15
    <3>2. i - Len(out) < n - Len(out)
      BY <1>12
    <3> QED
      BY <1>8, <3>1, <3>2 DEF Ascends
  <2>2. ASSUME NEW i \in DOMAIN whole, whole[i] \in Words(script, k)
        PROVE  /\ Spoken(script, whole[i], k, j)
               /\ \E n \in DOMAIN turn'.visible[k] : turn'.visible[k][n] = whole[i]
    <3>1. k = m /\ i - Len(out) \in DOMAIN text /\ whole[i] = text[i - Len(out)]
      BY <1>15, <2>2
    <3>2. Spoken(script, whole[i], k, j)
      BY <1>8, <3>1
    <3>3. \E n \in DOMAIN text : text[n] = whole[i]
      BY <3>1
    <3> QED
      BY <3>1, <3>2, <3>3
  <2> QED
    BY <2>1, <2>2
<1>17. PoppedIsOver'
  <2> SUFFICES ASSUME NEW k \in turn.popped
               PROVE  /\ turn'.raw[k] = <<>> /\ turn'.visible[k] = <<>>
                      /\ \E i \in 3 .. j : script[i].type \in {"toolcalls", "finish"} /\ script[i].m = k
    BY <1>n DEF PoppedIsOver
  <2>1. k \in MessageIds /\ k # m
    BY <1>1, <1>5, StreamFacts, Zenon
  <2>2. PICK i \in 3 .. read : script[i].type \in {"toolcalls", "finish"} /\ script[i].m = k
    BY <1>1, Zenon DEF UnderWay, PoppedIsOver
  <2>3. i \in 3 .. j
    BY <1>2
  <2> QED
    BY <2>1, <2>2, <2>3
<1>18. NothingYet'
  <2>1. UserMessage \notin MessageIds
    BY <1>1, StreamFacts, Zenon
  <2>2. j \in link.from + 1 .. j
    BY <1>2, <1>3
  <2> QED
    BY <1>n, <1>4, <2>1, <2>2 DEF NothingYet
<1>19. PartIsKnown'
  <2> SUFFICES ASSUME NEW b \in link'.from + 1 .. read', Underway(script', b, read') PROVE FALSE
    BY DEF PartIsKnown
  <2>0. b \in link.from + 1 .. read + 1 /\ Underway(script, b, read + 1)
    BY <1>n
  <2>1. b # read + 1
    BY <2>0 DEF Underway
  <2>2. ~ (b \in link.from + 1 .. read)
    BY <2>0, PartStops
  <2> QED
    BY <1>2, <1>3, <2>0, <2>1, <2>2
<1>20. KnownWhole' /\ OutIsWhole' /\ AskedIsKnown'
  <2>1. ~ (link.from <= 2) /\ link.from \notin {0, 2} /\ link.from # 0
    BY <1>3, <1>9
  <2> QED
    BY <1>n, <2>1 DEF KnownWhole, OutIsWhole, AskedIsKnown
<1>21. LastIsShown'
  <2>1. \A k \in MessageIds : EndsIn(turn'.visible[k], whole)
    <3> SUFFICES ASSUME NEW k \in MessageIds PROVE EndsIn(turn'.visible[k], whole)
      OBVIOUS
    <3>1. CASE k = m
      BY <1>13, <3>1
    <3>2. CASE k # m
      BY <1>e, <3>2
    <3> QED
      BY <3>1, <3>2
  <2> QED
    BY <2>1 DEF LastIsShown
<1> QED
  BY <1>11, <1>14, <1>16, <1>17, <1>18, <1>19, <1>20, <1>21 DEF UnderWay

LEMMA NoMore ==
    ASSUME NEW q \in Seq(Nat)
    PROVE  q \o <<>> = q /\ <<>> \o q = q
BY ConcatEmptySeq

LEMMA NothingFollows ==
    ASSUME StreamShape, NEW m \in TextIds, NEW text \in Seq(Nat), text = <<>> \/ turn.raw[m] = text
    PROVE  MoreOf(m, text) = <<>>
<1>1. turn.raw[m] \in Seq(Nat) /\ turn.visible[m] \in Seq(Nat)
  BY StreamFacts
<1>2. Len(text) \in Nat /\ Len(turn.raw[m]) \in Nat /\ Len(turn.visible[m]) \in Nat
  BY <1>1, LenProperties
<1>3. ASSUME NEW n \in Nat, n >= Len(text), n <= Len(text) PROVE Drop(text, n) = <<>>
  <2>1. n = Len(text) /\ n \in 0 .. Len(text)
    BY <1>2, <1>3
  <2>2. Drop(text, n) \in Seq(Nat) /\ Len(Drop(text, n)) = Len(text) - n
    BY <2>1, DropIsRest
  <2>3. Len(Drop(text, n)) = 0
    BY <1>2, <2>1, <2>2
  <2> QED
    BY <2>2, <2>3, EmptySeq
<1>4. CASE text = <<>>
  <2>1. Len(text) = 0
    BY <1>4
  <2>2. Begins(turn.raw[m], text) => Len(turn.raw[m]) <= Len(text) /\ Len(turn.raw[m]) >= Len(text)
    BY <1>2, <2>1 DEF Begins
  <2>3. Begins(turn.visible[m], text) => Len(turn.visible[m]) <= Len(text) /\ Len(turn.visible[m]) >= Len(text)
    BY <1>2, <2>1 DEF Begins
  <2> QED
    BY <1>2, <1>3, <2>2, <2>3, MoreIsRest
<1>5. CASE turn.raw[m] = text /\ text # <<>>
  <2>1. Begins(turn.raw[m], text)
    BY <1>2, <1>5 DEF Begins
  <2>2. MoreOf(m, text) = Drop(text, Len(turn.raw[m]))
    BY <1>5, <2>1, MoreIsRest
  <2>3. Drop(text, Len(turn.raw[m])) = <<>>
    BY <1>2, <1>3, <1>5
  <2> QED
    BY <2>2, <2>3
<1> QED
  BY <1>4, <1>5

LEMMA AllFollows ==
    ASSUME StreamShape, NEW m \in TextIds, NEW text \in Seq(Nat),
           turn.raw[m] = <<>>, turn.visible[m] = <<>>
    PROVE  MoreOf(m, text) = text
<1>1. Len(<<>>) = 0 /\ Len(text) \in Nat
  BY LenProperties
<1>2. Begins(turn.visible[m], text) /\ Len(turn.visible[m]) = 0
  BY <1>1 DEF Begins
<1>3. MoreOf(m, text) = Drop(text, 0)
  BY <1>2, MoreIsRest
<1>4. 0 \in 0 .. Len(text)
  BY <1>1
<1>5. /\ Drop(text, 0) \in Seq(Nat) /\ Len(Drop(text, 0)) = Len(text) - 0
      /\ \A i \in 1 .. Len(text) - 0 : Drop(text, 0)[i] = text[0 + i]
  BY <1>4, DropIsRest
<1>6. Len(Drop(text, 0)) = Len(text) /\ \A i \in 1 .. Len(text) : Drop(text, 0)[i] = text[i]
  BY <1>1, <1>5
<1> QED
  BY <1>3, <1>5, <1>6, SeqEqual

\* A lost beginning is before the stream, and nothing of the answer has been heard since.
LEMMA LostIsUnheard ==
    ASSUME StreamInv, Handle, NEW j, j = read + 1, script[j].type = "part", j >= 3,
           script[j].text # <<>>, ~ (read - Len(script[j].text) > link.from)
    PROVE  /\ \A m \in MessageIds : turn.raw[m] = <<>> /\ turn.visible[m] = <<>>
           /\ \A i \in DOMAIN out : \A m \in MessageIds : out[i] \notin Words(script, m)
<1>1. /\ StreamShape /\ UnderWay
  BY HandleFacts, Zenon
<1>2. read \in Nat /\ j \in 1 .. Len(script)
  BY HandleFacts, Zenon
<1>t. IsTurn(script)
  BY HandleFacts, Zenon
<1>3. link.from \in Nat
  BY <1>1, StreamFacts
<1> DEFINE n == Len(script[j].text)
           a == j - n - 1
<1>4. IsClosed(script, j, a)
  BY <1>2, <1>t, ClosedPart, Zenon
<1>5. n \in Nat /\ ~ (read - n > link.from)
  BY <1>4 DEF IsClosed
<1>6. \A i \in 1 .. n : IsWord(script, a + i, script[j].m)
  BY <1>4, Zenon DEF IsClosed
<1>j. j - 1 = read
  BY <1>2
<1> HIDE DEF n
<1>7. a = read - n /\ a \in Int
  BY <1>2, <1>5, <1>j
<1> HIDE DEF a
<1>8. \A i \in link.from + 1 .. read : script[i].type = "part" => script[i].m = UserMessage
  <2> SUFFICES ASSUME NEW i \in link.from + 1 .. read PROVE script[i].type # "part"
    OBVIOUS
  <2>1. i - a \in 1 .. n /\ a + (i - a) = i
    BY <1>2, <1>3, <1>5, <1>7
  <2>2. IsWord(script, i, script[j].m)
    BY <1>6, <2>1
  <2> QED
    BY <2>2 DEF IsWord
<1> QED
  BY <1>1, <1>8 DEF UnderWay, NothingYet

LEMMA PartStep ==
    ASSUME StreamInv, Handle, NEW j, j = read + 1, script[j].type = "part",
           Updated(script[j]), how' = how
    PROVE  StreamShape' /\ UnderWay'
<1> DEFINE m == script[j].m
           text == script[j].text
           known == turn.parts \cup {<<script[j].m, script[j].p>>}
<1>1. StreamShape /\ turn \in TurnLocals /\ out \in Seq(Nat)
  BY HandleFacts, Zenon DEF StreamShape
<1>2. read \in Nat /\ j \in 1 .. Len(script)
  BY HandleFacts, Zenon
<1>t. IsTurn(script)
  BY HandleFacts, Zenon
<1>3. script[j] \in Events
  BY <1>2, <1>t, TurnIsEvents
<1>4. text \in Seq(Nat) /\ known \subseteq Int \X Nat
  BY <1>1, <1>3, StreamFacts DEF Events
<1>5. UserMessage \in TextIds /\ UserMessage \notin MessageIds /\ MessageIds \subseteq TextIds
  BY <1>1, StreamFacts DEF TextIds
<1>6. CASE j < 3
  <2>1. m = UserMessage /\ text = <<Asked>>
    BY <1>2, <1>6, <1>t, EventsInPlace
  <2>2. CASE Hears(m)
    <3>1. Reconcile(UserMessage, text, known) /\ ~ turn.asked
      BY <2>1, <2>2 DEF Updated, Hears
    <3>2. /\ out' = out \o MoreOf(UserMessage, text) /\ turn' \in TurnLocals
          /\ turn'.asked = turn.asked /\ turn'.parts = known /\ turn'.popped = turn.popped
          /\ \A k \in TextIds : k # UserMessage =>
                turn'.raw[k] = turn.raw[k] /\ turn'.visible[k] = turn.visible[k]
      <4> HIDE DEF known, text
      <4> QED
        BY <1>1, <1>4, <1>5, <3>1, Reconciled
    <3>3. MoreOf(UserMessage, text) = <<>> \/ MoreOf(UserMessage, text) = <<Asked>>
      BY <1>1, <1>5, <2>1, StreamAssumption, MoreOfOne
    <3>4. out' = out \/ out' = out \o <<Asked>>
      BY <1>1, <3>2, <3>3, NoMore, Zenon
    <3>5. \A k \in MessageIds : turn'.raw[k] = turn.raw[k] /\ turn'.visible[k] = turn.visible[k]
      BY <1>5, <3>2
    <3> QED
      BY <1>6, <3>1, <3>2, <3>4, <3>5, AskedStep
  <2>3. CASE ~ Hears(m)
    <3>1. turn' = [turn EXCEPT !.parts = known] /\ out' = out
      BY <2>3 DEF Updated
    <3> HIDE DEF known
    <3>2. /\ turn' \in TurnLocals /\ turn'.asked = turn.asked /\ turn'.parts = known
          /\ turn'.popped = turn.popped /\ turn'.raw = turn.raw /\ turn'.visible = turn.visible
      BY <1>1, <1>4, <3>1, Zenon DEF TurnLocals
    <3>3. turn'.parts = turn.parts \cup {<<script[j].m, script[j].p>>}
      BY <3>2 DEF known
    <3> QED
      BY <1>6, <3>1, <3>2, <3>3, AskedStep
  <2> QED
    BY <2>2, <2>3
<1>7. CASE j >= 3
  <2>1. m \in MessageIds /\ m \in TextIds /\ m # UserMessage
    BY <1>2, <1>5, <1>7, <1>t, EventsInPlace
  <2>2. Reconcile(m, text, known)
    BY <2>1 DEF Updated, Hears
  <2>3. /\ out' = out \o MoreOf(m, text) /\ out' \in Seq(Nat) /\ turn' \in TurnLocals
        /\ turn'.asked = turn.asked /\ turn'.parts = known /\ turn'.popped = turn.popped
        /\ turn'.raw[m] = text /\ turn'.visible[m] = turn.visible[m] \o MoreOf(m, text)
        /\ \A k \in TextIds : k # m =>
              turn'.raw[k] = turn.raw[k] /\ turn'.visible[k] = turn.visible[k]
    <3> HIDE DEF known, text, m
    <3> QED
      BY <1>1, <1>4, <2>1, <2>2, Reconciled, Zenon
  <2>4. \A k \in MessageIds : k # m =>
              turn'.raw[k] = turn.raw[k] /\ turn'.visible[k] = turn.visible[k]
    BY <1>5, <2>3, Zenon
  <2>v. turn.visible[m] \in Seq(Nat)
    BY <1>1, <2>1, StreamFacts
  <2>5. ASSUME text = <<>> \/ turn.raw[m] = text PROVE StreamShape' /\ UnderWay'
    <3>1. MoreOf(m, text) = <<>>
      <4> HIDE DEF text, m
      <4> QED
        BY <1>1, <1>4, <2>1, <2>5, NothingFollows
    <3>2. out' = out /\ turn'.visible[m] = turn.visible[m]
      BY <1>1, <2>3, <2>v, <3>1, NoMore
    <3>3. \A k \in MessageIds : /\ turn'.visible[k] = turn.visible[k]
                                /\ turn'.raw[k] = turn.raw[k] \/ turn'.raw[k] = <<>>
      BY <2>3, <2>4, <2>5, <3>2
    <3> QED
      BY <1>7, <2>3, <3>2, <3>3, QuietPartStep
  <2>6. ASSUME text # <<>>, read - Len(text) > link.from PROVE StreamShape' /\ UnderWay'
    <3>1. turn.raw[m] = text
      BY <1>7, <2>6, HeardIsKnown
    <3> QED
      BY <2>5, <3>1
  <2>7. ASSUME text # <<>>, ~ (read - Len(text) > link.from) PROVE StreamShape' /\ UnderWay'
    <3>1. /\ \A k \in MessageIds : turn.raw[k] = <<>> /\ turn.visible[k] = <<>>
          /\ \A i \in DOMAIN out : \A k \in MessageIds : out[i] \notin Words(script, k)
      BY <1>7, <2>7, LostIsUnheard
    <3>2. MoreOf(m, text) = text
      <4>1. turn.raw[m] = <<>> /\ turn.visible[m] = <<>>
        BY <2>1, <3>1
      <4> HIDE DEF text, m
      <4> QED
        BY <1>1, <1>4, <2>1, <4>1, AllFollows
    <3>3. turn'.visible[m] = text
      BY <1>4, <2>1, <2>3, <3>1, <3>2, NoMore, Zenon
    <3>4. Joined(out', out, text)
      BY <2>3, <3>2 DEF Joined
    <3> DEFINE whole == out'
    <3>5. /\ m = script[j].m /\ text = script[j].text
          /\ Joined(whole, out, text) /\ out' = whole /\ out' \in Seq(Nat)
      BY <2>3, <3>4
    <3>6. /\ turn' \in TurnLocals /\ turn'.asked = turn.asked /\ turn'.popped = turn.popped
          /\ turn'.raw[m] = text /\ turn'.visible[m] = text
      BY <2>3, <3>3
    <3> HIDE DEF m, text, whole, known
    <3> QED
      BY <1>7, <2>4, <2>7, <3>1, <3>5, <3>6, LostPartStep
  <2> QED
    BY <2>5, <2>6, <2>7
<1> QED
  BY <1>2, <1>6, <1>7

LEMMA DeltaStep ==
    ASSUME StreamInv, Handle, script[read + 1].type = "delta", Delta(script[read + 1]), how' = how
    PROVE  StreamShape' /\ UnderWay'
<1> DEFINE m == script[read + 1].m
           t == Token(script, read + 1)
<1>1. StreamShape /\ turn \in TurnLocals /\ out \in Seq(Nat)
  BY HandleFacts, Zenon DEF StreamShape
<1>2. read + 1 \in 1 .. Len(script) /\ IsTurn(script)
  BY HandleFacts, Zenon
<1>3. m \in MessageIds /\ t \in Nat /\ script[read + 1].text = <<t>>
  BY <1>2, WordsAreTokens
<1>4. CASE <<m, script[read + 1].p>> \in turn.parts
  <2> DEFINE before == turn.raw[m] \o <<t>>
             known == turn.visible[m] \o <<t>>
  <2>1. m \in TextIds /\ turn.raw[m] \in Seq(Nat) /\ turn.visible[m] \in Seq(Nat)
    BY <1>1, <1>3, StreamFacts
  <2>2. before \in Seq(Nat) /\ known \in Seq(Nat)
    BY <1>3, <2>1, WordAppended
  <2>3. /\ turn' = [turn EXCEPT !.raw[m] = before, !.visible[m] = known]
        /\ Longer(out', out, t)
    BY <1>3, <1>4 DEF Delta, Longer
  <2>4. Longer(before, turn.raw[m], t) /\ Longer(known, turn.visible[m], t)
    BY DEF Longer
  <2> HIDE DEF before, known, m, t
  <2>5. /\ turn' \in TurnLocals
        /\ turn'.asked = turn.asked /\ turn'.parts = turn.parts /\ turn'.popped = turn.popped
        /\ turn'.raw = [turn.raw EXCEPT ![m] = before]
        /\ turn'.visible = [turn.visible EXCEPT ![m] = known]
    BY <1>1, <2>1, <2>2, <2>3, Zenon DEF TurnLocals
  <2>6. /\ turn'.raw[m] = before /\ turn'.visible[m] = known
        /\ \A k \in TextIds : k # m =>
                  turn'.raw[k] = turn.raw[k] /\ turn'.visible[k] = turn.visible[k]
    BY <1>1, <2>1, <2>5 DEF TurnLocals
  <2>7. /\ Longer(turn'.raw[m], turn.raw[m], t) /\ Longer(turn'.visible[m], turn.visible[m], t)
        /\ \A k \in MessageIds : k # m =>
                  turn'.raw[k] = turn.raw[k] /\ turn'.visible[k] = turn.visible[k]
    BY <1>1, <2>4, <2>6, StreamFacts
  <2>8. m = script[read + 1].m /\ t = Token(script, read + 1)
    BY DEF m, t
  <2> QED
    BY <1>4, <2>3, <2>5, <2>7, <2>8, WordStep
<1>5. CASE <<m, script[read + 1].p>> \notin turn.parts
  <2>1. turn' = turn /\ out' = out
    BY <1>5 DEF Delta
  <2> QED
    BY <1>5, <2>1, LostWordStep
<1> QED
  BY <1>4, <1>5

LEMMA MessageOver ==
    ASSUME StreamInv, Handle, script[read + 1].type \in {"toolcalls", "finish"},
           Finished(script[read + 1]), out' = out, how' \in TurnEnds
    PROVE  StreamShape' /\ UnderWay'
<1> DEFINE m == script[read + 1].m
<1>1. StreamShape /\ turn \in TurnLocals
  BY HandleFacts, Zenon DEF StreamShape
<1>2. read + 1 \in 1 .. Len(script) /\ IsTurn(script)
  BY HandleFacts, Zenon
<1>3. m \in MessageIds
  BY <1>2, EventsInPlace
<1>4. m \in TextIds /\ MessageIds \subseteq TextIds
  BY <1>1, <1>3, StreamFacts
<1>5. <<>> \in Seq(Nat)
  OBVIOUS
<1>6. turn' = [turn EXCEPT !.raw[m] = <<>>, !.visible[m] = <<>>, !.popped = turn.popped \cup {m}]
  BY DEF Finished
<1> HIDE DEF m
<1>7. /\ turn' \in TurnLocals
      /\ turn'.asked = turn.asked /\ turn'.parts = turn.parts /\ turn'.popped = turn.popped \cup {m}
      /\ turn'.raw = [turn.raw EXCEPT ![m] = <<>>]
      /\ turn'.visible = [turn.visible EXCEPT ![m] = <<>>]
  BY <1>1, <1>3, <1>4, <1>5, <1>6, Zenon DEF TurnLocals
<1>8. /\ turn'.raw[m] = <<>> /\ turn'.visible[m] = <<>>
      /\ \A k \in MessageIds : k # m =>
            turn'.raw[k] = turn.raw[k] /\ turn'.visible[k] = turn.visible[k]
  BY <1>1, <1>4, <1>7 DEF TurnLocals
<1>9. m = script[read + 1].m
  BY DEF m
<1> QED
  BY <1>7, <1>8, <1>9, OverStep

\* Whatever an event brings, the backend goes on knowing what it put out.
LEMMA HandleStep ==
    ASSUME StreamInv, Handle
    PROVE  StreamInv'
<1> DEFINE j == read + 1
<1>1. /\ StreamShape /\ UnderWay /\ how = "under way" /\ turn \in TurnLocals /\ out \in Seq(Nat)
  BY HandleFacts, Zenon DEF StreamShape
<1>2. read \in Nat /\ j \in 1 .. Len(script) /\ IsTurn(script) /\ Len(script) \in Nat
  BY HandleFacts, Zenon
<1>n. read' = j /\ script' = script /\ sent' = sent /\ link' = link
  BY HandleFacts, Zenon
<1>3. ASSUME StreamShape', UnderWay', how' = how PROVE StreamInv'
  <2>1. OutInOrder'
    BY <1>3 DEF UnderWay, OutFits, OutInOrder
  <2>2. how' = "under way"
    BY <1>1, <1>3, Zenon
  <2> QED
    BY <1>3, <2>1, <2>2, Zenon DEF StreamInv, EndIsWhole
<1>4. \/ script[j].type = "user" /\ turn' = [turn EXCEPT !.asked = TRUE] /\ out' = out /\ how' = how
      \/ script[j].type = "part" /\ Updated(script[j]) /\ how' = how
      \/ script[j].type = "delta" /\ Delta(script[j]) /\ how' = how
      \/ script[j].type = "toolcalls" /\ Finished(script[j]) /\ out' = out /\ how' = how
      \/ script[j].type = "finish" /\ Finished(script[j]) /\ how' = "finished" /\ out' = out
      \/ script[j].type \in {"idle", "error"} /\ how' = script[j].type /\ turn' = turn /\ out' = out
  BY DEF Handle, EndTurn
<1>5. CASE script[j].type = "user" /\ turn' = [turn EXCEPT !.asked = TRUE] /\ out' = out /\ how' = how
  <2>1. /\ turn' \in TurnLocals /\ turn'.asked /\ turn'.parts = turn.parts
        /\ turn'.raw = turn.raw /\ turn'.visible = turn.visible /\ turn'.popped = turn.popped
    BY <1>1, <1>5, Zenon DEF TurnLocals
  <2>2. script[read + 1].type = "user" /\ out' = out /\ how' = how
    BY <1>5
  <2>3. StreamShape' /\ UnderWay'
    BY <2>1, <2>2, UserStep
  <2> QED
    BY <1>3, <2>2, <2>3
<1>6. CASE script[j].type = "part" /\ Updated(script[j]) /\ how' = how
  BY <1>3, <1>6, PartStep
<1>7. CASE script[j].type = "delta" /\ Delta(script[j]) /\ how' = how
  BY <1>3, <1>7, DeltaStep
<1>8. CASE script[j].type = "toolcalls" /\ Finished(script[j]) /\ out' = out /\ how' = how
  <2>1. how' \in TurnEnds
    BY <1>1, <1>8, Zenon DEF TurnEnds
  <2> QED
    BY <1>3, <1>8, <2>1, MessageOver
<1>9. CASE script[j].type = "finish" /\ Finished(script[j]) /\ how' = "finished" /\ out' = out
  <2>1. how' \in TurnEnds
    BY <1>9 DEF TurnEnds
  <2>2. StreamShape' /\ UnderWay'
    BY <1>9, <2>1, MessageOver
  <2>3. OutInOrder' /\ OutIsWhole'
    BY <2>2 DEF UnderWay, OutFits, OutInOrder
  <2>4. j = Len(script) - 1
    BY <1>2, <1>9, EventsInPlace
  <2>5. \A d \in j + 1 .. Len(script) : script[d].type # "delta"
    <3> SUFFICES ASSUME NEW d \in j + 1 .. Len(script) PROVE script[d].type # "delta"
      OBVIOUS
    <3>1. d = Len(script)
      BY <1>2, <2>4
    <3> QED
      BY <1>2, <3>1 DEF IsTurn
  <2>6. EndIsWhole'
    BY <1>n, <2>3, <2>5 DEF EndIsWhole
  <2> QED
    BY <1>9, <2>2, <2>3, <2>6, Zenon DEF StreamInv
<1>10. CASE script[j].type \in {"idle", "error"} /\ how' = script[j].type /\ turn' = turn /\ out' = out
  <2>1. how' \in TurnEnds /\ how' # "under way" /\ how' # "polled"
    BY <1>10, Zenon DEF TurnEnds
  <2>2. StreamShape'
    BY <1>1, <1>10, <2>1, HandleShape, Zenon
  <2>3. OutInOrder'
    BY <1>1, <1>10, <1>n, Zenon DEF OutInOrder, UnderWay, OutFits
  <2>4. OutIsWhole'
    BY <1>10, SaidStays
  <2>5. j = Len(script)
    BY <1>2, <1>10, EventsInPlace
  <2>6. \A d \in j + 1 .. Len(script) : script[d].type # "delta"
    BY <1>2, <2>5
  <2>7. EndIsWhole'
    BY <1>n, <2>4, <2>6 DEF EndIsWhole
  <2> QED
    BY <2>1, <2>2, <2>3, <2>7, Zenon DEF StreamInv
<1> QED
  BY <1>4, <1>5, <1>6, <1>7, <1>8, <1>9, <1>10

\* Before the stream is open there is nothing to be known.
LEMMA StreamStart ==
    ASSUME StreamInit
    PROVE  StreamInv
<1>1. /\ script \in Scripts /\ sent = 0 /\ read = 0 /\ link = [state |-> "none", from |-> 0, upto |-> 0]
      /\ turn = [asked |-> FALSE, parts |-> {}, raw |-> NoTexts, visible |-> NoTexts, popped |-> {}]
      /\ out = <<>> /\ how = "under way"
  BY Zenon DEF StreamInit
<1>2. IsTurn(script) /\ Len(script) \in Nat
  BY <1>1, StreamAssumption, TurnIsEvents, Zenon
<1>3. <<>> \in Seq(Nat)
  OBVIOUS
<1>4. NoTexts \in [TextIds -> Seq(Nat)] /\ \A m \in TextIds : NoTexts[m] = <<>>
  BY <1>3 DEF NoTexts, TextIds
<1>5. /\ turn.asked = FALSE /\ turn.parts = {} /\ turn.raw = NoTexts /\ turn.visible = NoTexts
      /\ turn.popped = {} /\ turn \in TurnLocals
  BY <1>1, <1>4, Zenon DEF TurnLocals
<1>6. /\ link.state = "none" /\ link.from = 0
      /\ link \in [state : {"none", "up", "closed", "failed"}, from : Nat, upto : Nat]
  BY <1>1, Zenon
<1>h. how \in TurnEnds
  BY <1>1, Zenon DEF TurnEnds
<1>n. sent = 0 /\ read = 0 /\ link.from = 0
  BY <1>1, <1>6, Zenon
<1>t. Len(script) \in Nat
  BY <1>2
<1>7. StreamShape
  <2>1. sent \in 0 .. Len(script) /\ read \in 0 .. sent /\ link.from <= read
    BY <1>n, <1>t
  <2> QED
    BY <1>1, <1>3, <1>5, <1>6, <1>h, <2>1, Zenon DEF StreamShape
<1>8. \A m \in MessageIds : turn.raw[m] = <<>> /\ turn.visible[m] = <<>>
  BY <1>4, <1>5, <1>7, StreamFacts
<1>9. Ascends(<<>>) /\ EndsIn(<<>>, <<>>) /\ DOMAIN <<>> = {}
  BY <1>3, EmptyFits, Zenon
<1>10. \A ms : SaidIn(script, ms, 0) = <<>>
  BY <1>2, SaidUnfolds
<1>11. TextsFit /\ LastIsShown
  BY <1>1, <1>8, <1>9, Zenon DEF TextsFit, LastIsShown
<1>12. OutFits /\ PoppedIsOver /\ OutInOrder
  BY <1>1, <1>5, <1>9, Zenon DEF OutFits, PoppedIsOver, OutInOrder, InOrder
<1>13. NothingYet
  BY <1>1, <1>5, <1>8, <1>9, Zenon DEF NothingYet
<1>14. PartIsKnown
  <2>1. link.from + 1 .. read = {}
    BY <1>n
  <2> QED
    BY <2>1 DEF PartIsKnown
<1>3a. ~ (read >= 3)
  BY <1>n
<1>e. out = <<>> /\ link.state = "none" /\ read = 0 /\ ~ (read >= 3)
  BY <1>1, <1>6, <1>3a, Zenon
<1>15. KnownWhole /\ OutIsWhole /\ AskedIsKnown
  BY <1>e, <1>8, <1>10 DEF KnownWhole, OutIsWhole, AskedIsKnown
<1>16. EndIsWhole
  BY <1>1, Zenon DEF EndIsWhole
<1> QED
  BY <1>1, <1>7, <1>11, <1>12, <1>13, <1>14, <1>15, <1>16, Zenon DEF StreamInv, UnderWay

\* While only opencode or the connection moves, what is known stays so.
LEMMA UnderWayStays ==
    ASSUME UnderWay, UNCHANGED <<script, read, turn, out>>,
           link'.from = link.from, link'.state # "none" => link.state # "none"
    PROVE  UnderWay' /\ OutFits' /\ OutIsWhole'
<1>1. script' = script /\ read' = read /\ turn' = turn /\ out' = out
  OBVIOUS
<1>2. TextsFit' /\ OutFits' /\ PoppedIsOver' /\ LastIsShown'
  BY <1>1 DEF UnderWay, TextsFit, OutFits, PoppedIsOver, LastIsShown
<1>3. NothingYet' /\ PartIsKnown' /\ KnownWhole'
  BY <1>1 DEF UnderWay, NothingYet, PartIsKnown, KnownWhole
<1>4. OutIsWhole' /\ AskedIsKnown'
  BY <1>1 DEF UnderWay, OutIsWhole, AskedIsKnown
<1> QED
  BY <1>2, <1>3, <1>4 DEF UnderWay

LEMMA ServeStep ==
    ASSUME StreamInv, Serve
    PROVE  StreamInv'
<1>1. /\ StreamShape /\ sent < Len(script) /\ sent' = sent + 1
      /\ script' = script /\ link' = link /\ read' = read /\ turn' = turn /\ out' = out /\ how' = how
  BY Zenon DEF StreamInv, Serve
<1>2. Len(script) \in Nat /\ sent \in Nat /\ read \in Nat /\ read <= sent
  BY <1>1, StreamFacts
<1>3. how # "polled"
  <2>1. sent # Len(script)
    BY <1>1, <1>2
  <2> QED
    BY <2>1, Zenon DEF StreamInv
<1>4. sent' \in 0 .. Len(script) /\ read \in 0 .. sent'
  BY <1>1, <1>2
<1>5. link.state \in {"closed", "failed"} => read <= link.upto /\ link.upto <= sent'
  <2> SUFFICES ASSUME link.state \in {"closed", "failed"} PROVE read <= link.upto /\ link.upto <= sent'
    OBVIOUS
  <2>1. read <= link.upto /\ link.upto <= sent
    BY <1>1 DEF StreamShape
  <2>2. link.upto \in Nat
    BY <1>1 DEF StreamShape
  <2> QED
    BY <1>1, <1>2, <2>1, <2>2
<1>6. StreamShape'
  BY <1>1, <1>4, <1>5 DEF StreamShape
<1>7. how = "under way" => UnderWay'
  BY <1>1, UnderWayStays, Zenon DEF StreamInv
<1>8. OutInOrder' /\ EndIsWhole'
  BY <1>1, Zenon DEF StreamInv, OutInOrder, EndIsWhole, Recovered, OutIsWhole
<1> QED
  BY <1>1, <1>3, <1>6, <1>7, <1>8, Zenon DEF StreamInv

\* The connection breaks, or the turn ends without a word.
Quiet ==
    /\ how = "under way" /\ how' \in TurnEnds \ {"finished", "idle", "polled"}
    /\ UNCHANGED <<script, sent, read, turn, out>>
    /\ \/ link' = link
       \/ /\ link.state # "none"
          /\ \E s \in {"closed", "failed"} : link' = [link EXCEPT !.state = s, !.upto = sent]

LEMMA QuietStep ==
    ASSUME StreamInv, Quiet
    PROVE  StreamInv'
<1>1. /\ StreamShape /\ UnderWay /\ script' = script /\ sent' = sent /\ read' = read /\ turn' = turn
      /\ out' = out
  BY Zenon DEF StreamInv, Quiet
<1>2. /\ link \in [state : {"none", "up", "closed", "failed"}, from : Nat, upto : Nat]
      /\ sent \in Nat /\ read \in Nat /\ read <= sent
  BY <1>1, StreamFacts DEF StreamShape
<1>3. /\ link' \in [state : {"none", "up", "closed", "failed"}, from : Nat, upto : Nat]
      /\ link'.from = link.from /\ (link'.state = "none" <=> link.state = "none")
      /\ link' = link \/ link'.upto = sent
  BY <1>2, Zenon DEF Quiet
<1>4. link'.state \in {"closed", "failed"} => read <= link'.upto /\ link'.upto <= sent
  <2>1. CASE link' = link
    BY <1>1, <2>1 DEF StreamShape
  <2>2. CASE link'.upto = sent
    <3>1. sent \in Nat /\ read <= sent
      BY <1>2
    <3>2. read <= link'.upto /\ link'.upto <= sent
      BY <2>2, <3>1
    <3> QED
      BY <3>2
  <2>3. link' = link \/ link'.upto = sent
    BY <1>3
  <2> QED
    BY <2>1, <2>2, <2>3
<1>8. how' # "finished" /\ how' # "idle" /\ how' # "polled" /\ how' \in TurnEnds
  BY Zenon DEF Quiet
<1>5. StreamShape'
  BY <1>1, <1>3, <1>4, <1>8 DEF StreamShape
<1>6. UnderWay' /\ OutFits'
  BY <1>1, <1>3, UnderWayStays
<1>7. OutInOrder'
  BY <1>6 DEF OutInOrder, OutFits
<1> QED
  BY <1>5, <1>6, <1>7, <1>8, Zenon DEF StreamInv, EndIsWhole

\* What was sent before the stream was open is lost, and nothing else is known.
LEMMA OpenStep ==
    ASSUME StreamInv, OpenLink
    PROVE  StreamInv'
<1>1. /\ StreamShape /\ UnderWay /\ link.state = "none" /\ how = "under way"
      /\ link' = [state |-> "up", from |-> sent, upto |-> 0] /\ read' = sent
      /\ script' = script /\ sent' = sent /\ turn' = turn /\ out' = out /\ how' = how
  BY Zenon DEF StreamInv, OpenLink
<1>0. StreamShape
  BY Zenon DEF StreamInv
<1>2. /\ IsTurn(script) /\ Len(script) \in Nat /\ sent \in Nat /\ sent \in 0 .. Len(script)
      /\ link.from \in Nat /\ link.from <= read
  BY <1>0, StreamFacts DEF StreamShape
<1>r. read = 0
  BY <1>1, Zenon DEF StreamShape
<1>s. link.from = 0 /\ sent \in Nat
  BY <1>2, <1>r
<1>3. /\ link'.state = "up" /\ link'.from = sent
      /\ link' \in [state : {"none", "up", "closed", "failed"}, from : Nat, upto : Nat]
  BY <1>1, <1>2, Zenon
<1>n. read' = sent /\ sent' = sent /\ link'.from = sent
  BY <1>1, <1>3, Zenon
<1>4. StreamShape'
  <2>1. read' \in 0 .. sent' /\ link'.from <= read'
    BY <1>n, <1>s
  <2> QED
    BY <1>1, <1>3, <2>1, Zenon DEF StreamShape
<1>5. /\ \A m \in MessageIds : turn.raw[m] = <<>> /\ turn.visible[m] = <<>>
      /\ \A q \in turn.parts : q[1] \notin MessageIds
      /\ \A i \in DOMAIN out : \A m \in MessageIds : out[i] \notin Words(script, m)
  <2>1. link.from + 1 .. read = {}
    BY <1>r, <1>s
  <2> QED
    BY <1>1, <2>1, Zenon DEF UnderWay, NothingYet
<1>6. turn.popped = {}
  <2>1. 3 .. read = {}
    BY <1>r
  <2> QED
    BY <1>1, <2>1, Zenon DEF UnderWay, PoppedIsOver
<1>7. out = <<>>
  <2>1. SaidIn(script, MessageIds, 0) = <<>>
    BY <1>2, SaidUnfolds
  <2> QED
    BY <1>1, <1>r, <1>s, <2>1, Zenon DEF UnderWay, OutIsWhole
<1>8. Ascends(<<>>) /\ EndsIn(<<>>, <<>>) /\ DOMAIN <<>> = {}
  <2>1. <<>> \in Seq(Nat)
    OBVIOUS
  <2> QED
    BY <2>1, EmptyFits, Zenon
<1>9. TextsFit' /\ LastIsShown'
  BY <1>1, <1>5, <1>7, <1>8, Zenon DEF TextsFit, LastIsShown
<1>10. OutFits' /\ PoppedIsOver' /\ OutInOrder'
  BY <1>1, <1>6, <1>7, <1>8, Zenon DEF OutFits, PoppedIsOver, OutInOrder, InOrder
<1>11. NothingYet' /\ PartIsKnown'
  <2>1. link'.from + 1 .. read' = {}
    BY <1>n, <1>s
  <2> QED
    BY <1>1, <1>5, <2>1, Zenon DEF NothingYet, PartIsKnown
<1>12. ASSUME sent <= 2, NEW ms PROVE SaidIn(script, ms, sent) = <<>>
  <2>1. \A d \in 0 + 1 .. sent : script[d].type # "delta"
    <3> SUFFICES ASSUME NEW d \in 1 .. sent, script[d].type = "delta" PROVE FALSE
      OBVIOUS
    <3>1. d \in 1 .. Len(script)
      BY <1>2
    <3>2. d \in 3 .. Len(script) - 1
      BY <1>2, <3>1, WordsAreTokens
    <3> QED
      BY <1>2, <1>12, <3>2
  <2>2. 0 \in 0 .. Len(script) /\ sent \in 0 .. Len(script)
    BY <1>2
  <2>3. SaidIn(script, ms, sent) = SaidIn(script, ms, 0)
    BY <1>2, <2>1, <2>2, SaidSame
  <2> QED
    BY <1>2, <2>3, SaidUnfolds
<1>13. KnownWhole'
  <2> SUFFICES ASSUME sent <= 2 PROVE /\ ~ sent >= 3
                                      /\ \A m \in MessageIds : turn.visible[m] = SaidIn(script, {m}, sent)
    BY <1>1, <1>3, Zenon DEF KnownWhole
  <2> QED
    BY <1>2, <1>5, <1>12
<1>14. OutIsWhole'
  <2> SUFFICES ASSUME sent \in {0, 2} PROVE out = SaidIn(script, MessageIds, sent)
    BY <1>1, <1>3, Zenon DEF OutIsWhole
  <2>1. sent <= 2
    OBVIOUS
  <2> QED
    BY <1>7, <1>12, <2>1
<1>15. AskedIsKnown'
  <2> SUFFICES ASSUME sent = 0, sent >= 1 PROVE FALSE
    BY <1>1, <1>3, Zenon DEF AskedIsKnown
  <2> QED
    OBVIOUS
<1>16. how' # "finished" /\ how' # "idle" /\ how' # "polled"
  BY <1>1, Zenon
<1> QED
  BY <1>4, <1>9, <1>10, <1>11, <1>13, <1>14, <1>15, <1>16, Zenon DEF StreamInv, UnderWay, EndIsWhole

\* A set of numbers up to n has a greatest one.
LEMMA GreatestUpTo ==
    ASSUME NEW n \in Nat, NEW T, T \subseteq 0 .. n, T # {}
    PROVE  \E x \in T : \A y \in T : y <= x
<1> DEFINE U == {u \in Nat : n - u \in T}
<1>1. PICK t \in T : TRUE
  BY Zenon
<1>2. n - t \in U /\ U \subseteq Nat
  OBVIOUS
<1> HIDE DEF U
<1>3. IsWellFoundedOn(OpToRel(<, Nat), Nat)
  BY NatLessThanWellFounded, Zenon
<1>4. PICK u \in U : \A v \in U : ~ (<<v, u>> \in OpToRel(<, Nat))
  BY <1>2, <1>3, WFMin, Zenon
<1>a. \A x, y \in U : <<y, x>> \notin OpToRel(<, Nat) => x <= y
  BY <1>2 DEF OpToRel
<1>5. \A v \in U : u <= v
  BY <1>4, <1>a, Zenon
<1>6. n - u \in T /\ u \in Nat
  BY <1>4, Zenon DEF U
<1>7. ASSUME NEW y \in T PROVE y <= n - u
  <2>1. n - y \in U /\ y \in Nat
    BY DEF U
  <2>2. u <= n - y
    BY <1>5, <2>1
  <2> QED
    BY <1>6, <2>1, <2>2
<1> QED
  BY <1>6, <1>7

IsLatest(m, text) ==
    /\ m \in MessageIds /\ text = SaidIn(script, {m}, sent) /\ text \in Seq(Nat)
    /\ \A d \in 1 .. sent : script[d].type = "delta" => script[d].m <= m

\* The stored text that is read is that of the last message that says something.
LEMMA LatestIsLast ==
    ASSUME StreamShape
    PROVE  IsLatest(Latest.m, Latest.text) \/ (Latest.m = OldMessage /\ Latest.text = <<Before>>)
<1> DEFINE spoken == {m \in MessageIds : Said(m, sent) # <<>>}
           last == CHOOSE m \in spoken : \A k \in spoken : k <= m
<1>1. IsTurn(script) /\ Len(script) \in Nat /\ sent \in Nat /\ sent <= Len(script) /\ sent \in 0 .. Len(script)
  BY StreamFacts
<1>2. Latest = IF spoken = {} THEN [m |-> OldMessage, text |-> <<Before>>]
               ELSE [m |-> last, text |-> Said(last, sent)]
  BY DEF Latest
<1>3. \A m : Said(m, sent) = SaidIn(script, {m}, sent)
  BY SaidIsIn DEF Said
<1>4. CASE spoken = {}
  BY <1>2, <1>4
<1>5. CASE spoken # {}
  <2>1. spoken \subseteq 0 .. MaxMessages /\ MaxMessages \in Nat
    BY StreamAssumption DEF MessageIds
  <2>2. \E m \in spoken : \A k \in spoken : k <= m
    BY <1>5, <2>1, GreatestUpTo, Zenon
  <2>3. last \in spoken /\ \A k \in spoken : k <= last
    BY <2>2
  <2>4. Latest.m = last /\ Latest.text = SaidIn(script, {last}, sent) /\ last \in MessageIds
    BY <1>2, <1>3, <1>5, <2>3, Zenon
  <2>5. SaidIn(script, {last}, sent) \in Seq(Nat)
    BY <1>1, SaidIsText
  <2> HIDE DEF last
  <2>6. ASSUME NEW d \in 1 .. sent, script[d].type = "delta" PROVE script[d].m <= last
    <3> DEFINE k == script[d].m
    <3>1. d \in 1 .. Len(script)
      BY <1>1
    <3>2. k \in MessageIds
      BY <1>1, <2>6, <3>1, EventsInPlace
    <3>3. Spoken(script, Token(script, d), k, sent)
      BY <1>1, <2>6, <3>1, TurnIsEvents DEF Spoken, IsWord
    <3> HIDE DEF k
    <3>t. IsTurn(script) /\ sent \in 0 .. Len(script)
      BY <1>1
    <3>4. IsSaid(SaidIn(script, {k}, sent), script, k, sent)
      BY <3>t, SaidIsSpoken
    <3>5. ~ IsSaid(<<>>, script, k, sent)
      <4>1. DOMAIN <<>> = {}
        OBVIOUS
      <4> QED
        BY <3>3, <4>1 DEF IsSaid
    <3>6. SaidIn(script, {k}, sent) # <<>>
      BY <3>4, <3>5
    <3>7. k \in spoken
      BY <1>3, <3>2, <3>6
    <3> QED
      BY <2>3, <3>7 DEF k
  <2> QED
    BY <2>4, <2>5, <2>6 DEF IsLatest
<1> QED
  BY <1>4, <1>5

\* What is known of a message that is read whole is its beginning, or nothing is added.
LEMMA LatestGoesOn ==
    ASSUME StreamShape, UnderWay, NEW m, NEW text, IsLatest(m, text)
    PROVE  /\ MoreOf(m, text) = <<>> \/ Begins(turn.visible[m], text)
           /\ Begins(turn.visible[m], text) => MoreOf(m, text) = Drop(text, Len(turn.visible[m]))
<1> DEFINE seen == turn.visible[m]
           raw == turn.raw[m]
<1>1. m \in MessageIds /\ m \in TextIds /\ text \in Seq(Nat) /\ text = SaidIn(script, {m}, sent)
  BY StreamFacts DEF IsLatest
<1>2. raw \in Seq(Nat) /\ seen \in Seq(Nat)
  BY <1>1, StreamFacts
<1>3. Ascends(seen) /\ EndsIn(raw, seen) /\ \A i \in DOMAIN seen : Spoken(script, seen[i], m, read)
  BY <1>1 DEF UnderWay, TextsFit
<1>4. IsTurn(script) /\ sent \in 0 .. Len(script) /\ sent \in Nat /\ read \in Nat /\ read <= sent
  BY StreamFacts DEF StreamShape
<1>5. /\ Ascends(text)
      /\ \A t : Spoken(script, t, m, sent) => \E i \in DOMAIN text : text[i] = t
  <2>1. IsTurn(script) /\ sent \in 0 .. Len(script)
    BY <1>4
  <2>2. IsSaid(SaidIn(script, {m}, sent), script, m, sent)
    BY <2>1, SaidIsSpoken
  <2> QED
    BY <1>1, <2>2, Zenon DEF IsSaid
<1>6. \A i \in DOMAIN seen : \E j \in DOMAIN text : text[j] = seen[i]
  BY <1>3, <1>4, <1>5, SpokenStays
<1> HIDE DEF seen, raw
<1>7. /\ DOMAIN seen = 1 .. Len(seen) /\ Len(seen) \in Nat /\ \A i \in 1 .. Len(seen) : seen[i] \in Nat
      /\ Len(raw) \in Nat /\ DOMAIN text = 1 .. Len(text) /\ Len(text) \in Nat
      /\ \A i \in 1 .. Len(text) : text[i] \in Nat
  BY <1>1, <1>2, LenProperties, Zenon
<1>8. ASSUME raw # <<>>, Begins(raw, text) PROVE raw = seen
  <2>1. Len(raw) # 0
    BY <1>2, <1>8, EmptySeq
  <2>2. Len(raw) <= Len(text) /\ text[1] = raw[1]
    BY <1>7, <1>8, <2>1 DEF Begins
  <2>3. Len(raw) <= Len(seen) /\ \A i \in 1 .. Len(raw) : raw[i] = seen[Len(seen) - Len(raw) + i]
    BY <1>3 DEF EndsIn
  <2>4. Len(raw) = Len(seen)
    <3> SUFFICES ASSUME Len(raw) # Len(seen) PROVE FALSE
      OBVIOUS
    <3> DEFINE b == Len(seen) - Len(raw) + 1
    <3>1. b \in 1 .. Len(seen) /\ 1 < b /\ 1 \in 1 .. Len(seen) /\ 1 \in 1 .. Len(raw)
      BY <1>7, <2>1, <2>3
    <3>2. text[1] = seen[b]
      BY <2>2, <2>3, <3>1
    <3> HIDE DEF b
    <3>3. seen[1] < seen[b]
      BY <1>3, <1>7, <3>1 DEF Ascends
    <3>4. PICK j \in 1 .. Len(text) : text[j] = seen[1]
      BY <1>6, <1>7, <3>1
    <3>5. 1 \in 1 .. Len(text) /\ (j # 1 => 1 < j)
      BY <1>7, <3>4
    <3>6. text[1] <= text[j]
      BY <1>5, <1>7, <3>4, <3>5 DEF Ascends
    <3> QED
      BY <1>7, <3>1, <3>2, <3>3, <3>4, <3>5, <3>6
  <2>5. ASSUME NEW i \in 1 .. Len(seen) PROVE raw[i] = seen[i]
    <3>1. Len(seen) - Len(raw) + i = i /\ i \in 1 .. Len(raw)
      BY <1>7, <2>4
    <3> QED
      BY <2>3, <3>1
  <2> QED
    BY <1>2, <2>4, <2>5, SeqEqual
<1>9. /\ \/ MoreOf(m, text) = <<>>
         \/ raw # <<>> /\ Begins(raw, text) /\ MoreOf(m, text) = Drop(text, Len(raw))
         \/ Begins(seen, text) /\ MoreOf(m, text) = Drop(text, Len(seen))
      /\ (raw # <<>> /\ Begins(raw, text)) => MoreOf(m, text) = Drop(text, Len(raw))
      /\ (~ (raw # <<>> /\ Begins(raw, text)) /\ Begins(seen, text)) => MoreOf(m, text) = Drop(text, Len(seen))
  BY <1>1, MoreIsRest DEF raw, seen
<1>10. /\ MoreOf(m, text) = <<>> \/ Begins(seen, text)
       /\ Begins(seen, text) => MoreOf(m, text) = Drop(text, Len(seen))
  BY <1>8, <1>9
<1> QED
  BY <1>10 DEF seen

LEMMA JoinedProperties ==
    ASSUME NEW q \in Seq(Nat), NEW w \in Seq(Nat), NEW r, Joined(r, q, w)
    PROVE  /\ r \in Seq(Nat) /\ Len(r) = Len(q) + Len(w) /\ DOMAIN r = 1 .. Len(q) + Len(w)
           /\ DOMAIN q = 1 .. Len(q) /\ Len(q) \in Nat /\ DOMAIN w = 1 .. Len(w) /\ Len(w) \in Nat
           /\ \A i \in 1 .. Len(q) : r[i] = q[i]
           /\ \A i \in 1 .. Len(w) : r[Len(q) + i] = w[i]
           /\ \A i \in DOMAIN r : i \in DOMAIN q \/ (i - Len(q) \in DOMAIN w /\ r[i] = w[i - Len(q)])
<1>1. /\ r \in Seq(Nat) /\ Len(r) = Len(q) + Len(w)
      /\ \A i \in 1 .. Len(q) + Len(w) : r[i] = IF i <= Len(q) THEN q[i] ELSE w[i - Len(q)]
  BY ConcatProperties DEF Joined
<1>2. /\ DOMAIN r = 1 .. Len(r) /\ DOMAIN q = 1 .. Len(q) /\ Len(q) \in Nat
      /\ DOMAIN w = 1 .. Len(w) /\ Len(w) \in Nat
  BY <1>1, LenProperties
<1>3. ASSUME NEW i \in 1 .. Len(q) PROVE r[i] = q[i]
  BY <1>1, <1>2
<1>4. ASSUME NEW i \in 1 .. Len(w) PROVE r[Len(q) + i] = w[i]
  <2>1. Len(q) + i \in 1 .. Len(q) + Len(w) /\ ~ (Len(q) + i <= Len(q)) /\ Len(q) + i - Len(q) = i
    BY <1>2
  <2> QED
    BY <1>1, <2>1, SMTT(40)
<1>5. ASSUME NEW i \in DOMAIN r, i \notin DOMAIN q PROVE i - Len(q) \in DOMAIN w /\ r[i] = w[i - Len(q)]
  <2>1. i \in 1 .. Len(q) + Len(w) /\ ~ (i <= Len(q)) /\ i - Len(q) \in 1 .. Len(w)
    BY <1>1, <1>2, <1>5
  <2> QED
    BY <1>1, <1>2, <2>1
<1> QED
  BY <1>1, <1>2, <1>3, <1>4, <1>5

\* An order of words goes on with later ones.
LEMMA InOrderOn ==
    ASSUME NEW s, NEW k, NEW q \in Seq(Nat), NEW w \in Seq(Nat), NEW r, Joined(r, q, w),
           InOrder(s, q, k), InOrder(s, w, k),
           \A i \in DOMAIN q, j \in DOMAIN w :
              q[i] \in Words(s, k) /\ w[j] \in Words(s, k) => q[i] < w[j]
    PROVE  InOrder(s, r, k)
<1>1. /\ DOMAIN r = 1 .. Len(q) + Len(w) /\ DOMAIN q = 1 .. Len(q) /\ Len(q) \in Nat
      /\ DOMAIN w = 1 .. Len(w) /\ Len(w) \in Nat
      /\ \A i \in 1 .. Len(q) : r[i] = q[i]
      /\ \A i \in DOMAIN r : i \in DOMAIN q \/ (i - Len(q) \in DOMAIN w /\ r[i] = w[i - Len(q)])
  BY JoinedProperties
<1> SUFFICES ASSUME NEW i \in DOMAIN r, NEW j \in DOMAIN r, i < j, r[i] \in Words(s, k), r[j] \in Words(s, k)
             PROVE  r[i] < r[j]
  BY DEF InOrder
<1>2. i \in Int /\ j \in Int
  BY <1>1
<1>3. CASE i \in DOMAIN q /\ j \in DOMAIN q
  BY <1>1, <1>3 DEF InOrder
<1>4. CASE i \in DOMAIN q /\ j \notin DOMAIN q
  BY <1>1, <1>4
<1>5. CASE i \notin DOMAIN q /\ j \notin DOMAIN q
  <2>1. i - Len(q) < j - Len(q)
    BY <1>1, <1>2
  <2> QED
    BY <1>1, <1>5, <2>1 DEF InOrder
<1>6. CASE i \notin DOMAIN q /\ j \in DOMAIN q
  BY <1>1, <1>2, <1>6
<1> QED
  BY <1>3, <1>4, <1>5, <1>6

IsRest(w, v, t) ==
    /\ w \in Seq(Nat) /\ Len(w) = Len(t) - Len(v) /\ DOMAIN w = 1 .. Len(t) - Len(v)
    /\ \A i \in 1 .. Len(t) - Len(v) : w[i] = t[Len(v) + i]
    /\ Len(v) \in Nat /\ Len(t) \in Nat /\ Len(v) <= Len(t)
    /\ DOMAIN v = 1 .. Len(v) /\ DOMAIN t = 1 .. Len(t)
    /\ \A i \in 1 .. Len(v) : v[i] = t[i]

LEMMA DropIsRestOf ==
    ASSUME NEW v \in Seq(Nat), NEW t \in Seq(Nat), Begins(v, t)
    PROVE  IsRest(Drop(t, Len(v)), v, t)
<1>1. /\ Len(v) \in Nat /\ Len(t) \in Nat /\ DOMAIN v = 1 .. Len(v) /\ DOMAIN t = 1 .. Len(t)
      /\ Len(v) <= Len(t) /\ \A i \in 1 .. Len(v) : v[i] = t[i]
  BY LenProperties DEF Begins
<1>2. Len(v) \in 0 .. Len(t)
  BY <1>1
<1> DEFINE w == Drop(t, Len(v))
<1>3. w \in Seq(Nat) /\ Len(w) = Len(t) - Len(v) /\ \A i \in 1 .. Len(t) - Len(v) : w[i] = t[Len(v) + i]
  BY <1>2, DropIsRest
<1> HIDE DEF w
<1>4. DOMAIN w = 1 .. Len(t) - Len(v)
  BY <1>3, LenProperties
<1>5. IsRest(w, v, t)
  BY <1>1, <1>3, <1>4 DEF IsRest
<1> QED
  BY <1>5 DEF w

\* A text whose beginning was shown last is shown whole with its rest.
LEMMA RestEnds ==
    ASSUME NEW q \in Seq(Nat), NEW v, NEW t, NEW w, NEW r, IsRest(w, v, t), Joined(r, q, w), EndsIn(v, q)
    PROVE  EndsIn(t, r)
<1>1. /\ w \in Seq(Nat) /\ Len(w) = Len(t) - Len(v)
      /\ \A i \in 1 .. Len(t) - Len(v) : w[i] = t[Len(v) + i]
      /\ Len(v) \in Nat /\ Len(t) \in Nat /\ Len(v) <= Len(t)
      /\ \A i \in 1 .. Len(v) : v[i] = t[i]
  BY DEF IsRest
<1>2. /\ Len(r) = Len(q) + Len(w) /\ Len(q) \in Nat
      /\ \A i \in 1 .. Len(q) : r[i] = q[i]
      /\ \A i \in 1 .. Len(w) : r[Len(q) + i] = w[i]
  <2>1. w \in Seq(Nat)
    BY <1>1
  <2> QED
    BY <2>1, JoinedProperties
<1>3. Len(v) <= Len(q) /\ \A i \in 1 .. Len(v) : v[i] = q[Len(q) - Len(v) + i]
  BY DEF EndsIn
<1>4. Len(t) <= Len(r)
  BY <1>1, <1>2, <1>3
<1>5. ASSUME NEW i \in 1 .. Len(t) PROVE t[i] = r[Len(r) - Len(t) + i]
  <2>1. Len(r) - Len(t) + i = Len(q) - Len(v) + i
    BY <1>1, <1>2
  <2>2. CASE i <= Len(v)
    <3>1. i \in 1 .. Len(v) /\ Len(q) - Len(v) + i \in 1 .. Len(q)
      BY <1>1, <1>2, <1>3, <2>2
    <3> QED
      BY <1>1, <1>2, <1>3, <2>1, <3>1
  <2>3. CASE ~ (i <= Len(v))
    <3>1. i - Len(v) \in 1 .. Len(t) - Len(v) /\ Len(v) + (i - Len(v)) = i
          /\ Len(q) + (i - Len(v)) = Len(q) - Len(v) + i /\ i - Len(v) \in 1 .. Len(w)
      BY <1>1, <1>2, <2>3
    <3>2. r[Len(q) + (i - Len(v))] = w[i - Len(v)]
      BY <1>2, <3>1
    <3>3. w[i - Len(v)] = t[i]
      BY <1>1, <3>1, Zenon
    <3> QED
      BY <2>1, <3>1, <3>2, <3>3
  <2> QED
    BY <2>2, <2>3
<1> QED
  BY <1>4, <1>5 DEF EndsIn

LEMMA ReverseIsText ==
    ASSUME NEW q \in Seq(Nat)
    PROVE  /\ Reverse(q) \in Seq(Nat) /\ Len(Reverse(q)) = Len(q)
           /\ \A i \in 1 .. Len(q) : Reverse(q)[i] = q[Len(q) - i + 1]
<1>1. Len(q) \in Nat /\ \A i \in 1 .. Len(q) : q[i] \in Nat
  BY LenProperties
<1> DEFINE r == [i \in 1 .. Len(q) |-> q[(Len(q) - i) + 1]]
<1>2. Reverse(q) = r
  BY DEF Reverse
<1>3. \A i \in 1 .. Len(q) : q[(Len(q) - i) + 1] \in Nat
  <2> SUFFICES ASSUME NEW i \in 1 .. Len(q) PROVE q[(Len(q) - i) + 1] \in Nat
    OBVIOUS
  <2>1. (Len(q) - i) + 1 \in 1 .. Len(q)
    BY <1>1
  <2> QED
    BY <1>1, <2>1
<1>4. r \in [1 .. Len(q) -> Nat] /\ \A i \in 1 .. Len(q) : r[i] = q[Len(q) - i + 1]
  BY <1>3
<1> HIDE DEF r
<1>5. r \in Seq(Nat) /\ Len(r) = Len(q)
  BY <1>1, <1>4, SeqDef, LenProperties
<1> QED
  BY <1>2, <1>4, <1>5

LEMMA EndIsSuffix ==
    ASSUME NEW q \in Seq(Nat), NEW t \in Seq(Nat), EndsIn(q, t)
    PROVE  IsSuffix(q, t)
<1> DEFINE rq == Reverse(q)
           rt == Reverse(t)
<1>1. /\ rq \in Seq(Nat) /\ Len(rq) = Len(q) /\ \A i \in 1 .. Len(q) : rq[i] = q[Len(q) - i + 1]
      /\ rt \in Seq(Nat) /\ Len(rt) = Len(t) /\ \A i \in 1 .. Len(t) : rt[i] = t[Len(t) - i + 1]
  BY ReverseIsText
<1> HIDE DEF rq, rt
<1>2. /\ Len(q) \in Nat /\ Len(t) \in Nat /\ Len(q) <= Len(t)
      /\ \A i \in 1 .. Len(q) : q[i] = t[Len(t) - Len(q) + i]
  BY LenProperties DEF EndsIn
<1>3. ASSUME NEW i \in 1 .. Len(q) PROVE rt[i] = rq[i]
  <2>1. i \in 1 .. Len(t) /\ Len(q) - i + 1 \in 1 .. Len(q)
        /\ Len(t) - Len(q) + (Len(q) - i + 1) = Len(t) - i + 1
    <3>1. Len(q) \in Nat /\ Len(t) \in Nat /\ Len(q) <= Len(t)
      BY <1>2
    <3>2. i \in 1 .. Len(t)
      BY <3>1
    <3>3. Len(q) - i + 1 \in 1 .. Len(q)
      BY <3>1
    <3>4. Len(t) - Len(q) + (Len(q) - i + 1) = Len(t) - i + 1
      BY <3>1
    <3> QED
      BY <3>2, <3>3, <3>4
  <2>2. rq[i] = q[Len(q) - i + 1] /\ rt[i] = t[Len(t) - i + 1]
    BY <1>1, <2>1
  <2>3. q[Len(q) - i + 1] = t[Len(t) - Len(q) + (Len(q) - i + 1)]
    BY <1>2, <2>1
  <2> QED
    BY <2>1, <2>2, <2>3
<1>4. Begins(rq, rt)
  BY <1>1, <1>2, <1>3 DEF Begins
<1>5. IsPrefix(rq, rt)
  BY <1>1, <1>4, PrefixBegins
<1> QED
  BY <1>5 DEF IsSuffix, rq, rt

\* What is read of a message that is not over goes on where it was left.
LEMMA LatestInOrder ==
    ASSUME StreamShape, UnderWay, NEW m, NEW text, IsLatest(m, text),
           NEW r, Joined(r, out, MoreOf(m, text)), NEW k \in MessageIds,
           k = m => m \notin turn.popped
    PROVE  InOrder(script, r, k)
<1> DEFINE more == MoreOf(m, text)
           seen == turn.visible[m]
<1>1. m \in MessageIds /\ m \in TextIds /\ text \in Seq(Nat) /\ text = SaidIn(script, {m}, sent)
  BY StreamFacts DEF IsLatest
<1>2. more \in Seq(Nat) /\ seen \in Seq(Nat) /\ out \in Seq(Nat) /\ IsTurn(script) /\ sent \in 0 .. Len(script)
  BY <1>1, MoreIsRest, StreamFacts DEF StreamShape
<1>3. InOrder(script, out, k)
  BY DEF UnderWay, OutFits
<1>4. IsSaid(text, script, m, sent)
  BY <1>1, <1>2, SaidIsSpoken
<1>5. Ascends(text) /\ \A i \in DOMAIN text : text[i] \in Words(script, m)
  BY <1>4, SpokenIsWord DEF IsSaid
<1>6. more = <<>> \/ IsRest(more, seen, text)
  BY <1>1, <1>2, LatestGoesOn, DropIsRestOf
<1>7. m \notin turn.popped =>
         \A i \in DOMAIN out : out[i] \in Words(script, m) => \E j \in DOMAIN seen : seen[j] = out[i]
  BY <1>1 DEF UnderWay, OutFits
<1>8. Joined(r, out, more)
  OBVIOUS
<1> HIDE DEF more, seen
<1>9. CASE more = <<>>
  <2>1. r = out
    BY <1>2, <1>8, <1>9, NoMore DEF Joined
  <2> QED
    BY <1>3, <2>1
<1>10. CASE IsRest(more, seen, text)
  <2>1. /\ DOMAIN more = 1 .. Len(text) - Len(seen)
        /\ \A i \in 1 .. Len(text) - Len(seen) : more[i] = text[Len(seen) + i]
        /\ Len(seen) \in Nat /\ Len(text) \in Nat /\ Len(seen) <= Len(text)
        /\ DOMAIN seen = 1 .. Len(seen) /\ DOMAIN text = 1 .. Len(text)
        /\ \A i \in 1 .. Len(seen) : seen[i] = text[i]
    BY <1>10 DEF IsRest
  <2>2. \A i \in DOMAIN more : Len(seen) + i \in DOMAIN text /\ more[i] = text[Len(seen) + i]
    BY <2>1
  <2>3. \A i \in DOMAIN more : more[i] \in Words(script, m)
    BY <1>5, <2>2
  <2>4. CASE k # m
    <3>1. \A i \in DOMAIN more : more[i] \notin Words(script, k)
      BY <1>2, <2>3, <2>4, WordsOfOne
    <3>2. InOrder(script, more, k)
      BY <3>1 DEF InOrder
    <3> QED
      BY <1>2, <1>3, <1>8, <3>1, <3>2, InOrderOn
  <2>5. CASE k = m
    <3>1. ASSUME NEW i \in DOMAIN more, NEW j \in DOMAIN more, i < j PROVE more[i] < more[j]
      <4>1. Len(seen) + i < Len(seen) + j
        BY <2>1, <3>1
      <4>2. Len(seen) + i \in DOMAIN text /\ Len(seen) + j \in DOMAIN text
        BY <2>2
      <4>3. text[Len(seen) + i] < text[Len(seen) + j]
        BY <1>5, <4>1, <4>2 DEF Ascends
      <4> QED
        BY <2>2, <4>3
    <3>2. InOrder(script, more, k)
      BY <3>1 DEF InOrder
    <3>3. ASSUME NEW i \in DOMAIN out, NEW j \in DOMAIN more, out[i] \in Words(script, m)
          PROVE  out[i] < more[j]
      <4>1. PICK a \in DOMAIN seen : seen[a] = out[i]
        BY <1>7, <2>5, <3>3
      <4>2. a \in DOMAIN text /\ text[a] = out[i] /\ a < Len(seen) + j
        BY <2>1, <4>1
      <4>3. Len(seen) + j \in DOMAIN text /\ more[j] = text[Len(seen) + j]
        BY <2>2
      <4> QED
        BY <1>5, <4>2, <4>3 DEF Ascends
    <3> QED
      BY <1>2, <1>3, <1>8, <2>5, <3>2, <3>3, InOrderOn
  <2> QED
    BY <2>4, <2>5
<1> QED
  BY <1>6, <1>9, <1>10

\* If the answer was followed from its beginning, its last message ends what is put out.
LEMMA LatestIsShown ==
    ASSUME StreamShape, UnderWay, NEW m, NEW text, IsLatest(m, text), link.from <= 2,
           NEW r, Joined(r, out, MoreOf(m, text))
    PROVE  IsSuffix(text, r)
<1> DEFINE seen == turn.visible[m]
<1>1. m \in MessageIds /\ m \in TextIds /\ text \in Seq(Nat) /\ text = SaidIn(script, {m}, sent)
  BY StreamFacts DEF IsLatest
<1>2. seen \in Seq(Nat) /\ out \in Seq(Nat) /\ IsTurn(script) /\ MoreOf(m, text) \in Seq(Nat)
  BY <1>1, StreamFacts, MoreIsRest
<1>3. /\ sent \in Nat /\ read \in Nat /\ read <= sent /\ read \in 0 .. Len(script)
      /\ sent <= Len(script) /\ Len(script) \in Nat
  BY StreamFacts
<1>4. Begins(seen, text)
  <2>1. CASE m \in turn.popped
    <3>1. seen = <<>>
      BY <2>1 DEF UnderWay, PoppedIsOver
    <3>2. Len(<<>>) = 0 /\ Len(text) \in Nat
      BY <1>1, LenProperties
    <3> QED
      BY <3>1, <3>2 DEF Begins
  <2>2. CASE m \notin turn.popped
    <3>1. seen = SaidIn(script, {m}, read)
      BY <1>1, <2>2 DEF UnderWay, KnownWhole
    <3>2. sent \in read .. Len(script)
      BY <1>3
    <3>3. Begins(SaidIn(script, {m}, read), SaidIn(script, {m}, sent))
      BY <1>2, <1>3, <3>2, SaidBegins
    <3> QED
      BY <1>1, <3>1, <3>3
  <2> QED
    BY <2>1, <2>2
<1>5. \A d \in 1 .. read : script[d].type = "delta" => script[d].m <= m
  <2>1. \A d \in 1 .. read : d \in 1 .. sent
    BY <1>3
  <2> QED
    BY <2>1 DEF IsLatest
<1>6. EndsIn(seen, out)
  BY <1>1, <1>5 DEF UnderWay, LastIsShown
<1>7. MoreOf(m, text) = Drop(text, Len(seen))
  BY <1>4, LatestGoesOn
<1>8. IsRest(MoreOf(m, text), seen, text)
  BY <1>1, <1>2, <1>4, <1>7, DropIsRestOf
<1>9. r \in Seq(Nat)
  BY <1>2, JoinedProperties
<1>10. EndsIn(text, r)
  BY <1>2, <1>6, <1>8, RestEnds
<1> QED
  BY <1>1, <1>9, <1>10, EndIsSuffix

\* The turn ends with the stored text of the last message.
Snapshots ==
    /\ how = "under way" /\ TakeSnapshot /\ how' \in {"polled", "silent"}
    /\ UNCHANGED <<script, sent, link, read>> /\ (how' = "polled" => sent = Len(script))

LEMMA SnapshotStep ==
    ASSUME StreamInv, Snapshots
    PROVE  StreamInv'
<1> DEFINE m == Latest.m
           text == Latest.text
           more == MoreOf(m, text)
           known == turn.parts \cup {<<m, 0>>}
<1>1. /\ StreamShape /\ UnderWay /\ script' = script /\ sent' = sent /\ link' = link /\ read' = read
      /\ how' = "polled" => sent = Len(script)
  BY Zenon DEF Snapshots, StreamInv
<1>2. IsLatest(m, text) \/ (m = OldMessage /\ text = <<Before>>)
  BY <1>1, LatestIsLast
<1>3. Before \in Nat /\ <<Before>> \in Seq(Nat)
  BY StreamAssumption
<1> HIDE DEF m, text
<1>4. m \in TextIds /\ text \in Seq(Nat) /\ m \in Int
  <2>1. OldMessage \in Int /\ MessageIds \subseteq Int
    BY StreamAssumption DEF MessageIds, OldMessage
  <2>2. MessageIds \subseteq TextIds /\ OldMessage \in TextIds
    BY DEF TextIds
  <2>3. CASE IsLatest(m, text)
    <3>1. m \in MessageIds /\ text \in Seq(Nat)
      BY <2>3 DEF IsLatest
    <3> QED
      BY <2>1, <2>2, <3>1
  <2>4. CASE m = OldMessage /\ text = <<Before>>
    BY <1>3, <2>1, <2>2, <2>4
  <2> QED
    BY <1>2, <2>3, <2>4
<1>5. known \subseteq Int \X Nat
  <2>1. turn.parts \subseteq Int \X Nat
    BY <1>1, StreamFacts
  <2> QED
    BY <1>4, <2>1
<1>6. Reconcile(m, text, known)
  BY Zenon DEF Snapshots, TakeSnapshot, m, text
<1> HIDE DEF known
<1>7. /\ out' = out \o MoreOf(m, text) /\ out' \in Seq(Nat) /\ turn' \in TurnLocals
      /\ turn'.popped = turn.popped
  BY <1>1, <1>4, <1>5, <1>6, Reconciled
<1>8. Joined(out', out, more) /\ more \in Seq(Nat) /\ out \in Seq(Nat)
  BY <1>1, <1>4, <1>7, MoreIsRest, StreamFacts DEF Joined
<1>9. how' \in TurnEnds /\ how' # "under way" /\ how' # "finished" /\ how' # "idle" /\ Recovered'
  BY Zenon DEF Snapshots, TurnEnds, Recovered
<1>10. StreamShape'
  BY <1>1, <1>7, <1>9, Zenon DEF StreamShape
<1>11. OutInOrder'
  <2> SUFFICES ASSUME NEW k \in MessageIds, k \notin turn.popped PROVE InOrder(script, out', k)
    BY <1>1, <1>7, <1>9, Zenon DEF OutInOrder
  <2>1. CASE IsLatest(m, text)
    BY <1>1, <1>8, <2>1, LatestInOrder
  <2>2. CASE m = OldMessage /\ text = <<Before>>
    <3>1. InOrder(script, out, k) /\ IsTurn(script)
      BY <1>1, StreamFacts DEF UnderWay, OutFits
    <3>2. more = <<>> \/ more = <<Before>>
      BY <1>1, <1>3, <1>4, <2>2, MoreOfOne
    <3>3. Before \notin Words(script, k)
      BY <3>1, NeverAsked
    <3>4. \A i \in DOMAIN more : more[i] \notin Words(script, k)
      <4>1. DOMAIN <<>> = {} /\ DOMAIN <<Before>> = {1} /\ <<Before>>[1] = Before
        OBVIOUS
      <4> QED
        BY <3>2, <3>3, <4>1
    <3>5. InOrder(script, more, k)
      BY <3>4 DEF InOrder
    <3> HIDE DEF more
    <3> QED
      BY <1>8, <3>1, <3>4, <3>5, InOrderOn
  <2> QED
    BY <1>2, <2>1, <2>2
<1>12. EndIsWhole'
  BY <1>9, Zenon DEF EndIsWhole
<1>13. PolledIsWhole'
  <2>1. Latest' = Latest
    BY <1>1 DEF Latest, Said, SaidOf
  <2>2. Latest.m = m /\ Latest.text = text
    BY DEF m, text
  <2> SUFFICES ASSUME link.from <= 2, m # OldMessage PROVE IsSuffix(text, out')
    BY <1>1, <2>1, <2>2 DEF PolledIsWhole
  <2>3. IsLatest(m, text)
    BY <1>2
  <2> QED
    BY <1>1, <1>8, <2>3, LatestIsShown
<1> QED
  BY <1>1, <1>9, <1>10, <1>11, <1>12, <1>13, Zenon DEF StreamInv

\* Whatever opencode, the connection and the backend do, the backend knows what
\* it has put out.
LEMMA StreamStep ==
    ASSUME StreamInv, [StreamNext]_streamVars
    PROVE  StreamInv'
<1>1. CASE Serve
  BY <1>1, ServeStep
<1>2. CASE OpenLink
  BY <1>2, OpenStep
<1>3. CASE Break
  <2>1. Quiet
    BY <1>3, Zenon DEF Break, Quiet, TurnEnds
  <2> QED
    BY <2>1, QuietStep
<1>4. CASE Handle
  BY <1>4, HandleStep
<1>5. CASE PollIdle
  <2>1. CASE TakeSnapshot /\ EndTurn("polled")
    <3>1. Snapshots
      BY <1>5, <2>1, Zenon DEF PollIdle, Waiting, Following, Snapshots, EndTurn
    <3> QED
      BY <3>1, SnapshotStep
  <2>2. CASE EndTurn("polled empty") /\ UNCHANGED <<turn, out>>
    <3>1. Quiet
      BY <1>5, <2>2, Zenon DEF PollIdle, Waiting, Following, Quiet, EndTurn, TurnEnds
    <3> QED
      BY <3>1, QuietStep
  <2> QED
    BY <1>5, <2>1, <2>2, Zenon DEF PollIdle
<1>6. CASE NoProgress
  <2>1. CASE TakeSnapshot /\ EndTurn("silent")
    <3>1. Snapshots
      BY <1>6, <2>1, Zenon DEF NoProgress, Waiting, Following, Snapshots, EndTurn
    <3> QED
      BY <3>1, SnapshotStep
  <2>2. CASE EndTurn("stalled") /\ UNCHANGED <<turn, out>>
    <3>1. Quiet
      BY <1>6, <2>2, Zenon DEF NoProgress, Waiting, Following, Quiet, EndTurn, TurnEnds
    <3> QED
      BY <3>1, QuietStep
  <2> QED
    BY <1>6, <2>1, <2>2 DEF NoProgress
<1>7. CASE LinkFailed
  <2>1. Quiet
    BY <1>7, Zenon DEF LinkFailed, Waiting, Following, Quiet, EndTurn, TurnEnds
  <2> QED
    BY <2>1, QuietStep
<1>8. CASE TimeIsUp
  <2>1. Quiet
    BY <1>8, Zenon DEF TimeIsUp, Following, Quiet, EndTurn, TurnEnds
  <2> QED
    BY <2>1, QuietStep
<1>9. CASE UNCHANGED streamVars
  <2>1. /\ script' = script /\ sent' = sent /\ link' = link /\ read' = read /\ turn' = turn
        /\ out' = out /\ how' = how
    BY <1>9 DEF streamVars
  <2>2. StreamShape' /\ (how' = "under way" => UnderWay')
    BY <2>1, UnderWayStays, Zenon DEF StreamInv, StreamShape
  <2>3. OutInOrder' /\ EndIsWhole'
    BY <2>1, Zenon DEF StreamInv, OutInOrder, EndIsWhole, OutIsWhole, Recovered
  <2>4. how' = "polled" => sent' = Len(script') /\ PolledIsWhole'
    <3>1. Latest' = Latest
      BY <2>1 DEF Latest, Said, SaidOf
    <3> QED
      BY <2>1, <3>1 DEF StreamInv, PolledIsWhole
  <2> QED
    BY <2>2, <2>3, <2>4, Zenon DEF StreamInv
<1> QED
  BY <1>1, <1>2, <1>3, <1>4, <1>5, <1>6, <1>7, <1>8, <1>9 DEF StreamNext

\* What the user sees follows from what the backend knows.
LEMMA StreamIsTrue ==
    ASSUME StreamInv
    PROVE  SpokenOnceInOrder /\ NothingIsMissed /\ PolledIsWhole
<1>1. /\ StreamShape /\ IsTurn(script) /\ sent \in 0 .. Len(script) /\ read \in 0 .. Len(script)
      /\ sent \in read .. Len(script)
  <2>1. StreamShape
    BY Zenon DEF StreamInv
  <2>2. /\ IsTurn(script) /\ Len(script) \in Nat /\ sent \in Nat /\ read \in Nat
        /\ read <= sent /\ sent <= Len(script)
    BY <2>1, StreamFacts
  <2> QED
    BY <2>1, <2>2
<1>2. \A ms, n : SaidOf(ms, n) = SaidIn(script, ms, n)
  BY SaidIsIn
<1>3. SpokenOnceInOrder
  <2> SUFFICES ASSUME NEW m \in MessageIds, ~ (m \in turn.popped /\ Recovered),
                      NEW i \in DOMAIN out, NEW j \in DOMAIN out, i < j,
                      out[i] \in Range(Said(m, sent)), out[j] \in Range(Said(m, sent))
               PROVE  out[i] < out[j]
    BY DEF SpokenOnceInOrder
  <2>1. InOrder(script, out, m)
    BY Zenon DEF StreamInv, OutInOrder
  <2>2. IsSaid(SaidIn(script, {m}, sent), script, m, sent)
    BY <1>1, SaidIsSpoken
  <2>3. Said(m, sent) = SaidIn(script, {m}, sent)
    BY <1>2 DEF Said
  <2>4. \A t \in Range(Said(m, sent)) : t \in Words(script, m)
    BY <2>2, <2>3, SpokenIsWord DEF IsSaid, Range
  <2> QED
    BY <2>1, <2>4 DEF InOrder
<1>4. NothingIsMissed
  <2> SUFFICES ASSUME how \in {"finished", "idle"}, link.from \in {0, 2}
               PROVE  out = SaidOf(MessageIds, sent)
    BY DEF NothingIsMissed
  <2>1. out = SaidIn(script, MessageIds, read)
    BY Zenon DEF StreamInv, EndIsWhole, OutIsWhole
  <2>2. \A d \in read + 1 .. Len(script) : script[d].type # "delta"
    BY Zenon DEF StreamInv, EndIsWhole
  <2>3. \A d \in read + 1 .. sent : script[d].type # "delta"
    <3>1. \A d \in read + 1 .. sent : d \in read + 1 .. Len(script)
      BY <1>1
    <3> QED
      BY <2>2, <3>1
  <2>4. SaidIn(script, MessageIds, sent) = SaidIn(script, MessageIds, read)
    BY <1>1, <2>3, SaidSame
  <2> QED
    BY <1>2, <2>1, <2>4
<1>5. PolledIsWhole
  <2>1. CASE how = "polled"
    BY <2>1 DEF StreamInv
  <2>2. CASE how # "polled"
    BY <2>2 DEF PolledIsWhole
  <2> QED
    BY <2>1, <2>2
<1> QED
  BY <1>3, <1>4, <1>5

LEMMA StreamPart ==
    ASSUME [PlatformNext]_platform
    PROVE  part' = part /\ (part = "stream" => [StreamNext]_streamVars)
BY DEF PlatformNext, platform, streamVars

\* However the event stream, the polled status and the stored messages overlap, the
\* user sees each word of a message once and in its place, and nothing is missed of
\* an answer that was followed (AnswerIsTrue; run_turn, _reconcile_text_part_update
\* and _stream_events_with_status_poll).
THEOREM AnswersStayTrue == PlatformSpec => []AnswerIsTrue
<1> DEFINE I == part = "stream" => StreamInv
<1>1. PlatformInit => I
  BY StreamStart DEF PlatformInit
<1>2. I /\ [PlatformNext]_platform => I'
  BY StreamPart, StreamStep
<1>3. I => AnswerIsTrue
  BY StreamIsTrue DEF AnswerIsTrue
<1> QED
  BY <1>1, <1>2, <1>3, PTL DEF PlatformSpec
=============================================================================

----------------------------- MODULE WikiImport -----------------------------
(***************************************************************************)
(* Imports into a wiki space (wiki/imports): the import session, whose     *)
(* files come one by one and become nodes together once the last of them   *)
(* is settled, and the older import job, which is applied as a whole.      *)
(*                                                                         *)
(* Requests overlap.  A request reads what it acts on first; from its      *)
(* first write to its commit it holds the database alone.  So a request    *)
(* here is a reading step, whose refusals are its guards, and a writing    *)
(* step that still sees what was read.                                     *)
(*                                                                         *)
(* A path is a sequence of names as they normalise.                        *)
(***************************************************************************)
EXTENDS Integers, Sequences, FiniteSets, NoValue

CONSTANTS
    N,          \* files that are imported, in the order of the list
    Source,     \* per file where it lies on the user's side
    Assets,     \* files that are not Markdown
    Broken,     \* Markdown files whose text cannot be decoded
    Bases,      \* folders that can be imported into
    SystemFolders,  \* the system folders, which users cannot delete
    UserPaths,  \* where users make pages meanwhile
    Requests    \* requests that can be open at a time

Files == 1..N

ASSUME ImportAssumption ==
    /\ N \in Nat /\ Assets \subseteq Files /\ Broken \subseteq Files \ Assets
    /\ \A i \in Files : Source[i] \in Seq(Nat) /\ Source[i] # <<>>
    /\ Bases \subseteq Seq(Nat) /\ None \notin Nat
    /\ SystemFolders \cup UserPaths \subseteq Seq(Nat) \ {<<>>}

VARIABLES
    nodes,   \* the active nodes of the space: path and whose they are
    imp,     \* the import session: status, base, the action set for conflicts
    item,    \* per file the status of its row and whether its node is noted
    job,     \* the import job: status and base
    inreq    \* per request what it does and what it has read

importVars == <<nodes, imp, item, job, inreq>>

\* Whose a node is: a file's of the session, a file's of the job, or neither.
Folder == 0
User == -1
JobOf(i) == N + i
NodeAt(path, by) == [path |-> path, by |-> by]
Taken(ns) == {n.path : n \in ns}
Below(path, top) == Len(path) >= Len(top) /\ SubSeq(path, 1, Len(top)) = top
Prefixes(path) == {SubSeq(path, 1, k) : k \in 1..Len(path)}
NoRequest == [op |-> "none", i |-> 0, default |-> None, rows |-> <<>>]
ItemRow(status) == [status |-> status, made |-> FALSE]

ImportInit ==
    /\ nodes = {NodeAt(p, Folder) : p \in SystemFolders \cup UNION {Prefixes(b) : b \in Bases}}
    /\ imp = [status |-> "none", base |-> <<>>, default |-> None]
    /\ item = [i \in Files |-> ItemRow("absent")]
    /\ job = [status |-> "none", base |-> <<>>]
    /\ inreq = [r \in Requests |-> NoRequest]

-----------------------------------------------------------------------------
(* Making nodes of files *)

\* A directory import drops the outermost name of the user's directory.
Inner(i) == IF Len(Source[i]) > 1 THEN Tail(Source[i]) ELSE Source[i]
Target(i) == imp.base \o Inner(i)
JobTarget(i) == job.base \o Source[i]

\* Folders on the way to a target are looked up by their path.  One that is
\* missing is made under the last one found, with the name that stands at the
\* same place of the source.
\* Mutant of FolderName: off by one in the source.
NextFolderName(i, t, k) == IF k + 1 < Len(Source[i]) THEN Source[i][k + 1] ELSE t[k]
FolderName(i, t, k) == IF k < Len(Source[i]) THEN Source[i][k] ELSE t[k]
EnsureFolders(ns, i, t) ==
    LET walk[k \in 0..(Len(t) - 1)] ==
          IF k = 0 THEN [ns |-> ns, at |-> <<>>, ok |-> TRUE]
          ELSE LET w == walk[k - 1]
                   here == SubSeq(t, 1, k)
                   new == Append(w.at, FolderName(i, t, k))
               IN IF ~w.ok THEN w
                  ELSE IF here \in Taken(w.ns) THEN [w EXCEPT !.at = here]
                  ELSE IF new \in Taken(w.ns) THEN [w EXCEPT !.ok = FALSE]
                  ELSE [w EXCEPT !.ns = @ \cup {NodeAt(new, Folder)}, !.at = new]
    IN walk[Len(t) - 1]

\* One file: its target must be free.  An asset gets the target as its path, a
\* document the path of the folder that was found and its own name.
Place(ns, i, t, by) ==
    LET f == EnsureFolders(ns, i, t)
        path == IF i \in Assets THEN t ELSE Append(f.at, t[Len(t)])
    IN IF t \in Taken(ns) THEN [ns |-> ns, ok |-> FALSE]
       ELSE IF ~f.ok \/ path \in Taken(f.ns) THEN [ns |-> f.ns, ok |-> FALSE]
       ELSE [ns |-> f.ns \cup {NodeAt(path, by)}, ok |-> TRUE]

\* All files of a set in their order, up to the first that fails.
PlaceAll(ns, files, target(_), by(_)) ==
    LET run[k \in 0..N] ==
          IF k = 0 THEN [ns |-> ns, ok |-> TRUE]
          ELSE IF ~run[k - 1].ok \/ k \notin files THEN run[k - 1]
          ELSE Place(run[k - 1].ns, k, target(k), by(k))
    IN run[N]

\* The nodes are made first, then the documents are published in order.
Itself(i) == i
Materialize(rows, ns) ==
    LET files == {i \in Files : rows[i].status = "uploaded"}
        placed == PlaceAll(ns, files, Target, Itself)
        broken == files \cap Broken
        noted == {i \in files : \E n \in placed.ns \ ns : n.by = i
                    /\ (i \in Assets \/ (placed.ok /\ \A b \in broken : i < b))}
    IN [ns |-> placed.ns, ok |-> placed.ok /\ broken = {},
        rows |-> [i \in Files |->
                    IF i \in noted THEN [rows[i] EXCEPT !.made = TRUE] ELSE rows[i]]]

\* Mutant of Ready: conflicts are no reason to wait.
ReadyDespiteConflicts(rows) ==
    \A i \in Files : rows[i].status \notin {"pending", "failed"}
Ready(rows) ==
    \A i \in Files : rows[i].status \notin {"pending", "conflict", "failed"}

Overwrite(ns, paths) == {n \in ns : \A p \in paths : ~Below(n.path, p)}

-----------------------------------------------------------------------------
(* The session *)

CreateSession(base) ==
    /\ imp.status = "none"
    /\ base = <<>> \/ base \in Taken(nodes)
    /\ imp' = [imp EXCEPT !.status = "running", !.base = base]
    /\ UNCHANGED <<nodes, item, job, inreq>>

\* A scan makes all rows anew, whatever the session is in.  A request that has
\* read one of the old rows fails when it writes it.
ScanAs(included, status) ==
    /\ imp.status # "none"
    /\ item' = [i \in Files |-> ItemRow(IF i \in included THEN status ELSE "ignored")]
    /\ inreq' = [r \in Requests |->
         IF inreq[r].op \in {"cancel", "apply"} THEN inreq[r] ELSE NoRequest]
    /\ UNCHANGED <<nodes, imp, job>>
\* Mutant of ScanSession: another status than uploads start from.
ScanAsUploading(included) == ScanAs(included, "uploading")
ScanSession(included) == ScanAs(included, "pending")

Reads(r, op, i) ==
    /\ inreq[r] = NoRequest
    /\ inreq' = [inreq EXCEPT ![r] =
         [op |-> op, i |-> i, default |-> imp.default, rows |-> item]]
    /\ UNCHANGED <<nodes, imp, item, job>>

WithStatus(statuses) == {i \in Files : item[i].status \in statuses}

AskUpload(r, i) ==
    imp.status = "running" /\ i \in WithStatus({"pending", "failed"}) /\ Reads(r, "upload", i)
AskRetry(r, i) ==
    imp.status = "running" /\ i \in WithStatus({"failed"}) /\ Reads(r, "retry", i)
AskResolve(r, i, op) ==
    imp.status = "running" /\ i \in WithStatus({"conflict"}) /\ Reads(r, op, i)
AskRetryAll(r) ==
    imp.status = "running" /\ WithStatus({"failed"}) # {} /\ Reads(r, "retry_all", 0)
AskBulk(r, op) ==
    imp.status = "running" /\ WithStatus({"conflict"}) # {} /\ Reads(r, op, 0)
\* Mutant of AskCancel: a completed session can be cancelled.
AskCancelAny(r) == imp.status # "none" /\ Reads(r, "cancel", 0)
AskCancel(r) ==
    imp.status \in {"running", "cancelled"} /\ Reads(r, "cancel", 0)

Answered(r) == inreq' = [inreq EXCEPT ![r] = NoRequest]

\* The last write of a request: when nothing is open in the rows it sees, the
\* import is carried out.  An upload or a retry that fails in it keeps what it
\* has made and marks the one file; a decision that fails is rolled back whole.
Finish(r, seen, rows, ns, default, failed) ==
    LET result == Materialize(seen, ns)
        made == [i \in Files |-> [rows[i] EXCEPT !.made = @ \/ result.rows[i].made]]
    IN /\ Answered(r) /\ UNCHANGED job
       /\ \/ /\ ~Ready(seen)
             /\ nodes' = ns /\ item' = rows /\ imp' = [imp EXCEPT !.default = default]
          \/ /\ Ready(seen) /\ result.ok
             /\ nodes' = result.ns /\ item' = made
             /\ imp' = [imp EXCEPT !.status = "completed", !.default = default]
          \/ /\ Ready(seen) /\ ~result.ok /\ failed # 0
             /\ nodes' = result.ns
             /\ item' = [made EXCEPT ![failed].status = "failed"]
             /\ imp' = [imp EXCEPT !.default = default]
          \/ /\ Ready(seen) /\ ~result.ok /\ failed = 0
             /\ UNCHANGED <<nodes, item, imp>>

\* The rows of a request's session are read again after its first write; only
\* a row it has read before keeps the status it had then.
Marked(rows, files, status) ==
    [i \in Files |-> IF i \in files THEN [rows[i] EXCEPT !.status = status] ELSE rows[i]]

UploadSeeing(r, others, action) ==
    LET i == inreq[r].i
        taken == Target(i) \in Taken(nodes)
        status == IF ~taken \/ action = "overwrite" THEN "uploaded"
                  ELSE IF action = "skip" THEN "skipped" ELSE "conflict"
        ns == IF taken /\ action = "overwrite" THEN Overwrite(nodes, {Target(i)}) ELSE nodes
    IN /\ inreq[r].op = "upload"
       /\ Finish(r, Marked(others, {i}, status), Marked(item, {i}, status), ns, imp.default, i)
\* Mutant of UploadItem: the other files as they were when it began.
UploadStale(r) == UploadSeeing(r, inreq[r].rows, inreq[r].default)
\* Mutant of UploadItem: a conflict is overwritten unless the user said skip.
UploadOver(r) ==
    UploadSeeing(r, item, IF inreq[r].default = "skip" THEN "skip" ELSE "overwrite")
UploadItem(r) == UploadSeeing(r, item, inreq[r].default)

RetryItem(r) ==
    LET rows == Marked(item, {inreq[r].i}, "uploaded")
    IN inreq[r].op = "retry" /\ Finish(r, rows, rows, nodes, imp.default, inreq[r].i)

ResolveItem(r) ==
    LET i == inreq[r].i
        rows == Marked(item, {i}, IF inreq[r].op = "skip" THEN "skipped" ELSE "uploaded")
        ns == IF inreq[r].op = "skip" THEN nodes ELSE Overwrite(nodes, {Target(i)})
    IN inreq[r].op \in {"skip", "overwrite"} /\ Finish(r, rows, rows, ns, imp.default, 0)

Was(r, status) == {i \in Files : inreq[r].rows[i].status = status}
First(files) == CHOOSE i \in files : \A j \in files : i <= j

RetryFailedItems(r) ==
    LET files == Was(r, "failed")
    IN /\ inreq[r].op = "retry_all"
       /\ Finish(r, Marked(inreq[r].rows, files, "uploaded"),
                 Marked(item, files, "uploaded"), nodes, imp.default, First(files))

BulkResolveItems(r) ==
    LET files == Was(r, "conflict")
        skip == inreq[r].op = "skip_all"
        status == IF skip THEN "skipped" ELSE "uploaded"
        ns == IF skip THEN nodes ELSE Overwrite(nodes, {Target(i) : i \in files})
    IN /\ inreq[r].op \in {"skip_all", "overwrite_all"}
       /\ Finish(r, Marked(inreq[r].rows, files, status), Marked(item, files, status),
                 ns, IF skip THEN "skip" ELSE "overwrite", 0)

CancelSession(r) ==
    /\ inreq[r].op = "cancel"
    /\ imp' = [imp EXCEPT !.status = "cancelled"]
    /\ Answered(r) /\ UNCHANGED <<nodes, item, job>>

-----------------------------------------------------------------------------
(* The older job *)

\* A job is refused when two of its files, or a file and a folder or a node
\* that is there already, want one path.
Conflicts(base) ==
    LET t(i) == base \o Source[i]
        above(i) == Prefixes(t(i)) \ {t(i)}
    IN \/ \E i, j \in Files : i # j /\ (t(i) = t(j) \/ t(i) \in above(j))
       \/ \E i \in Files : t(i) \in Taken(nodes)
       \/ \E i \in Files, n \in nodes : n.path \in above(i) /\ n.by # Folder

CreateJob(base) ==
    /\ job.status = "none"
    /\ base = <<>> \/ base \in Taken(nodes)
    /\ ~Conflicts(base)
    /\ job' = [status |-> "queued", base |-> base]
    /\ UNCHANGED <<nodes, imp, item, inreq>>

AskApply(r) == job.status = "queued" /\ Reads(r, "apply", 0)

\* All or nothing: a file that fails takes the request with it.
\* Mutant of ApplyJob: what was made before the failure is kept.
ApplyAsFar(r) ==
    LET placed == PlaceAll(nodes, Files, JobTarget, JobOf)
    IN /\ inreq[r].op = "apply"
       /\ nodes' = placed.ns
       /\ job' = IF placed.ok THEN [job EXCEPT !.status = "succeeded"] ELSE job
       /\ Answered(r) /\ UNCHANGED <<imp, item>>
ApplyJob(r) ==
    LET placed == PlaceAll(nodes, Files, JobTarget, JobOf)
    IN /\ inreq[r].op = "apply"
       /\ \/ /\ placed.ok /\ Broken = {}
             /\ nodes' = placed.ns /\ job' = [job EXCEPT !.status = "succeeded"]
          \/ /\ ~(placed.ok /\ Broken = {})
             /\ UNCHANGED <<nodes, job>>
       /\ Answered(r) /\ UNCHANGED <<imp, item>>

-----------------------------------------------------------------------------
(* Other users *)

UserCreates(path) ==
    /\ path \notin Taken(nodes)
    /\ nodes' = nodes \cup {NodeAt(path, User)}
    /\ UNCHANGED <<imp, item, job, inreq>>

UserDeletes(n) ==
    /\ n.path \notin SystemFolders
    /\ nodes' = Overwrite(nodes, {n.path})
    /\ UNCHANGED <<imp, item, job, inreq>>

-----------------------------------------------------------------------------

Creates == \E base \in Bases \cup {<<>>} : CreateSession(base) \/ CreateJob(base)
Scans == \E included \in SUBSET Files : ScanSession(included)
AskOne(r) ==
    \/ AskCancel(r) \/ AskApply(r)
    \/ \E i \in Files : AskRetry(r, i) \/ AskResolve(r, i, "skip") \/ AskResolve(r, i, "overwrite")
AskMany(r) == AskRetryAll(r) \/ AskBulk(r, "skip_all") \/ AskBulk(r, "overwrite_all")
Uploads(r) == \E i \in Files : AskUpload(r, i)
Writes(r) ==
    \/ UploadItem(r) \/ RetryItem(r) \/ ResolveItem(r) \/ RetryFailedItems(r)
    \/ BulkResolveItems(r) \/ CancelSession(r) \/ ApplyJob(r)
OtherUsers ==
    \/ \E path \in UserPaths : UserCreates(path)
    \/ \E n \in nodes : UserDeletes(n)

ImportNext ==
    \/ Creates \/ Scans \/ OtherUsers
    \/ \E r \in Requests : AskOne(r) \/ AskMany(r) \/ Uploads(r) \/ Writes(r)

-----------------------------------------------------------------------------
(* The requests of a user who waits: one scan, never two requests for one     *)
(* file at a time, and nothing beside a cancellation or a decision about all  *)
(* files.  The dialog keeps to the first two.  Of the third it keeps half: it *)
(* takes no second decision while one is under way, but the loop that uploads *)
(* goes on meanwhile.                                                         *)

OnOne == {"upload", "retry", "skip", "overwrite"}
Busy == {r \in Requests : inreq[r].op \notin {"none", "apply"}}
Beside(i) == \A q \in Busy : inreq[q].op \in OnOne /\ inreq[q].i # i
Scanned == \E i \in Files : item[i].status # "absent"

PatientAsks(r) ==
    \/ AskApply(r)
    \/ Busy = {} /\ (AskCancel(r) \/ AskMany(r))
    \/ \E i \in Files :
         /\ Beside(i)
         /\ \/ AskUpload(r, i) \/ AskRetry(r, i)
            \/ AskResolve(r, i, "skip") \/ AskResolve(r, i, "overwrite")
PatientNext ==
    \/ Creates \/ OtherUsers
    \/ ~Scanned /\ Scans
    \/ \E r \in Requests : Writes(r) \/ PatientAsks(r)

-----------------------------------------------------------------------------

\* Nodes, files, session and job keep their shape.
ImportTypeOK ==
    /\ \A n \in nodes : n.path \in Seq(Nat) /\ n.by \in -1..(2 * N)
    /\ imp.status \in {"none", "running", "completed", "cancelled"}
    /\ imp.default \in {None, "skip", "overwrite"}
    /\ \A i \in Files : item[i].status \in
         {"absent", "pending", "uploaded", "conflict", "failed", "ignored", "skipped"}
    /\ job.status \in {"none", "queued", "succeeded"}

Open(i) == item[i].status \in {"pending", "conflict", "failed"}

\* Nobody waits for an import that nobody carries out: the request that settles
\* the last file does it, whichever of those that overlap that is
\* (_ready_to_materialize under the lock of the database).
SettledIsCarriedOut ==
    imp.status = "running" /\ (\E i \in Files : item[i].status = "uploaded") =>
      \E i \in Files : Open(i)

\* A completed import is whole: every file it took has its node, none is open.
CompletedIsWhole ==
    imp.status = "completed" =>
      \A i \in Files : ~Open(i) /\ (item[i].status = "uploaded" => item[i].made)

\* A session that has ended stays as it ended: no request under way turns it
\* around, and a cancelled one makes no nodes any more.
EndedStaysEnded ==
    imp.status \in {"completed", "cancelled"} =>
      /\ imp'.status = imp.status
      /\ \A n \in nodes' \ nodes : n.by \notin Files

\* The directory below the outermost one is kept as it was (target_path against
\* _ensure_parent_folders, which agree when as many names stand in front of it
\* in the wiki as were dropped of the source).
DirectoryIsKept ==
    \A n \in nodes, i \in Files :
      /\ n.by = i /\ Len(imp.base) = 1 => n.path = Target(i)
      /\ n.by = JobOf(i) /\ Len(job.base) = 0 => n.path = JobTarget(i)

\* What others have in the wiki goes only where the user said overwrite, for
\* the one file or for all conflicts.
NothingGoesUnasked ==
    \/ inreq' = inreq
    \/ \A n \in nodes : n \in nodes' \/ n.by \in Files
    \/ \E r \in Requests : inreq'[r] # inreq[r] /\
         \/ inreq[r].op \in {"overwrite", "overwrite_all"}
         \/ inreq[r].op = "upload" /\ inreq[r].default = "overwrite"

\* A job is applied as a whole or not at all.
JobIsWhole ==
    (\E n \in nodes, i \in Files : n.by = JobOf(i)) => job.status = "succeeded"

\* An import that runs can still be finished: a file is open to act on, and
\* what an earlier attempt has made does not stand in the way of the next.
ImportCanFinish ==
    imp.status = "running" /\ (\E i \in Files : item[i].status = "uploaded") =>
      /\ \E i \in Files : Open(i)
      /\ \A i \in Files : item[i].status = "uploaded" => ~\E n \in nodes : n.by = i
=============================================================================

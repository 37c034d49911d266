---------------------------- MODULE OpenVikingSync ----------------------------
(***************************************************************************)
(* How CodeAsk mirrors its wiki into the OpenViking server.                 *)
(*                                                                         *)
(* A wiki request commits to the database, projects the feature onto disk  *)
(* and enqueues a sync job; workers (the scheduler's interval job and the  *)
(* admin's run_pending endpoint) upload or delete what the jobs ask for;   *)
(* the hourly sweep compares database, jobs and remote and repairs.  Each  *)
(* of these actors is split where it awaits: between two of its steps any  *)
(* other actor may run.  One database transaction is one step.             *)
(***************************************************************************)
EXTENDS Integers, FiniteSets, Sequences

CONSTANTS
    Features,           \* feature slugs; a job's source_id is its slug
    Versions,           \* contents of a feature's published document
    Requests,           \* concurrent wiki HTTP requests
    Workers,            \* concurrent callers of run_pending_jobs
    Tasks,              \* task ids the server can have in use at a time
    Limit,              \* run_pending_jobs(limit=...)
    MaxRepeatFailures,  \* attempts after which a failing job is cancelled
    MaxFaults,          \* bound: failures of calls outside CodeAsk
    None                \* no content, no task, no hash, no row

ASSUME FeaturesAssumption == IsFiniteSet(Features)
ASSUME LimitAssumption == Limit \in Nat \ {0}
ASSUME MaxRepeatFailuresAssumption == MaxRepeatFailures \in Nat \ {0}
ASSUME MaxFaultsAssumption == MaxFaults \in Nat
ASSUME NoneAssumption == None \notin Features \cup Versions \cup Tasks

VARIABLES
    active,   \* features with status "active" and a current wiki space
    docs,     \* docs[f]: the published content in the database
    disk,     \* disk[f]: the content projected under wiki_workspace/current
    request,  \* request[r]: what request r still does after its commit
    job,      \* job[f]: the row of openviking_sync_jobs for f, or None
    worker,   \* worker[w]: local state of a run_pending_jobs call
    sweeper,  \* local state of the refresh sweep
    cooling,  \* the latest last_synced_at is younger than min_interval
    remote,   \* remote[f]: the content OpenViking holds for f
    task,     \* task[t]: what the server knows of task t
    inbox,    \* inbox[f]: the server's unfinished tasks for f, in order
    faults,   \* failures used up so far
    admin     \* what an admin request still does after its first step

wikiVars   == <<active, docs, disk>>
remoteVars == <<remote, task, inbox>>
vars == <<wikiVars, request, job, worker, sweeper, cooling, remoteVars, faults, admin>>

-----------------------------------------------------------------------------
(* The sync job row and the transactions that rewrite it. *)

Statuses == {"pending", "running", "indexed", "failed", "cancelled"}
TerminalStatuses == {"indexed", "cancelled"}
Operations == {"upsert", "delete"}

Contents == Versions \cup {None}
Hashes   == Versions \cup {None}      \* a hash tells contents apart, no more
TaskIds  == Tasks \cup {None}

Job == [status   : Statuses,
        op       : Operations,        \* progress["op"]
        deferred : BOOLEAN,           \* progress["delete_deferred_until_task_done"]
        task     : TaskIds,
        hash     : Hashes,
        attempts : 0 .. MaxRepeatFailures,   \* saturates: only >= is tested
        retry    : {"none", "later", "due"}] \* next_retry_at against the clock

ASSUME NoRowAssumption == None \notin Job

NewJob(operation, hash) ==
    [status |-> "pending", op |-> operation, deferred |-> FALSE, task |-> None,
     hash |-> hash, attempts |-> 0, retry |-> "none"]

\* Mutant of Enqueued: a running job is started over.
EnqueuedAnew(j, operation, hash) == NewJob(operation, hash)

\* enqueue: a running job keeps its task; only a delete marks it, deferred.
Enqueued(j, operation, hash) ==
    CASE j = None \/ (j # None /\ j.status # "running") ->
            NewJob(operation, hash)
      [] j # None /\ j.status = "running" /\ operation = "delete" ->
            [j EXCEPT !.op = "delete", !.deferred = TRUE, !.hash = None,
                      !.retry = "none"]
      [] OTHER -> [j EXCEPT !.hash = hash]

\* A worker takes the job, whatever its open status is.
Picked(j) ==
    [j EXCEPT !.status = "running", !.retry = "none",
              !.attempts = IF @ < MaxRepeatFailures THEN @ + 1 ELSE @]

\* mark_failed and _apply_failure_state: whatever the status is by now.
Failed(j) ==
    CASE j = None -> None
      [] j # None /\ j.attempts >= MaxRepeatFailures ->
            [j EXCEPT !.status = "cancelled", !.retry = "none"]
      [] OTHER -> [j EXCEPT !.status = "failed", !.retry = "later"]

\* _reset_job_for_retry: progress and hash are kept.
Reset(j) ==
    [j EXCEPT !.status = "pending", !.attempts = 0, !.retry = "none",
              !.task = None]

HasJob(f, S) == job[f] # None /\ job[f].status \in S

Fault == faults < MaxFaults /\ faults' = faults + 1

-----------------------------------------------------------------------------
(* Wiki requests: commit, then project, then enqueue. *)

RequestIdle == [pc |-> "idle", f |-> None]
RequestPcs  == {"idle", "project", "upsert", "prune", "delete", "rebuild"}

Goto(r, pc) == request' = [request EXCEPT ![r].pc = pc]
Respond(r)  == request' = [request EXCEPT ![r] = RequestIdle]

\* publish, rollback, node delete or restore: the commit changes the content.
CommitPublish(r, f, v) ==
    /\ request[r].pc = "idle"
    /\ f \in active
    /\ docs[f] # v
    /\ docs' = [docs EXCEPT ![f] = v]
    /\ request' = [request EXCEPT ![r] = [pc |-> "project", f |-> f]]
    /\ UNCHANGED <<active, disk, job, worker, sweeper, cooling, remoteVars, faults, admin>>

\* The projector re-reads the database; a feature no longer active loses its tree.
ProjectDocument(r) ==
    /\ request[r].pc = "project"
    /\ LET f == request[r].f IN
       disk' = [disk EXCEPT ![f] = IF f \in active THEN docs[f] ELSE None]
    /\ Goto(r, "upsert")
    /\ UNCHANGED <<active, docs, job, worker, sweeper, cooling, remoteVars, faults, admin>>

\* Any exception while projecting or enqueuing is logged, and the hook gives up.
HookFails(r) ==
    /\ request[r].pc # "idle"
    /\ Fault
    /\ Respond(r)
    /\ UNCHANGED <<wikiVars, job, worker, sweeper, cooling, remoteVars, admin>>

HookEnqueue(r) ==
    /\ request[r].pc \in Operations
    /\ LET f == request[r].f IN
       job' = [job EXCEPT ![f] = Enqueued(@, request[r].pc, None)]
    /\ Respond(r)
    /\ UNCHANGED <<wikiVars, worker, sweeper, cooling, remoteVars, faults, admin>>

CommitArchive(r, f) ==
    /\ request[r].pc = "idle"
    /\ f \in active
    /\ active' = active \ {f}
    /\ request' = [request EXCEPT ![r] = [pc |-> "prune", f |-> f]]
    /\ UNCHANGED <<docs, disk, job, worker, sweeper, cooling, remoteVars, faults, admin>>

\* prune_feature does not ask whether the feature is archived still.
PruneFeature(r) ==
    /\ request[r].pc = "prune"
    /\ disk' = [disk EXCEPT ![request[r].f] = None]
    /\ Goto(r, "delete")
    /\ UNCHANGED <<active, docs, job, worker, sweeper, cooling, remoteVars, faults, admin>>

CommitRestore(r, f) ==
    /\ request[r].pc = "idle"
    /\ f \in Features \ active
    /\ active' = active \cup {f}
    /\ request' = [request EXCEPT ![r] = [pc |-> "rebuild", f |-> f]]
    /\ UNCHANGED <<docs, disk, job, worker, sweeper, cooling, remoteVars, faults, admin>>

\* A restored feature is rebuilt on disk and left to the sweep to upload.
RebuildFeature(r) ==
    /\ request[r].pc = "rebuild"
    /\ LET f == request[r].f IN
       disk' = [disk EXCEPT ![f] = IF f \in active THEN docs[f] ELSE None]
    /\ Respond(r)
    /\ UNCHANGED <<active, docs, job, worker, sweeper, cooling, remoteVars, faults, admin>>

RequestStep(r) ==
    \/ ProjectDocument(r) \/ HookEnqueue(r) \/ PruneFeature(r) \/ RebuildFeature(r)

Commit(r) ==
    \E f \in Features :
        \/ \E v \in Versions : CommitPublish(r, f, v)
        \/ CommitArchive(r, f)
        \/ CommitRestore(r, f)

-----------------------------------------------------------------------------
(* run_pending_jobs: refresh the running jobs, then process pending ones. *)

WorkerIdle == [pc |-> "idle", polls |-> {}, picks |-> {}, left |-> 0,
               f |-> None, task |-> None, answer |-> "unknown",
               op |-> "upsert", hash |-> None]
WorkerPcs == {"idle", "poll", "apply", "pick", "call", "record"}
Answers   == {"unknown", "success", "failure"}

\* Every largest subset of S that the query's LIMIT n lets through; the
\* query's order (oldest first) is left open.
Limited(S, n) ==
    {T \in SUBSET S : /\ Cardinality(T) <= n
                      /\ T = S \/ Cardinality(T) = n}

WorkerAt(w, fields) == worker' = [worker EXCEPT ![w] = fields]

StartRun(w) ==
    /\ worker[w].pc = "idle"
    /\ LET running == {f \in Features : HasJob(f, {"running"}) /\ job[f].task # None}
       IN \E S \in Limited(running, Limit) :
            WorkerAt(w, [WorkerIdle EXCEPT !.pc = "poll",
                            !.polls = {<<f, job[f].task>> : f \in S},
                            !.left = Limit - Cardinality(S)])
    /\ UNCHANGED <<wikiVars, request, job, sweeper, cooling, remoteVars, faults, admin>>

\* task_status and _task_status_from_payload: a task the server does not know
\* is "unknown", like one it still processes.
Answer(t) ==
    CASE task[t] = None -> "unknown"
      [] task[t] # None /\ task[t].state = "queued" -> "unknown"
      [] OTHER -> task[t].state

PollTask(w, p) ==
    /\ worker[w].pc = "poll"
    /\ p \in worker[w].polls
    /\ WorkerAt(w, [worker[w] EXCEPT !.pc = "apply", !.polls = @ \ {p}, !.f = p[1],
                                     !.task = p[2], !.answer = Answer(p[2])])
    /\ UNCHANGED <<wikiVars, request, job, sweeper, cooling, remoteVars, faults, admin>>

PollFails(w, p) ==
    /\ worker[w].pc = "poll"
    /\ p \in worker[w].polls
    /\ Fault
    /\ job' = [job EXCEPT ![p[1]] = Failed(@)]
    /\ WorkerAt(w, [worker[w] EXCEPT !.polls = @ \ {p}])
    /\ UNCHANGED <<wikiVars, request, sweeper, cooling, remoteVars, admin>>

\* Mutant of Refreshed: the delete deferred behind the task is forgotten.
RefreshedForgetful(j, answer) ==
    CASE answer = "success" -> [j EXCEPT !.status = "indexed", !.retry = "none"]
      [] answer = "failure" -> Failed(j)
      [] OTHER -> j

\* What the answer makes of the row, if it is still running when re-read.
Refreshed(j, answer) ==
    CASE answer = "success" /\ j.deferred /\ j.op = "delete" ->
            [j EXCEPT !.status = "pending", !.task = None, !.deferred = FALSE,
                      !.retry = "none"]
      [] answer = "success" /\ ~(j.deferred /\ j.op = "delete") ->
            [j EXCEPT !.status = "indexed", !.retry = "none"]
      [] answer = "failure" -> Failed(j)
      [] OTHER -> j

ApplyTaskStatus(w) ==
    /\ worker[w].pc = "apply"
    /\ LET f == worker[w].f IN
       job' = IF HasJob(f, {"running"})
                THEN [job EXCEPT ![f] = Refreshed(@, worker[w].answer)]
                ELSE job
    /\ WorkerAt(w, [worker[w] EXCEPT !.pc = "poll", !.f = None, !.task = None,
                                     !.answer = "unknown"])
    /\ UNCHANGED <<wikiVars, request, sweeper, cooling, remoteVars, faults, admin>>

Eligible == {f \in Features : \/ HasJob(f, {"pending"})
                              \/ HasJob(f, {"failed"}) /\ job[f].retry = "due"}

\* Mutant of SelectPending: the refreshed jobs are not counted.
SelectUpToLimit(w) ==
    /\ worker[w].pc = "poll"
    /\ worker[w].polls = {}
    /\ \E S \in Limited(Eligible, Limit) :
          WorkerAt(w, [WorkerIdle EXCEPT !.pc = "pick", !.picks = S])
    /\ UNCHANGED <<wikiVars, request, job, sweeper, cooling, remoteVars, faults, admin>>

SelectPending(w) ==
    /\ worker[w].pc = "poll"
    /\ worker[w].polls = {}
    /\ \E S \in Limited(Eligible, worker[w].left) :
          WorkerAt(w, [WorkerIdle EXCEPT !.pc = "pick", !.picks = S])
    /\ UNCHANGED <<wikiVars, request, job, sweeper, cooling, remoteVars, faults, admin>>

\* The selected row is read again: a row that is gone or terminal is skipped,
\* one another worker has made running is taken all the same.
SkipPick(w, f) ==
    /\ worker[w].pc = "pick"
    /\ f \in worker[w].picks
    /\ job[f] = None \/ HasJob(f, TerminalStatuses)
    /\ WorkerAt(w, [worker[w] EXCEPT !.picks = @ \ {f}])
    /\ UNCHANGED <<wikiVars, request, job, sweeper, cooling, remoteVars, faults, admin>>

PickJob(w, f) ==
    /\ worker[w].pc = "pick"
    /\ f \in worker[w].picks
    /\ HasJob(f, Statuses \ TerminalStatuses)
    /\ job' = [job EXCEPT ![f] = Picked(@)]
    /\ cooling' = TRUE
    /\ WorkerAt(w, [worker[w] EXCEPT !.pc = "call", !.picks = @ \ {f}, !.f = f,
                                     !.op = job[f].op, !.hash = job[f].hash])
    /\ UNCHANGED <<wikiVars, request, sweeper, remoteVars, faults, admin>>

EndRun(w) ==
    /\ worker[w].pc = "pick"
    /\ worker[w].picks = {}
    /\ WorkerAt(w, WorkerIdle)
    /\ UNCHANGED <<wikiVars, request, job, sweeper, cooling, remoteVars, faults, admin>>

\* The call raised: mark_failed, and on to the next row.
NextPick(w) == WorkerAt(w, [WorkerIdle EXCEPT !.pc = "pick", !.picks = worker[w].picks])
CallRaises(w) ==
    /\ job' = [job EXCEPT ![worker[w].f] = Failed(@)]
    /\ NextPick(w)

\* A task id is handed out once: one still referred to is not used again.
Referred(t) == \/ \E f \in Features : job[f] # None /\ job[f].task = t
               \/ \E w \in Workers : \/ worker[w].task = t
                                     \/ \E p \in worker[w].polls : p[2] = t
Fresh(t) == task[t] = None /\ ~Referred(t)

\* Mutant of UploadQueued: the directory is not looked for.
UploadUnchecked(w, t) ==
    /\ worker[w].pc = "call" /\ worker[w].op = "upsert"
    /\ Fresh(t)
    /\ LET f == worker[w].f IN
       /\ task' = [task EXCEPT ![t] = [content |-> disk[f], state |-> "queued"]]
       /\ inbox' = [inbox EXCEPT ![f] = Append(@, t)]
    /\ WorkerAt(w, [worker[w] EXCEPT !.pc = "record", !.task = t])
    /\ UNCHANGED <<wikiVars, request, job, sweeper, cooling, remote, faults, admin>>

\* add_wiki_feature reads the directory as it is now; the server queues a task.
UploadQueued(w, t) ==
    /\ worker[w].pc = "call" /\ worker[w].op = "upsert"
    /\ disk[worker[w].f] # None
    /\ Fresh(t)
    /\ LET f == worker[w].f IN
       /\ task' = [task EXCEPT ![t] = [content |-> disk[f], state |-> "queued"]]
       /\ inbox' = [inbox EXCEPT ![f] = Append(@, t)]
    /\ WorkerAt(w, [worker[w] EXCEPT !.pc = "record", !.task = t])
    /\ UNCHANGED <<wikiVars, request, job, sweeper, cooling, remote, faults, admin>>

\* The response carries no task id: the content is in already.
UploadDone(w) ==
    /\ worker[w].pc = "call" /\ worker[w].op = "upsert"
    /\ LET f == worker[w].f IN
       /\ disk[f] # None
       /\ inbox[f] = << >>
       /\ remote' = [remote EXCEPT ![f] = disk[f]]
    /\ WorkerAt(w, [worker[w] EXCEPT !.pc = "record", !.task = None])
    /\ UNCHANGED <<wikiVars, request, job, sweeper, cooling, task, inbox, faults, admin>>

UploadMissingDirectory(w) ==
    /\ worker[w].pc = "call" /\ worker[w].op = "upsert"
    /\ disk[worker[w].f] = None
    /\ CallRaises(w)
    /\ UNCHANGED <<wikiVars, request, sweeper, cooling, remoteVars, faults, admin>>

\* The server accepted the upload, but its answer never arrived.
UploadTimesOut(w, t) ==
    /\ worker[w].pc = "call" /\ worker[w].op = "upsert"
    /\ disk[worker[w].f] # None
    /\ Fresh(t)
    /\ Fault
    /\ LET f == worker[w].f IN
       /\ task' = [task EXCEPT ![t] = [content |-> disk[f], state |-> "queued"]]
       /\ inbox' = [inbox EXCEPT ![f] = Append(@, t)]
    /\ CallRaises(w)
    /\ UNCHANGED <<wikiVars, request, sweeper, cooling, remote, admin>>

DeleteDone(w) ==
    /\ worker[w].pc = "call" /\ worker[w].op = "delete"
    /\ inbox[worker[w].f] = << >>
    /\ remote' = [remote EXCEPT ![worker[w].f] = None]
    /\ WorkerAt(w, [worker[w] EXCEPT !.pc = "record", !.task = None])
    /\ UNCHANGED <<wikiVars, request, job, sweeper, cooling, task, inbox, faults, admin>>

\* "Resource is being processed": the server refuses while a task is queued.
DeleteConflicts(w) ==
    /\ worker[w].pc = "call" /\ worker[w].op = "delete"
    /\ inbox[worker[w].f] # << >>
    /\ CallRaises(w)
    /\ UNCHANGED <<wikiVars, request, sweeper, cooling, remoteVars, faults, admin>>

ServerUnavailable(w) ==
    /\ worker[w].pc = "call"
    /\ Fault
    /\ CallRaises(w)
    /\ UNCHANGED <<wikiVars, request, sweeper, cooling, remoteVars, admin>>

\* _job_changed_during_run; the URI of a wiki feature never changes.
ChangedDuringRun(j, w) == j.op # worker[w].op \/ j.hash # worker[w].hash

\* Mutant of Recorded: a response without a task id leaves the job running.
RecordedRunning(j, w) ==
    CASE j = None -> None
      [] j # None /\ ChangedDuringRun(j, w) ->
            [j EXCEPT !.status = "pending", !.retry = "none"]
      [] OTHER -> [j EXCEPT !.task = worker[w].task, !.status = "running", !.retry = "none"]

Recorded(j, w) ==
    CASE j = None -> None
      [] j # None /\ ChangedDuringRun(j, w) ->
            [j EXCEPT !.status = "pending", !.retry = "none"]
      [] j # None /\ ~ChangedDuringRun(j, w) /\ worker[w].task # None ->
            [j EXCEPT !.task = worker[w].task, !.status = "running", !.retry = "none"]
      [] j # None /\ ~ChangedDuringRun(j, w) /\ worker[w].task = None
           /\ worker[w].op = "delete" -> None
      [] OTHER -> [j EXCEPT !.task = None, !.status = "indexed", !.retry = "none"]

RecordResult(w) ==
    /\ worker[w].pc = "record"
    /\ job' = [job EXCEPT ![worker[w].f] = Recorded(@, w)]
    /\ NextPick(w)
    /\ UNCHANGED <<wikiVars, request, sweeper, cooling, remoteVars, faults, admin>>

WorkerStep(w) ==
    \/ StartRun(w) \/ ApplyTaskStatus(w) \/ SelectPending(w) \/ EndRun(w)
    \/ \E f \in Features, t \in Tasks : PollTask(w, <<f, t>>)
    \/ \E f \in Features : SkipPick(w, f) \/ PickJob(w, f)
    \/ UploadDone(w) \/ UploadMissingDirectory(w) \/ DeleteDone(w)
    \/ DeleteConflicts(w) \/ RecordResult(w)
    \/ \E t \in Tasks : UploadQueued(w, t)

WorkerFault(w) ==
    \/ \E f \in Features, t \in Tasks : PollFails(w, <<f, t>>)
    \/ \E t \in Tasks : UploadTimesOut(w, t)
    \/ ServerUnavailable(w)

-----------------------------------------------------------------------------
(* The refresh sweep: prune, reconcile the remote, then enqueue what changed. *)

SweeperIdle == [pc |-> "idle", todo |-> {}, seen |-> [f \in Features |-> None]]

\* At startup the backfill goes straight to sweep_all.
Backfill == [SweeperIdle EXCEPT !.pc = "snapshot"]
SweeperPcs  == {"idle", "list", "compare", "reconcile", "check", "snapshot", "enqueue"}

Sweeper(fields) == sweeper' = fields

\* scheduled_add_resource_sweep begins by dropping finished delete jobs.
StartSweep ==
    /\ sweeper.pc = "idle"
    /\ job' = [f \in Features |->
                 IF HasJob(f, TerminalStatuses) /\ job[f].op = "delete"
                   THEN None ELSE job[f]]
    /\ Sweeper([sweeper EXCEPT !.pc = "list"])
    /\ UNCHANGED <<wikiVars, request, worker, cooling, remoteVars, faults, admin>>

ListRemote ==
    /\ sweeper.pc = "list"
    /\ Sweeper([sweeper EXCEPT !.pc = "compare",
                               !.todo = {f \in Features : remote[f] # None}])
    /\ UNCHANGED <<wikiVars, request, job, worker, cooling, remoteVars, faults, admin>>

ListFails ==
    /\ sweeper.pc = "list"
    /\ Fault
    /\ Sweeper([sweeper EXCEPT !.pc = "check"])
    /\ UNCHANGED <<wikiVars, request, job, worker, cooling, remoteVars, admin>>

\* Mutant of CompareRemote: any row counts as a delete on its way.
CompareAnyJob ==
    /\ sweeper.pc = "compare"
    /\ Sweeper([sweeper EXCEPT !.pc = "reconcile",
                               !.todo = {f \in @ \ active : job[f] = None}])
    /\ UNCHANGED <<wikiVars, request, job, worker, cooling, remoteVars, faults, admin>>

\* Two queries, of the active slugs and of the open delete jobs, in one step.
CompareRemote ==
    /\ sweeper.pc = "compare"
    /\ LET deleting == {f \in Features : /\ HasJob(f, {"pending", "running", "failed"})
                                         /\ job[f].op = "delete"}
       IN Sweeper([sweeper EXCEPT !.pc = "reconcile",
                                  !.todo = (@ \ active) \ deleting])
    /\ UNCHANGED <<wikiVars, request, job, worker, cooling, remoteVars, faults, admin>>

ReconcileDelete(f) ==
    /\ sweeper.pc = "reconcile"
    /\ f \in sweeper.todo
    /\ job' = [job EXCEPT ![f] = Enqueued(@, "delete", None)]
    /\ Sweeper([sweeper EXCEPT !.todo = @ \ {f}])
    /\ UNCHANGED <<wikiVars, request, worker, cooling, remoteVars, faults, admin>>

ReconcileEnds ==
    /\ sweeper.pc = "reconcile"
    /\ sweeper.todo = {}
    /\ Sweeper([sweeper EXCEPT !.pc = "check"])
    /\ UNCHANGED <<wikiVars, request, job, worker, cooling, remoteVars, faults, admin>>

\* Any running job, of any feature, or the cooldown ends the sweep here.
SweepCheck ==
    /\ sweeper.pc = "check"
    /\ IF cooling \/ \E f \in Features : HasJob(f, {"running"})
         THEN Sweeper(SweeperIdle)
         ELSE Sweeper([sweeper EXCEPT !.pc = "snapshot"])
    /\ UNCHANGED <<wikiVars, request, job, worker, cooling, remoteVars, faults, admin>>

\* Mutants of Outdated: running jobs are swept too; hashes are not compared.
OutdatedRunning(f) ==
    f \in active /\ docs[f] # None /\ ~(HasJob(f, {"indexed"}) /\ job[f].hash = docs[f])

OutdatedUnhashed(f) ==
    f \in active /\ docs[f] # None /\ ~HasJob(f, {"indexed", "running"})

\* sweep_all reads contents and rows once; both are old when it acts on them.
Outdated(f) ==
    /\ f \in active
    /\ docs[f] # None
    /\ ~(HasJob(f, {"indexed"}) /\ job[f].hash = docs[f])
    /\ ~HasJob(f, {"running"})

SweepSnapshot ==
    /\ sweeper.pc = "snapshot"
    /\ Sweeper([pc |-> "enqueue", todo |-> {f \in Features : Outdated(f)},
                seen |-> [f \in Features |-> IF Outdated(f) THEN docs[f] ELSE None]])
    /\ UNCHANGED <<wikiVars, request, job, worker, cooling, remoteVars, faults, admin>>

\* A feature without its directory is passed over.
SweepEnqueue(f) ==
    /\ sweeper.pc = "enqueue"
    /\ f \in sweeper.todo
    /\ job' = IF disk[f] = None THEN job
              ELSE [job EXCEPT ![f] = Enqueued(@, "upsert", sweeper.seen[f])]
    /\ Sweeper([sweeper EXCEPT !.todo = @ \ {f}, !.seen[f] = None])
    /\ UNCHANGED <<wikiVars, request, worker, cooling, remoteVars, faults, admin>>

SweepEnds ==
    /\ sweeper.pc = "enqueue"
    /\ sweeper.todo = {}
    /\ Sweeper(SweeperIdle)
    /\ UNCHANGED <<wikiVars, request, job, worker, cooling, remoteVars, faults, admin>>

SweeperStep ==
    \/ StartSweep \/ ListRemote \/ CompareRemote \/ ReconcileEnds
    \/ SweepCheck \/ SweepSnapshot \/ SweepEnds
    \/ \E f \in Features : ReconcileDelete(f) \/ SweepEnqueue(f)

-----------------------------------------------------------------------------
(* The admin endpoints of openviking_status.py and openviking_admin.py.    *)
(* Three of them are not one transaction: they also clear the server.      *)

AdminPcs == {"idle", "resync", "mark", "wipe"}

AdminOnly == UNCHANGED <<wikiVars, request, worker, sweeper, cooling, faults>>
RowsOnly  == AdminOnly /\ UNCHANGED <<remoteVars, admin>>

AdminEnqueue(f, operation) ==
    /\ job' = [job EXCEPT ![f] = Enqueued(@, operation, None)]
    /\ RowsOnly

AdminRetry(f) ==
    /\ job[f] # None
    /\ job' = [job EXCEPT ![f] = Reset(@)]
    /\ RowsOnly

ResetRows(S) ==
    job' = [f \in Features |-> IF HasJob(f, S) THEN Reset(job[f]) ELSE job[f]]

AdminRetryFailed == ResetRows({"failed"}) /\ RowsOnly

AdminResync == ResetRows(Statuses \ {"running"}) /\ RowsOnly

AdminDelete(f) ==
    /\ HasJob(f, {"cancelled", "failed"})
    /\ job' = [job EXCEPT ![f] = None]
    /\ RowsOnly

\* _clear_openviking_root: a refusal (a task is being processed) is ignored.
ClearRoot ==
    remote' = IF \A f \in Features : inbox[f] = << >>
                THEN [f \in Features |-> None] ELSE remote

\* rebuild_index and embedding/rebuild clear the root, then reset the rows.
AdminClears(next) ==
    /\ admin = "idle"
    /\ next \in {"resync", "mark"}
    /\ ClearRoot
    /\ admin' = next
    /\ AdminOnly /\ UNCHANGED <<job, task, inbox>>

AdminResets ==
    /\ \/ admin = "resync" /\ ResetRows(Statuses \ {"running"})
       \/ admin = "mark" /\ ResetRows(Statuses)
    /\ admin' = "idle"
    /\ AdminOnly /\ UNCHANGED remoteVars

\* An embedding switch resets every row, running ones included, and then
\* clears the root, stops the server and deletes its queue and resources.
AdminSwitches ==
    /\ admin = "idle"
    /\ ResetRows(Statuses)
    /\ admin' = "wipe"
    /\ AdminOnly /\ UNCHANGED remoteVars

Queued(t) == task[t] # None /\ task[t].state = "queued"

AdminWipes ==
    /\ admin = "wipe"
    /\ remote' = [f \in Features |-> None]
    /\ inbox' = [f \in Features |-> << >>]
    /\ task' = [t \in Tasks |-> IF Queued(t) THEN None ELSE task[t]]
    /\ admin' = "idle"
    /\ AdminOnly /\ UNCHANGED job

AdminStep ==
    \/ \E f \in Features : AdminRetry(f) \/ AdminDelete(f)
    \/ \E f \in Features, operation \in Operations : AdminEnqueue(f, operation)
    \/ AdminRetryFailed \/ AdminResync
    \/ AdminClears("resync") \/ AdminClears("mark") \/ AdminResets
    \/ AdminSwitches \/ AdminWipes

-----------------------------------------------------------------------------
(* The OpenViking server, seen through the client, and the clock. *)

ServerOnly == UNCHANGED <<wikiVars, request, job, worker, sweeper, cooling, admin>>

\* Tasks of one resource are processed in the order they were queued.
TaskEnds(f, state) ==
    /\ inbox[f] # << >>
    /\ LET t == Head(inbox[f]) IN
       /\ task' = [task EXCEPT ![t].state = state]
       /\ remote' = IF state = "success"
                      THEN [remote EXCEPT ![f] = task[t].content] ELSE remote
    /\ inbox' = [inbox EXCEPT ![f] = Tail(@)]
    /\ ServerOnly

TaskSucceeds(f) == TaskEnds(f, "success") /\ UNCHANGED faults
TaskFails(f)    == TaskEnds(f, "failure") /\ Fault

Ended(t) == task[t] # None /\ task[t].state # "queued"

\* An id no one holds any more stands for one never handed out.
RecycleTask(t) ==
    /\ Ended(t) /\ ~Referred(t)
    /\ task' = [task EXCEPT ![t] = None]
    /\ ServerOnly /\ UNCHANGED <<remote, inbox, faults>>

BackoffExpires(f) ==
    /\ HasJob(f, {"failed"}) /\ job[f].retry = "later"
    /\ job' = [job EXCEPT ![f].retry = "due"]
    /\ UNCHANGED <<wikiVars, request, worker, sweeper, cooling, remoteVars, faults, admin>>

CooldownExpires ==
    /\ cooling
    /\ cooling' = FALSE
    /\ UNCHANGED <<wikiVars, request, job, worker, sweeper, remoteVars, faults, admin>>

Environment ==
    \/ \E f \in Features : TaskSucceeds(f) \/ BackoffExpires(f)
    \/ \E t \in Tasks : RecycleTask(t)
    \/ CooldownExpires

-----------------------------------------------------------------------------
(* Failures of the processes themselves. *)

\* CodeAsk stops and starts again: what was only in memory is gone.
Crash ==
    /\ Fault
    /\ request' = [r \in Requests |-> RequestIdle]
    /\ worker'  = [w \in Workers |-> WorkerIdle]
    /\ sweeper' = Backfill
    /\ admin' = "idle"
    /\ UNCHANGED <<wikiVars, job, cooling, remoteVars>>

-----------------------------------------------------------------------------

Init ==
    /\ active = Features
    /\ docs = [f \in Features |-> None]
    /\ disk = [f \in Features |-> None]
    /\ request = [r \in Requests |-> RequestIdle]
    /\ job = [f \in Features |-> None]
    /\ worker = [w \in Workers |-> WorkerIdle]
    /\ sweeper = Backfill
    /\ cooling = FALSE
    /\ remote = [f \in Features |-> None]
    /\ task = [t \in Tasks |-> None]
    /\ inbox = [f \in Features |-> << >>]
    /\ faults = 0
    /\ admin = "idle"

\* What the running system does by itself, and must keep doing.
Progress ==
    \/ \E r \in Requests : RequestStep(r)
    \/ \E w \in Workers : WorkerStep(w)
    \/ SweeperStep
    \/ Environment

\* What users, administrators and the network may do.
Disturbance ==
    \/ \E r \in Requests : Commit(r) \/ HookFails(r)
    \/ \E w \in Workers : WorkerFault(w)
    \/ ListFails
    \/ \E f \in Features : TaskFails(f)

Next == Progress \/ Disturbance \/ AdminStep

Spec == Init /\ [][Next]_vars

-----------------------------------------------------------------------------

RequestRec == [pc : RequestPcs, f : Features \cup {None}]
TaskRec == [content : Versions, state : {"queued", "success", "failure"}]
ASSUME NoTaskAssumption == None \notin TaskRec
WorkerRec == [pc : WorkerPcs, polls : SUBSET (Features \X Tasks),
              picks : SUBSET Features, left : 0 .. Limit,
              f : Features \cup {None}, task : TaskIds, answer : Answers,
              op : Operations, hash : Hashes]
SweeperRec == [pc : SweeperPcs, todo : SUBSET Features,
               seen : [Features -> Contents]]

(* Rows, tasks, requests, workers and the sweep keep their shape.          *)
TypeOK ==
    /\ active \subseteq Features
    /\ docs \in [Features -> Contents]
    /\ disk \in [Features -> Contents]
    /\ request \in [Requests -> RequestRec]
    /\ job \in [Features -> Job \cup {None}]
    /\ worker \in [Workers -> WorkerRec]
    /\ sweeper \in SweeperRec
    /\ cooling \in BOOLEAN
    /\ remote \in [Features -> Contents]
    /\ task \in [Tasks -> TaskRec \cup {None}]
    /\ inbox \in [Features -> Seq(Tasks)]
    /\ faults \in 0 .. MaxFaults
    /\ admin \in AdminPcs

Owns(w, f) == worker[w].pc \in {"call", "record"} /\ worker[w].f = f

(* Every open job is one that some handler will come back to: a failed job *)
(* has a retry time, and a running job without a task belongs to a worker  *)
(* that is inside its call or about to record the result of it.            *)
OpenJobsReachable ==
    \A f \in Features :
        /\ HasJob(f, {"failed"}) => job[f].retry # "none"
        /\ HasJob(f, {"running"}) /\ job[f].task = None =>
              \E w \in Workers : Owns(w, f)

(* A feature the sweep will pass over, because its row is indexed under    *)
(* the hash of the published content, is held by OpenViking with exactly   *)
(* that content, once no request and no server task concerns it any more.  *)
NoSilentStaleness ==
    \A f \in active :
        (/\ docs[f] # None
         /\ HasJob(f, {"indexed"}) /\ job[f].hash = docs[f]
         /\ \A r \in Requests : request[r].f # f
         /\ inbox[f] = << >>)
        => remote[f] = docs[f]

(* Only an upload is reported indexed: a delete that was deferred behind a *)
(* running upload is not lost when that upload succeeds.                   *)
IndexedIsUpsert == \A f \in Features : HasJob(f, {"indexed"}) => job[f].op = "upsert"

(* As long as one worker runs, no more jobs are running than its limit     *)
(* admits: what a run takes is what its refresh left over.                 *)
RunningWithinLimit == Cardinality({f \in Features : HasJob(f, {"running"})}) <= Limit

-----------------------------------------------------------------------------
(* Specifications between which the runs choose. *)

\* No administrator interferes.
CoreSpec == Init /\ [][Progress \/ Disturbance]_vars

\* Nothing else runs between sweep_all's reading and its last enqueue.
SerialNext ==
    \/ sweeper.pc = "enqueue" /\ SweeperStep
    \/ sweeper.pc # "enqueue" /\ (Progress \/ Disturbance)
SerialSpec == Init /\ [][SerialNext]_vars

CrashSpec == Init /\ [][Progress \/ Disturbance \/ Crash]_vars

\* Requests run to their end, interval jobs are rescheduled for ever, the
\* server finishes its tasks and clocks advance.
Fairness ==
    /\ \A r \in Requests : WF_vars(RequestStep(r))
    /\ \A w \in Workers : WF_vars(WorkerStep(w))
    /\ WF_vars(SweeperStep)
    /\ WF_vars(CooldownExpires)
    /\ \A f \in Features : WF_vars(TaskSucceeds(f)) /\ WF_vars(BackoffExpires(f))
    /\ \A t \in Tasks : WF_vars(RecycleTask(t))

FairCore   == CoreSpec /\ Fairness
FairSerial == SerialSpec /\ Fairness
FairCrash  == CrashSpec /\ Fairness

(* A feature that stays archived is in the end deleted from OpenViking,    *)
(* through conflicts, failures and cancelled jobs.                         *)
ArchivedLeavesRemote ==
    \A f \in Features : <>[](f \notin active) => <>[](remote[f] = None)

(* A running job does not run for ever, also not after a restart of CodeAsk. *)
RunningResolves ==
    \A f \in Features : HasJob(f, {"running"}) ~> ~HasJob(f, {"running"})

(* Content that stays published reaches OpenViking and stays there, in     *)
(* whatever order requests, uploads and sweeps before it have met.         *)
EventuallyMirrored ==
    \A f \in Features, v \in Versions :
        <>[](f \in active /\ docs[f] = v) => <>[](remote[f] = v)

-----------------------------------------------------------------------------
(* A job row, seen as the lifecycle it promises. *)

Lifecycle == INSTANCE SyncJobLifecycle WITH
    state    <- [f \in Features |-> IF job[f] = None THEN "none" ELSE job[f].status],
    attempts <- [f \in Features |-> IF job[f] = None THEN 0 ELSE job[f].attempts]

(* With one worker and no administrator, every job follows the lifecycle:  *)
(* no late answer reaches a settled job, and a running one is settled.     *)
FollowsLifecycle == Lifecycle!Spec
=============================================================================

-------------------------- MODULE OpenVikingSyncProofs --------------------------
(***************************************************************************)
(* Proofs about OpenVikingSync, for every number of features, requests and *)
(* workers.                                                                *)
(***************************************************************************)
EXTENDS OpenVikingSync, FiniteSetTheorems, TLAPS

-----------------------------------------------------------------------------
(* The transactions that rewrite a job row yield a job row. *)

Rows == Job \cup {None}

LEMMA Bounds == /\ 0 \in 0 .. MaxRepeatFailures
                /\ 0 \in 0 .. Limit
                /\ 0 \in 0 .. MaxFaults
                /\ Limit \in 0 .. Limit
BY LimitAssumption, MaxRepeatFailuresAssumption, MaxFaultsAssumption

LEMMA EnqueuedType ==
  ASSUME NEW j \in Rows, NEW operation \in Operations, NEW hash \in Hashes
  PROVE  Enqueued(j, operation, hash) \in Job
BY Bounds, NoRowAssumption
   DEF Rows, Job, Enqueued, NewJob, Statuses, Operations, Hashes, TaskIds

LEMMA FailedType ==
  ASSUME NEW j \in Rows
  PROVE  Failed(j) \in Rows
BY NoRowAssumption DEF Rows, Job, Failed, Statuses

LEMMA ResetType ==
  ASSUME NEW j \in Job
  PROVE  Reset(j) \in Job
BY Bounds DEF Job, Reset, Statuses, TaskIds

LEMMA RefreshedType ==
  ASSUME NEW j \in Job, NEW answer \in Answers
  PROVE  Refreshed(j, answer) \in Rows
BY FailedType DEF Rows, Job, Refreshed, Statuses, Answers, TaskIds

LEMMA RecordedType ==
  ASSUME NEW j \in Rows, NEW w \in Workers, worker \in [Workers -> WorkerRec]
  PROVE  Recorded(j, w) \in Rows
BY NoRowAssumption
   DEF Rows, Job, Recorded, ChangedDuringRun, Statuses, TaskIds, WorkerRec

LEMMA PickedType ==
  ASSUME NEW j \in Job
  PROVE  Picked(j) \in Job
<1>1. j.attempts \in 0 .. MaxRepeatFailures
  BY DEF Job
<1>2. (IF j.attempts < MaxRepeatFailures THEN j.attempts + 1 ELSE j.attempts)
        \in 0 .. MaxRepeatFailures
  BY <1>1, MaxRepeatFailuresAssumption
<1> QED
  BY <1>2 DEF Picked, Job, Statuses

LEMMA ToRow ==
  ASSUME NEW f \in Features, job \in [Features -> Rows], NEW S, HasJob(f, S)
  PROVE  job[f] \in Job
BY DEF HasJob, Rows

-----------------------------------------------------------------------------
(* Type correctness, one actor at a time. *)

LEMMA RequestTypes ==
  ASSUME TypeOK, NEW r \in Requests,
         RequestStep(r) \/ Commit(r) \/ HookFails(r)
  PROVE  TypeOK'
<1>1. CASE ProjectDocument(r)
  BY <1>1 DEF TypeOK, ProjectDocument, Goto, RequestRec, RequestPcs, Contents, remoteVars
<1>2. CASE HookEnqueue(r)
  <2>1. job' \in [Features -> Job \cup {None}]
    BY <1>2, EnqueuedType DEF TypeOK, HookEnqueue, RequestRec, Rows, Hashes
  <2>2. request' \in [Requests -> RequestRec]
    BY <1>2 DEF TypeOK, HookEnqueue, Respond, RequestIdle, RequestRec, RequestPcs
  <2>3. UNCHANGED <<wikiVars, worker, sweeper, cooling, remoteVars, faults, admin>>
    BY <1>2 DEF HookEnqueue
  <2> QED
    BY <2>1, <2>2, <2>3 DEF TypeOK, wikiVars, remoteVars
<1>3. CASE PruneFeature(r)
  BY <1>3 DEF TypeOK, PruneFeature, Goto, RequestRec, RequestPcs, Contents, remoteVars
<1>4. CASE RebuildFeature(r)
  BY <1>4 DEF TypeOK, RebuildFeature, Respond, RequestIdle, RequestRec, RequestPcs,
     Contents, remoteVars
<1>5. CASE Commit(r)
  <2> SUFFICES ASSUME NEW f \in Features,
                      \/ \E v \in Versions : CommitPublish(r, f, v)
                      \/ CommitArchive(r, f)
                      \/ CommitRestore(r, f)
               PROVE  TypeOK'
    BY <1>5 DEF Commit
  <2>1. CASE \E v \in Versions : CommitPublish(r, f, v)
    BY <2>1 DEF TypeOK, CommitPublish, RequestRec, RequestPcs, Contents, remoteVars
  <2>2. CASE CommitArchive(r, f)
    BY <2>2 DEF TypeOK, CommitArchive, RequestRec, RequestPcs, remoteVars
  <2>3. CASE CommitRestore(r, f)
    BY <2>3 DEF TypeOK, CommitRestore, RequestRec, RequestPcs, remoteVars
  <2> QED
    BY <2>1, <2>2, <2>3
<1>6. CASE HookFails(r)
  BY <1>6, MaxFaultsAssumption
     DEF TypeOK, HookFails, Fault, Respond, RequestIdle, RequestRec, RequestPcs,
         wikiVars, remoteVars
<1> QED
  BY <1>1, <1>2, <1>3, <1>4, <1>5, <1>6 DEF RequestStep

LEMMA LimitedType ==
  ASSUME NEW n \in 0 .. Limit, NEW A \in SUBSET Features, NEW S \in Limited(A, n)
  PROVE  S \subseteq A /\ n - Cardinality(S) \in 0 .. Limit
<1>1. S \subseteq A /\ Cardinality(S) <= n
  BY DEF Limited
<1>2. Cardinality(S) \in Nat
  BY <1>1, FeaturesAssumption, FS_Subset, FS_CardinalityType
<1> QED
  BY <1>1, <1>2, LimitAssumption

LEMMA IdleType == WorkerIdle \in WorkerRec
BY LimitAssumption
   DEF WorkerIdle, WorkerRec, WorkerPcs, Answers, Operations, Hashes, TaskIds

LEMMA AnswerType ==
  ASSUME TypeOK, NEW t \in Tasks
  PROVE  Answer(t) \in Answers
BY DEF TypeOK, TaskRec, Answer, Answers

LEMMA NextPickType ==
  ASSUME TypeOK, NEW w \in Workers, NextPick(w)
  PROVE  worker' \in [Workers -> WorkerRec]
BY IdleType DEF TypeOK, NextPick, WorkerAt, WorkerRec, WorkerPcs

\* A step that rewrites job rows and the worker, and nothing else of them.
LEMMA CallRaisesTypes ==
  ASSUME TypeOK, NEW w \in Workers, worker[w].f \in Features, CallRaises(w)
  PROVE  job' \in [Features -> Rows] /\ worker' \in [Workers -> WorkerRec]
BY NextPickType, FailedType DEF TypeOK, CallRaises, Rows

LEMMA RefreshTypes ==
  ASSUME TypeOK, NEW w \in Workers,
         \/ StartRun(w) \/ ApplyTaskStatus(w) \/ SelectPending(w)
         \/ \E f \in Features, t \in Tasks : PollTask(w, <<f, t>>) \/ PollFails(w, <<f, t>>)
  PROVE  TypeOK'
<1>t. worker[w] \in WorkerRec
  BY DEF TypeOK
<1>1. CASE StartRun(w)
  <2> DEFINE running == {f \in Features : HasJob(f, {"running"}) /\ job[f].task # None}
  <2>1. PICK S \in Limited(running, Limit) :
           WorkerAt(w, [WorkerIdle EXCEPT !.pc = "poll",
                            !.polls = {<<f, job[f].task>> : f \in S},
                            !.left = Limit - Cardinality(S)])
    BY <1>1 DEF StartRun
  <2>2. S \subseteq running /\ Limit - Cardinality(S) \in 0 .. Limit
    BY Bounds, LimitedType
  <2>3. {<<f, job[f].task>> : f \in S} \in SUBSET (Features \X Tasks)
    <3> SUFFICES ASSUME NEW f \in S
                 PROVE  f \in Features /\ job[f].task \in Tasks
      OBVIOUS
    <3>1. f \in Features /\ HasJob(f, {"running"}) /\ job[f].task # None
      BY <2>2
    <3> QED
      BY <3>1, ToRow DEF TypeOK, Rows, Job, TaskIds
  <2>4. worker' \in [Workers -> WorkerRec]
    BY <2>1, <2>2, <2>3, IdleType DEF TypeOK, WorkerAt, WorkerRec, WorkerPcs
  <2> QED
    BY <1>1, <2>4 DEF TypeOK, StartRun, wikiVars, remoteVars
<1>2. CASE ApplyTaskStatus(w)
  <2>1. job' \in [Features -> Job \cup {None}]
    BY <1>2, <1>t, RefreshedType, ToRow
      , ZenonT(40) DEF TypeOK, ApplyTaskStatus, Rows, WorkerRec
  <2>2. worker' \in [Workers -> WorkerRec]
    BY <1>2, <1>t DEF TypeOK, ApplyTaskStatus, WorkerAt, WorkerRec, WorkerPcs, TaskIds, Answers
  <2> QED
    BY <1>2, <2>1, <2>2 DEF TypeOK, ApplyTaskStatus, wikiVars, remoteVars
<1>3. CASE SelectPending(w)
  <2>1. PICK S \in Limited(Eligible, worker[w].left) :
           WorkerAt(w, [WorkerIdle EXCEPT !.pc = "pick", !.picks = S])
    BY <1>3 DEF SelectPending
  <2>2. S \subseteq Features
    BY <1>t, LimitedType DEF WorkerRec, Eligible
  <2>3. worker' \in [Workers -> WorkerRec]
    BY <2>1, <2>2, IdleType DEF TypeOK, WorkerAt, WorkerRec, WorkerPcs
  <2> QED
    BY <1>3, <2>3 DEF TypeOK, SelectPending, wikiVars, remoteVars
<1>4. ASSUME NEW f \in Features, NEW t \in Tasks, PollTask(w, <<f, t>>)
      PROVE  TypeOK'
  <2>1. worker' \in [Workers -> WorkerRec]
    BY <1>4, <1>t, AnswerType DEF TypeOK, PollTask, WorkerAt, WorkerRec, WorkerPcs, TaskIds
  <2> QED
    BY <1>4, <2>1 DEF TypeOK, PollTask, wikiVars, remoteVars
<1>5. ASSUME NEW f \in Features, NEW t \in Tasks, PollFails(w, <<f, t>>)
      PROVE  TypeOK'
  <2>1. worker' \in [Workers -> WorkerRec]
    BY <1>5, <1>t DEF TypeOK, PollFails, WorkerAt, WorkerRec
  <2>2. job' \in [Features -> Job \cup {None}]
    BY <1>5, FailedType DEF TypeOK, PollFails, Rows
  <2>3. faults' \in 0 .. MaxFaults
    BY <1>5, MaxFaultsAssumption DEF TypeOK, PollFails, Fault
  <2> QED
    BY <1>5, <2>1, <2>2, <2>3 DEF TypeOK, PollFails, wikiVars, remoteVars
<1> QED
  BY <1>1, <1>2, <1>3, <1>4, <1>5

LEMMA PickTypes ==
  ASSUME TypeOK, NEW w \in Workers,
         EndRun(w) \/ \E f \in Features : SkipPick(w, f) \/ PickJob(w, f)
  PROVE  TypeOK'
<1>t. worker[w] \in WorkerRec
  BY DEF TypeOK
<1>1. CASE EndRun(w)
  BY <1>1, IdleType DEF TypeOK, EndRun, WorkerAt, wikiVars, remoteVars
<1>2. ASSUME NEW f \in Features, SkipPick(w, f)
      PROVE  TypeOK'
  <2>1. worker' \in [Workers -> WorkerRec]
    BY <1>2, <1>t DEF TypeOK, SkipPick, WorkerAt, WorkerRec
  <2> QED
    BY <1>2, <2>1 DEF TypeOK, SkipPick, wikiVars, remoteVars
<1>3. ASSUME NEW f \in Features, PickJob(w, f)
      PROVE  TypeOK'
  <2>1. job[f] \in Job
    BY <1>3, ToRow DEF TypeOK, PickJob, Rows
  <2>2. job' \in [Features -> Job \cup {None}]
    BY <1>3, <2>1, PickedType DEF TypeOK, PickJob
  <2>3. worker' \in [Workers -> WorkerRec]
    BY <1>3, <1>t, <2>1 DEF TypeOK, PickJob, WorkerAt, WorkerRec, WorkerPcs, Job
  <2> QED
    BY <1>3, <2>2, <2>3 DEF TypeOK, PickJob, wikiVars, remoteVars
<1> QED
  BY <1>1, <1>2, <1>3

(* An actor that is in the middle of something is so for some feature. *)
Assigned ==
    /\ \A r \in Requests : request[r].pc # "idle" => request[r].f \in Features
    /\ \A w \in Workers :
          worker[w].pc \in {"apply", "call", "record"} => worker[w].f \in Features

Upload(w) == \/ UploadDone(w) \/ UploadMissingDirectory(w)
             \/ \E t \in Tasks : UploadQueued(w, t) \/ UploadTimesOut(w, t)
Delete(w) == DeleteDone(w) \/ DeleteConflicts(w)

LEMMA UploadTypes ==
  ASSUME TypeOK, Assigned, NEW w \in Workers, Upload(w)
  PROVE  TypeOK'
<1>t. worker[w] \in WorkerRec
  BY DEF TypeOK
<1>f. worker[w].f \in Features
  BY DEF Assigned, Upload, UploadDone, UploadMissingDirectory, UploadQueued, UploadTimesOut
<1>1. CASE UploadDone(w)
  <2>1. worker' \in [Workers -> WorkerRec]
    BY <1>1, <1>t DEF TypeOK, UploadDone, WorkerAt, WorkerRec, WorkerPcs, TaskIds
  <2>2. remote' \in [Features -> Contents]
    BY <1>1, <1>f DEF TypeOK, UploadDone
  <2> QED
    BY <1>1, <2>1, <2>2 DEF TypeOK, UploadDone, wikiVars
<1>2. CASE UploadMissingDirectory(w)
  BY <1>2, <1>f, CallRaisesTypes
     DEF TypeOK, UploadMissingDirectory, Rows, wikiVars, remoteVars
<1>3. ASSUME NEW t \in Tasks, UploadQueued(w, t)
      PROVE  TypeOK'
  <2>1. worker' \in [Workers -> WorkerRec]
    BY <1>3, <1>t DEF TypeOK, UploadQueued, WorkerAt, WorkerRec, WorkerPcs, TaskIds
  <2>2. task' \in [Tasks -> TaskRec \cup {None}]
    BY <1>3, <1>f DEF TypeOK, UploadQueued, TaskRec, Contents
  <2>3. inbox' \in [Features -> Seq(Tasks)]
    BY <1>3, <1>f DEF TypeOK, UploadQueued
  <2> QED
    BY <1>3, <2>1, <2>2, <2>3 DEF TypeOK, UploadQueued, wikiVars
<1>4. ASSUME NEW t \in Tasks, UploadTimesOut(w, t)
      PROVE  TypeOK'
  <2>1. job' \in [Features -> Rows] /\ worker' \in [Workers -> WorkerRec]
    BY <1>4, <1>f, CallRaisesTypes DEF UploadTimesOut
  <2>2. task' \in [Tasks -> TaskRec \cup {None}]
    BY <1>4, <1>f DEF TypeOK, UploadTimesOut, TaskRec, Contents
  <2>3. inbox' \in [Features -> Seq(Tasks)]
    BY <1>4, <1>f DEF TypeOK, UploadTimesOut
  <2>4. faults' \in 0 .. MaxFaults
    BY <1>4, MaxFaultsAssumption DEF TypeOK, UploadTimesOut, Fault
  <2> QED
    BY <1>4, <2>1, <2>2, <2>3, <2>4 DEF TypeOK, UploadTimesOut, Rows, wikiVars
<1> QED
  BY <1>1, <1>2, <1>3, <1>4 DEF Upload

LEMMA DeleteTypes ==
  ASSUME TypeOK, Assigned, NEW w \in Workers, Delete(w) \/ ServerUnavailable(w) \/ RecordResult(w)
  PROVE  TypeOK'
<1>t. worker[w] \in WorkerRec
  BY DEF TypeOK
<1>f. worker[w].f \in Features
  BY DEF Assigned, Delete, DeleteDone, DeleteConflicts, ServerUnavailable, RecordResult
<1>1. CASE DeleteDone(w)
  <2>1. worker' \in [Workers -> WorkerRec]
    BY <1>1, <1>t DEF TypeOK, DeleteDone, WorkerAt, WorkerRec, WorkerPcs, TaskIds
  <2>2. remote' \in [Features -> Contents]
    BY <1>1, <1>f DEF TypeOK, DeleteDone, Contents
  <2> QED
    BY <1>1, <2>1, <2>2 DEF TypeOK, DeleteDone, wikiVars
<1>2. CASE DeleteConflicts(w)
  BY <1>2, <1>f, CallRaisesTypes DEF TypeOK, DeleteConflicts, Rows, wikiVars, remoteVars
<1>3. CASE ServerUnavailable(w)
  <2>1. faults' \in 0 .. MaxFaults
    BY <1>3, MaxFaultsAssumption DEF TypeOK, ServerUnavailable, Fault
  <2> QED
    BY <1>3, <1>f, <2>1, CallRaisesTypes
       DEF TypeOK, ServerUnavailable, Rows, wikiVars, remoteVars
<1>4. CASE RecordResult(w)
  <2>1. job' \in [Features -> Rows]
    BY <1>4, <1>f, RecordedType DEF TypeOK, RecordResult, Rows
  <2>2. worker' \in [Workers -> WorkerRec]
    BY <1>4, NextPickType DEF RecordResult
  <2> QED
    BY <1>4, <2>1, <2>2 DEF TypeOK, RecordResult, Rows, wikiVars, remoteVars
<1> QED
  BY <1>1, <1>2, <1>3, <1>4 DEF Delete

LEMMA SweeperTypes ==
  ASSUME TypeOK, SweeperStep \/ ListFails
  PROVE  TypeOK'
<1>i. SweeperIdle \in SweeperRec
  BY DEF SweeperIdle, SweeperRec, SweeperPcs, Contents
<1>t. sweeper \in SweeperRec
  BY DEF TypeOK
<1> USE DEF Sweeper
<1>1. CASE StartSweep
  <2>1. job' \in [Features -> Job \cup {None}]
    BY <1>1 DEF TypeOK, StartSweep
  <2>2. sweeper' \in SweeperRec
    BY <1>1, <1>t DEF StartSweep, SweeperRec, SweeperPcs
  <2> QED
    BY <1>1, <2>1, <2>2 DEF TypeOK, StartSweep, wikiVars, remoteVars
<1>2. CASE ListRemote \/ CompareRemote \/ ReconcileEnds
  <2>1. sweeper' \in SweeperRec
    BY <1>2, <1>t, ZenonT(40) DEF ListRemote, CompareRemote, ReconcileEnds, SweeperRec, SweeperPcs
  <2> QED
    BY <1>2, <2>1 DEF TypeOK, ListRemote, CompareRemote, ReconcileEnds, wikiVars, remoteVars
<1>3. CASE ListFails
  <2>1. sweeper' \in SweeperRec
    BY <1>3, <1>t DEF ListFails, SweeperRec, SweeperPcs
  <2>2. faults' \in 0 .. MaxFaults
    BY <1>3, MaxFaultsAssumption DEF TypeOK, ListFails, Fault
  <2> QED
    BY <1>3, <2>1, <2>2 DEF TypeOK, ListFails, wikiVars, remoteVars
<1>4. ASSUME NEW f \in Features, ReconcileDelete(f)
      PROVE  TypeOK'
  <2>1. job' \in [Features -> Job \cup {None}]
    BY <1>4, EnqueuedType DEF TypeOK, ReconcileDelete, Rows, Hashes, Operations
  <2>2. sweeper' \in SweeperRec
    BY <1>4, <1>t DEF ReconcileDelete, SweeperRec
  <2> QED
    BY <1>4, <2>1, <2>2 DEF TypeOK, ReconcileDelete, wikiVars, remoteVars
<1>5. CASE SweepCheck \/ SweepEnds
  <2>1. sweeper' \in SweeperRec
    BY <1>5, <1>i, <1>t DEF SweepCheck, SweepEnds, SweeperRec, SweeperPcs
  <2> QED
    BY <1>5, <2>1 DEF TypeOK, SweepCheck, SweepEnds, wikiVars, remoteVars
<1>6. CASE SweepSnapshot
  <2>1. sweeper' \in SweeperRec
    BY <1>6 DEF TypeOK, SweepSnapshot, SweeperRec, SweeperPcs, Contents
  <2> QED
    BY <1>6, <2>1 DEF TypeOK, SweepSnapshot, wikiVars, remoteVars
<1>7. ASSUME NEW f \in Features, SweepEnqueue(f)
      PROVE  TypeOK'
  <2>1. sweeper.seen[f] \in Hashes
    BY <1>t DEF SweeperRec, Contents, Hashes
  <2>2. job' \in [Features -> Job \cup {None}]
    BY <1>7, <2>1, EnqueuedType DEF TypeOK, SweepEnqueue, Rows, Operations
  <2>3. sweeper' \in SweeperRec
    BY <1>7, <1>t DEF SweepEnqueue, SweeperRec, Contents
  <2> QED
    BY <1>7, <2>2, <2>3 DEF TypeOK, SweepEnqueue, wikiVars, remoteVars
<1> QED
  BY <1>1, <1>2, <1>3, <1>4, <1>5, <1>6, <1>7 DEF SweeperStep

LEMMA ResetRowsType ==
  ASSUME TypeOK, NEW S, ResetRows(S)
  PROVE  job' \in [Features -> Job \cup {None}]
BY ResetType, ToRow DEF TypeOK, ResetRows, Rows

LEMMA AdminTypes ==
  ASSUME TypeOK, AdminStep
  PROVE  TypeOK'
<1>1. ASSUME job' \in [Features -> Job \cup {None}], RowsOnly
      PROVE  TypeOK'
  BY <1>1 DEF TypeOK, RowsOnly, AdminOnly, wikiVars, remoteVars
<1>2. ASSUME NEW f \in Features, AdminRetry(f) \/ AdminDelete(f)
      PROVE  TypeOK'
  <2>1. job' \in [Features -> Job \cup {None}]
    <3>1. CASE AdminRetry(f)
      <4>1. job[f] \in Job
        BY <3>1 DEF TypeOK, AdminRetry
      <4> QED
        BY <3>1, <4>1, ResetType DEF TypeOK, AdminRetry
    <3>2. CASE AdminDelete(f)
      BY <3>2 DEF TypeOK, AdminDelete
    <3> QED
      BY <1>2, <3>1, <3>2
  <2> QED
    BY <1>1, <1>2, <2>1 DEF AdminRetry, AdminDelete
<1>3. ASSUME NEW f \in Features, NEW operation \in Operations, AdminEnqueue(f, operation)
      PROVE  TypeOK'
  <2>1. job' \in [Features -> Job \cup {None}]
    BY <1>3, EnqueuedType DEF TypeOK, AdminEnqueue, Rows, Hashes
  <2> QED
    BY <1>1, <1>3, <2>1 DEF AdminEnqueue
<1>4. CASE AdminRetryFailed \/ AdminResync
  BY <1>1, <1>4, ResetRowsType DEF AdminRetryFailed, AdminResync
<1>5. ASSUME NEW next \in AdminPcs, AdminClears(next)
      PROVE  TypeOK'
  <2>1. remote' \in [Features -> Contents]
    BY <1>5 DEF TypeOK, AdminClears, ClearRoot, Contents
  <2> QED
    BY <1>5, <2>1 DEF TypeOK, AdminClears, AdminOnly, wikiVars
<1>6. CASE AdminResets \/ AdminSwitches
  <2>1. job' \in [Features -> Job \cup {None}]
    BY <1>6, ResetRowsType DEF AdminResets, AdminSwitches
  <2> QED
    BY <1>6, <2>1
       DEF TypeOK, AdminResets, AdminSwitches, AdminOnly, AdminPcs, wikiVars, remoteVars
<1>7. CASE AdminWipes
  <2>1. remote' \in [Features -> Contents] /\ inbox' \in [Features -> Seq(Tasks)]
    BY <1>7 DEF AdminWipes, Contents
  <2>2. task' \in [Tasks -> TaskRec \cup {None}]
    BY <1>7 DEF TypeOK, AdminWipes
  <2> QED
    BY <1>7, <2>1, <2>2 DEF TypeOK, AdminWipes, AdminOnly, AdminPcs, wikiVars
<1> QED
  BY <1>2, <1>3, <1>4, <1>5, <1>6, <1>7 DEF AdminStep, AdminPcs

(* The server's queues hold every unfinished task exactly once. *)
InFlight ==
    /\ \A f \in Features : \A i \in DOMAIN inbox[f] :
          task[inbox[f][i]] # None /\ task[inbox[f][i]].state = "queued"
    /\ \A f, g \in Features : \A i \in DOMAIN inbox[f], j \in DOMAIN inbox[g] :
          inbox[f][i] = inbox[g][j] => f = g /\ i = j

LEMMA HeadOfInbox ==
  ASSUME TypeOK, InFlight, NEW f \in Features, inbox[f] # << >>
  PROVE  /\ Head(inbox[f]) = inbox[f][1] /\ Head(inbox[f]) \in Tasks
         /\ task[Head(inbox[f])] \in TaskRec
         /\ Tail(inbox[f]) \in Seq(Tasks)
         /\ DOMAIN inbox[f] = 1 .. Len(inbox[f]) /\ Len(inbox[f]) \in Nat \ {0}
         /\ DOMAIN Tail(inbox[f]) = 1 .. (Len(inbox[f]) - 1)
         /\ \A i \in DOMAIN Tail(inbox[f]) :
               i + 1 \in DOMAIN inbox[f] /\ Tail(inbox[f])[i] = inbox[f][i + 1]
<1> DEFINE q == inbox[f]
<1>1. q \in Seq(Tasks) /\ q # << >>
  BY DEF TypeOK
<1>2. /\ Len(q) \in Nat \ {0} /\ DOMAIN q = 1 .. Len(q)
      /\ Head(q) = q[1] /\ Tail(q) \in Seq(Tasks) /\ Head(q) \in Tasks
      /\ Len(Tail(q)) = Len(q) - 1
  BY <1>1
<1>3. DOMAIN Tail(q) = 1 .. (Len(q) - 1)
  BY <1>2
<1>4. \A i \in 1 .. (Len(q) - 1) : Tail(q)[i] = q[i + 1]
  BY <1>1, <1>2
<1>5. 1 \in DOMAIN q
  BY <1>2
<1>6. task[Head(q)] \in TaskRec
  BY <1>2, <1>5 DEF TypeOK, InFlight
<1> QED
  BY <1>2, <1>3, <1>4, <1>6

LEMMA TaskEndsTypes ==
  ASSUME TypeOK, InFlight, NEW f \in Features, NEW state \in {"success", "failure"},
         TaskEnds(f, state)
  PROVE  /\ task' \in [Tasks -> TaskRec \cup {None}]
         /\ remote' \in [Features -> Contents]
         /\ inbox' \in [Features -> Seq(Tasks)]
<1> DEFINE t == Head(inbox[f])
<1>1. t \in Tasks /\ task[t] \in TaskRec /\ Tail(inbox[f]) \in Seq(Tasks)
  BY HeadOfInbox DEF TaskEnds
<1>2. [task[t] EXCEPT !.state = state] \in TaskRec
  BY <1>1 DEF TaskRec
<1>3. task' = [task EXCEPT ![t] = [task[t] EXCEPT !.state = state]]
  BY DEF TaskEnds
<1>4. task' \in [Tasks -> TaskRec \cup {None}]
  BY <1>1, <1>2, <1>3 DEF TypeOK
<1>5. remote' \in [Features -> Contents]
  BY <1>1 DEF TypeOK, TaskEnds, TaskRec, Contents
<1>6. inbox' \in [Features -> Seq(Tasks)]
  BY <1>1 DEF TypeOK, TaskEnds
<1> QED
  BY <1>4, <1>5, <1>6

LEMMA EnvTypes ==
  ASSUME TypeOK, InFlight, Environment \/ \E f \in Features : TaskFails(f)
  PROVE  TypeOK'
<1>1. ASSUME NEW f \in Features, TaskSucceeds(f)
      PROVE  TypeOK'
  <2>1. TaskEnds(f, "success") /\ UNCHANGED faults
    BY <1>1 DEF TaskSucceeds
  <2> QED
    BY <2>1, TaskEndsTypes DEF TypeOK, TaskEnds, ServerOnly, wikiVars
<1>2. ASSUME NEW f \in Features, TaskFails(f)
      PROVE  TypeOK'
  <2>1. TaskEnds(f, "failure") /\ faults' \in 0 .. MaxFaults
    BY <1>2, MaxFaultsAssumption DEF TypeOK, TaskFails, Fault
  <2> QED
    BY <2>1, TaskEndsTypes DEF TypeOK, TaskEnds, ServerOnly, wikiVars
<1>3. ASSUME NEW f \in Features, BackoffExpires(f)
      PROVE  TypeOK'
  <2>1. job[f] \in Job
    BY <1>3, ToRow DEF TypeOK, BackoffExpires, Rows
  <2>2. job' \in [Features -> Job \cup {None}]
    BY <1>3, <2>1 DEF TypeOK, BackoffExpires, Job
  <2> QED
    BY <1>3, <2>2 DEF TypeOK, BackoffExpires, wikiVars, remoteVars
<1>4. ASSUME NEW t \in Tasks, RecycleTask(t)
      PROVE  TypeOK'
  BY <1>4 DEF TypeOK, RecycleTask, ServerOnly, wikiVars
<1>5. CASE CooldownExpires
  BY <1>5 DEF TypeOK, CooldownExpires, wikiVars, remoteVars
<1> QED
  BY <1>1, <1>2, <1>3, <1>4, <1>5 DEF Environment

-----------------------------------------------------------------------------
(* Which actor changes what. *)

WikiSteps(r) == RequestStep(r) \/ Commit(r) \/ HookFails(r)
WorkSteps(w) == WorkerStep(w) \/ WorkerFault(w)

LEMMA WikiFrame ==
  ASSUME NEW r \in Requests, WikiSteps(r)
  PROVE  UNCHANGED <<worker, remoteVars>>
BY DEF WikiSteps, RequestStep, Commit, ProjectDocument, HookEnqueue, PruneFeature,
       RebuildFeature, CommitPublish, CommitArchive, CommitRestore, HookFails

LEMMA WorkFrame ==
  ASSUME NEW w \in Workers, WorkSteps(w)
  PROVE  /\ UNCHANGED request
         /\ \/ UNCHANGED <<task, inbox>>
            \/ \E t \in Tasks : UploadQueued(w, t) \/ UploadTimesOut(w, t)
BY DEF WorkSteps, WorkerStep, WorkerFault, StartRun, ApplyTaskStatus, SelectPending,
       EndRun, PollTask, PollFails, SkipPick, PickJob, UploadDone,
       UploadMissingDirectory, DeleteDone, DeleteConflicts, RecordResult,
       UploadQueued, UploadTimesOut, ServerUnavailable, remoteVars

LEMMA SweeperFrame ==
  ASSUME SweeperStep \/ ListFails
  PROVE  UNCHANGED <<request, worker, remoteVars>>
BY DEF SweeperStep, ListFails, StartSweep, ListRemote, CompareRemote, ReconcileEnds,
       SweepCheck, SweepSnapshot, SweepEnds, ReconcileDelete, SweepEnqueue

LEMMA AdminFrame ==
  ASSUME AdminStep
  PROVE  UNCHANGED <<request, worker>> /\ (UNCHANGED <<task, inbox>> \/ AdminWipes)
BY DEF AdminStep, AdminEnqueue, AdminRetry, AdminDelete, AdminRetryFailed, AdminResync,
       AdminClears, AdminResets, AdminSwitches, AdminWipes, AdminOnly, RowsOnly, remoteVars

LEMMA EnvFrame ==
  ASSUME Environment \/ \E f \in Features : TaskFails(f)
  PROVE  UNCHANGED <<request, worker>>
BY DEF Environment, TaskFails, TaskSucceeds, BackoffExpires, RecycleTask,
       CooldownExpires, TaskEnds, ServerOnly

LEMMA Actors ==
  ASSUME Next
  PROVE  \/ \E r \in Requests : WikiSteps(r)
         \/ \E w \in Workers : WorkSteps(w)
         \/ SweeperStep \/ ListFails
         \/ AdminStep
         \/ Environment \/ \E f \in Features : TaskFails(f)
BY DEF Next, Progress, Disturbance, WikiSteps, WorkSteps

-----------------------------------------------------------------------------
(* The rest of the inductive invariant. *)

LEMMA AssignedStep ==
  ASSUME TypeOK, Assigned, Next
  PROVE  Assigned'
<1>1. ASSUME NEW r \in Requests, WikiSteps(r)
      PROVE  Assigned'
  <2>1. UNCHANGED worker
    BY <1>1, WikiFrame
  <2>2. \A q \in Requests : q # r => request'[q] = request[q]
    BY <1>1 DEF TypeOK, WikiSteps, RequestStep, Commit, ProjectDocument, HookEnqueue,
       PruneFeature, RebuildFeature, CommitPublish, CommitArchive, CommitRestore,
       HookFails, Goto, Respond
  <2>3. request'[r].pc # "idle" => request'[r].f \in Features
    <3>0. request[r] \in RequestRec
      BY DEF TypeOK
    <3>1. CASE ProjectDocument(r) \/ PruneFeature(r)
      <4>1. PICK pc : pc # "idle" /\ Goto(r, pc)
        BY <3>1 DEF ProjectDocument, PruneFeature
      <4>2. request'[r] = [request[r] EXCEPT !.pc = pc]
        BY <4>1 DEF TypeOK, Goto
      <4>3. request'[r].f = request[r].f
        BY <3>0, <4>2 DEF RequestRec
      <4>4. request[r].f \in Features
        BY <3>1 DEF Assigned, ProjectDocument, PruneFeature
      <4> QED
        BY <4>3, <4>4
    <3>2. CASE HookEnqueue(r) \/ RebuildFeature(r) \/ HookFails(r)
      BY <3>2 DEF TypeOK, HookEnqueue, RebuildFeature, HookFails, Respond, RequestIdle
    <3>3. CASE Commit(r)
      BY <3>3 DEF TypeOK, Commit, CommitPublish, CommitArchive, CommitRestore
    <3> QED
      BY <1>1, <3>1, <3>2, <3>3 DEF WikiSteps, RequestStep
  <2> QED
    BY <2>1, <2>2, <2>3 DEF Assigned
<1>2. ASSUME NEW w \in Workers, WorkSteps(w)
      PROVE  Assigned'
  <2>1. UNCHANGED request
    BY <1>2, WorkFrame
  <2>2. \A v \in Workers : v # w => worker'[v] = worker[v]
    BY <1>2 DEF TypeOK, WorkSteps, WorkerStep, WorkerFault, StartRun, ApplyTaskStatus,
       SelectPending, EndRun, PollTask, PollFails, SkipPick, PickJob, UploadDone,
       UploadMissingDirectory, DeleteDone, DeleteConflicts, RecordResult, UploadQueued,
       UploadTimesOut, ServerUnavailable, WorkerAt, CallRaises, NextPick
  <2>3. worker'[w].pc \in {"apply", "call", "record"} => worker'[w].f \in Features
    <3>t. worker[w] \in WorkerRec
      BY DEF TypeOK
    <3>0. ASSUME NEW e, WorkerAt(w, e)
          PROVE  worker'[w] = e
      BY <3>0 DEF TypeOK, WorkerAt
    <3>1. CASE StartRun(w)
      <4>1. PICK S : WorkerAt(w, [WorkerIdle EXCEPT !.pc = "poll",
                                     !.polls = {<<f, job[f].task>> : f \in S},
                                     !.left = Limit - Cardinality(S)])
        BY <3>1 DEF StartRun
      <4>2. worker'[w].pc = "poll"
        BY <3>0, <4>1 DEF WorkerIdle
      <4> QED
        BY <4>2
    <3>2. CASE ApplyTaskStatus(w) \/ SelectPending(w) \/ EndRun(w)
      <4>1. CASE ApplyTaskStatus(w)
        BY <3>0, <3>t, <4>1 DEF ApplyTaskStatus, WorkerRec
      <4>2. CASE SelectPending(w)
        BY <3>0, <4>2 DEF SelectPending, WorkerIdle
      <4>3. CASE EndRun(w)
        BY <3>0, <4>3 DEF EndRun, WorkerIdle
      <4> QED
        BY <3>2, <4>1, <4>2, <4>3
    <3>3. ASSUME NEW f \in Features, NEW t \in Tasks, PollTask(w, <<f, t>>)
          PROVE  worker'[w].f \in Features
      BY <3>0, <3>3, <3>t DEF PollTask, WorkerRec
    <3>4. ASSUME NEW f \in Features, NEW t \in Tasks, PollFails(w, <<f, t>>)
          PROVE  worker'[w].pc = "poll"
      BY <3>0, <3>4, <3>t DEF PollFails, WorkerRec
    <3>7. ASSUME NEW f \in Features, SkipPick(w, f)
          PROVE  worker'[w].pc = "pick"
      BY <3>0, <3>7, <3>t DEF SkipPick, WorkerRec
    <3>8. ASSUME NEW f \in Features, PickJob(w, f)
          PROVE  worker'[w].f \in Features
      BY <3>0, <3>8, <3>t DEF PickJob, WorkerRec
    <3>9. CASE UploadDone(w) \/ DeleteDone(w) \/ \E t \in Tasks : UploadQueued(w, t)
      <4>1. worker[w].f \in Features
        BY <3>9 DEF Assigned, UploadDone, DeleteDone, UploadQueued
      <4>2. PICK t : WorkerAt(w, [worker[w] EXCEPT !.pc = "record", !.task = t])
        BY <3>9 DEF UploadDone, DeleteDone, UploadQueued
      <4>3. worker'[w].f = worker[w].f
        BY <3>0, <3>t, <4>2 DEF WorkerRec
      <4> QED
        BY <4>1, <4>3
    <3>5. CASE NextPick(w)
      BY <3>5 DEF TypeOK, NextPick, WorkerAt, WorkerIdle
    <3>6. CASE \/ UploadMissingDirectory(w) \/ DeleteConflicts(w) \/ RecordResult(w)
               \/ ServerUnavailable(w) \/ \E t \in Tasks : UploadTimesOut(w, t)
      BY <3>5, <3>6 DEF UploadMissingDirectory, DeleteConflicts, RecordResult,
         ServerUnavailable, UploadTimesOut, CallRaises
    <3> QED
      BY <1>2, <3>1, <3>2, <3>3, <3>4, <3>6, <3>7, <3>8, <3>9
         DEF WorkSteps, WorkerStep, WorkerFault
  <2> QED
    BY <2>1, <2>2, <2>3 DEF Assigned
<1>3. ASSUME UNCHANGED <<request, worker>>
      PROVE  Assigned'
  BY <1>3 DEF Assigned
<1> QED
  BY <1>1, <1>2, <1>3, Actors, SweeperFrame, AdminFrame, EnvFrame

LEMMA InFlightStep ==
  ASSUME TypeOK, Assigned, InFlight, Next
  PROVE  InFlight'
<1>1. ASSUME UNCHANGED <<task, inbox>>
      PROVE  InFlight'
  BY <1>1 DEF InFlight
<1>2. ASSUME NEW w \in Workers, NEW t \in Tasks,
             UploadQueued(w, t) \/ UploadTimesOut(w, t)
      PROVE  InFlight'
  <2> DEFINE f == worker[w].f
  <2>f. f \in Features
    BY <1>2 DEF Assigned, UploadQueued, UploadTimesOut
  <2>1. /\ task[t] = None
        /\ task' = [task EXCEPT ![t] = [content |-> disk[f], state |-> "queued"]]
        /\ inbox' = [inbox EXCEPT ![f] = Append(inbox[f], t)]
        /\ disk[f] \in Versions
    BY <1>2, <2>f DEF TypeOK, Contents, UploadQueued, UploadTimesOut, Fresh
  <2>2. task'[t] # None /\ task'[t].state = "queued"
    BY <2>1, NoTaskAssumption DEF TypeOK, TaskRec
  <2>3. \A g \in Features : \A i \in DOMAIN inbox[g] : inbox[g][i] # t
    BY <2>1 DEF InFlight
  <2>4. /\ DOMAIN inbox'[f] = 1 .. (Len(inbox[f]) + 1) /\ DOMAIN inbox[f] = 1 .. Len(inbox[f])
        /\ Len(inbox[f]) \in Nat
        /\ inbox'[f][Len(inbox[f]) + 1] = t
        /\ \A i \in DOMAIN inbox[f] : inbox'[f][i] = inbox[f][i]
        /\ \A g \in Features : g # f => inbox'[g] = inbox[g]
    <3>1. inbox[f] \in Seq(Tasks)
      BY <2>f DEF TypeOK
    <3>2. inbox'[f] = Append(inbox[f], t)
      BY <2>1, <2>f DEF TypeOK
    <3> QED
      BY <2>1, <2>f, <3>1, <3>2 DEF TypeOK
  <2>5. \A g \in Features : \A i \in DOMAIN inbox'[g] :
           \/ i \in DOMAIN inbox[g] /\ inbox'[g][i] = inbox[g][i]
           \/ g = f /\ i = Len(inbox[f]) + 1 /\ inbox'[g][i] = t
    BY <2>4
  <2>6. \A g \in Features : \A i \in DOMAIN inbox'[g] :
           task'[inbox'[g][i]] # None /\ task'[inbox'[g][i]].state = "queued"
    <3> SUFFICES ASSUME NEW g \in Features, NEW i \in DOMAIN inbox'[g]
                 PROVE  task'[inbox'[g][i]] # None /\ task'[inbox'[g][i]].state = "queued"
      OBVIOUS
    <3>1. CASE i \in DOMAIN inbox[g] /\ inbox'[g][i] = inbox[g][i]
      <4>1. inbox[g][i] \in Tasks /\ inbox[g][i] # t
        BY <2>3, <3>1 DEF TypeOK
      <4>2. task'[inbox[g][i]] = task[inbox[g][i]]
        BY <2>1, <4>1 DEF TypeOK
      <4> QED
        BY <3>1, <4>2 DEF InFlight
    <3> QED
      BY <2>2, <2>5, <3>1
  <2>7. \A g, h \in Features : \A i \in DOMAIN inbox'[g], j \in DOMAIN inbox'[h] :
           inbox'[g][i] = inbox'[h][j] => g = h /\ i = j
    BY <2>3, <2>5 DEF InFlight
  <2> QED
    BY <2>6, <2>7 DEF InFlight
<1>3. ASSUME NEW f \in Features, NEW state \in {"success", "failure"}, TaskEnds(f, state)
      PROVE  InFlight'
  <2>1. inbox[f] # << >>
    BY <1>3 DEF TaskEnds
  <2> DEFINE t == Head(inbox[f])
  <2>2. /\ \A u \in Tasks : u # t => task'[u] = task[u]
        /\ inbox' = [inbox EXCEPT ![f] = Tail(inbox[f])]
    BY <1>3 DEF TypeOK, TaskEnds
  <2>3. \A g \in Features : g # f => inbox'[g] = inbox[g]
    BY <2>2 DEF TypeOK
  <2>4. inbox'[f] = Tail(inbox[f])
    BY <2>2 DEF TypeOK
  <2>5. /\ 1 \in DOMAIN inbox[f] /\ t = inbox[f][1]
        /\ \A i \in DOMAIN inbox'[f] : /\ i \in Nat \ {0} /\ i + 1 \in DOMAIN inbox[f]
                                       /\ inbox'[f][i] = inbox[f][i + 1]
    BY <2>1, <2>4, HeadOfInbox
  <2>6. \A g \in Features : \A i \in DOMAIN inbox'[g] : inbox'[g][i] # t
    <3> SUFFICES ASSUME NEW g \in Features, NEW i \in DOMAIN inbox'[g], inbox'[g][i] = t
                 PROVE  FALSE
      OBVIOUS
    <3>1. CASE g = f
      <4>1. i + 1 \in DOMAIN inbox[f] /\ inbox[f][i + 1] = inbox[f][1] /\ i \in Nat \ {0}
        BY <2>5, <3>1
      <4>2. i + 1 = 1
        BY <2>5, <4>1 DEF InFlight
      <4> QED
        BY <4>1, <4>2
    <3>2. CASE g # f
      BY <2>3, <2>5, <3>2 DEF InFlight
    <3> QED
      BY <3>1, <3>2
  <2>7. ASSUME NEW g \in Features, NEW i \in DOMAIN inbox'[g]
        PROVE  \E k \in DOMAIN inbox[g] :
                  inbox'[g][i] = inbox[g][k] /\ k = IF g = f THEN i + 1 ELSE i
    BY <2>3, <2>5
  <2>8. \A g \in Features : \A i \in DOMAIN inbox'[g] :
           task'[inbox'[g][i]] # None /\ task'[inbox'[g][i]].state = "queued"
    <3> SUFFICES ASSUME NEW g \in Features, NEW i \in DOMAIN inbox'[g]
                 PROVE  task'[inbox'[g][i]] # None /\ task'[inbox'[g][i]].state = "queued"
      OBVIOUS
    <3>1. PICK k \in DOMAIN inbox[g] : inbox'[g][i] = inbox[g][k]
      BY <2>7
    <3>2. inbox[g][k] \in Tasks /\ inbox[g][k] # t
      BY <2>6, <3>1 DEF TypeOK
    <3> QED
      BY <2>2, <3>1, <3>2 DEF InFlight
  <2>9. \A g, h \in Features : \A i \in DOMAIN inbox'[g], j \in DOMAIN inbox'[h] :
           inbox'[g][i] = inbox'[h][j] => g = h /\ i = j
    <3> SUFFICES ASSUME NEW g \in Features, NEW h \in Features,
                        NEW i \in DOMAIN inbox'[g], NEW j \in DOMAIN inbox'[h],
                        inbox'[g][i] = inbox'[h][j]
                 PROVE  g = h /\ i = j
      OBVIOUS
    <3>1. PICK k \in DOMAIN inbox[g] :
             inbox'[g][i] = inbox[g][k] /\ k = IF g = f THEN i + 1 ELSE i
      BY <2>7
    <3>2. PICK l \in DOMAIN inbox[h] :
             inbox'[h][j] = inbox[h][l] /\ l = IF h = f THEN j + 1 ELSE j
      BY <2>7
    <3>3. inbox[g][k] = inbox[h][l]
      BY <3>1, <3>2
    <3>5. g = h /\ k = l
      BY <3>3 DEF InFlight
    <3>4. CASE g = f
      BY <2>5, <3>1, <3>2, <3>5, <3>4
    <3> QED
      BY <3>1, <3>2, <3>5, <3>4
  <2> QED
    BY <2>8, <2>9 DEF InFlight
<1>4. ASSUME NEW t \in Tasks, RecycleTask(t)
      PROVE  InFlight'
  <2>1. UNCHANGED inbox /\ Ended(t) /\ \A u \in Tasks : u # t => task'[u] = task[u]
    BY <1>4 DEF TypeOK, RecycleTask
  <2>2. \A f \in Features : \A i \in DOMAIN inbox[f] :
           inbox[f][i] \in Tasks /\ inbox[f][i] # t
    BY <2>1 DEF TypeOK, InFlight, Ended
  <2> QED
    BY <2>1, <2>2 DEF InFlight
<1>5. CASE Environment \/ \E f \in Features : TaskFails(f)
  <2>1. CASE (\E f \in Features : BackoffExpires(f)) \/ CooldownExpires
    BY <1>1, <2>1 DEF BackoffExpires, CooldownExpires, remoteVars
  <2> QED
    BY <1>3, <1>4, <1>5, <2>1 DEF Environment, TaskSucceeds, TaskFails
<1>6. CASE \E w \in Workers : WorkSteps(w)
  BY <1>1, <1>2, <1>6, WorkFrame
<1>7. CASE AdminWipes
  BY <1>7 DEF InFlight, AdminWipes
<1> QED
  BY <1>1, <1>5, <1>6, <1>7, Actors, WikiFrame, SweeperFrame, AdminFrame DEF remoteVars

LEMMA TypeStep ==
  ASSUME TypeOK, Assigned, InFlight, Next
  PROVE  TypeOK'
<1>1. ASSUME NEW r \in Requests, WikiSteps(r)
      PROVE  TypeOK'
  BY <1>1, RequestTypes DEF WikiSteps
<1>2. ASSUME NEW w \in Workers, WorkSteps(w)
      PROVE  TypeOK'
  <2>1. CASE \/ StartRun(w) \/ ApplyTaskStatus(w) \/ SelectPending(w)
             \/ \E f \in Features, t \in Tasks : PollTask(w, <<f, t>>) \/ PollFails(w, <<f, t>>)
    BY <2>1, RefreshTypes
  <2>2. CASE EndRun(w) \/ \E f \in Features : SkipPick(w, f) \/ PickJob(w, f)
    BY <2>2, PickTypes
  <2>3. CASE Upload(w)
    BY <2>3, UploadTypes
  <2>4. CASE Delete(w) \/ ServerUnavailable(w) \/ RecordResult(w)
    BY <2>4, DeleteTypes
  <2> QED
    BY <1>2, <2>1, <2>2, <2>3, <2>4 DEF WorkSteps, WorkerStep, WorkerFault, Upload, Delete
<1>3. CASE SweeperStep \/ ListFails
  BY <1>3, SweeperTypes
<1>4. CASE AdminStep
  BY <1>4, AdminTypes
<1>5. CASE Environment \/ \E f \in Features : TaskFails(f)
  BY <1>5, EnvTypes
<1> QED
  BY <1>1, <1>2, <1>3, <1>4, <1>5, Actors

Sound == TypeOK /\ Assigned /\ InFlight

LEMMA SoundInit == Init => Sound
<1> SUFFICES ASSUME Init
             PROVE  Sound
  OBVIOUS
<1>1. TypeOK
  <2>1. RequestIdle \in RequestRec
    BY DEF RequestIdle, RequestRec, RequestPcs
  <2>2. sweeper \in SweeperRec
    <3>1. SweeperIdle \in SweeperRec
      BY DEF SweeperIdle, SweeperRec, SweeperPcs, Contents
    <3> QED
      BY <3>1 DEF Init, Backfill, SweeperRec, SweeperPcs
  <2>3. request \in [Requests -> RequestRec] /\ worker \in [Workers -> WorkerRec]
    BY <2>1, IdleType DEF Init
  <2>4. /\ inbox \in [Features -> Seq(Tasks)] /\ task \in [Tasks -> TaskRec \cup {None}]
        /\ job \in [Features -> Job \cup {None}]
    BY DEF Init
  <2> QED
    BY <2>2, <2>3, <2>4, Bounds DEF Init, TypeOK, Contents, AdminPcs
<1>2. Assigned
  BY DEF Init, Assigned, RequestIdle, WorkerIdle
<1>3. InFlight
  BY DEF Init, InFlight
<1> QED
  BY <1>1, <1>2, <1>3 DEF Sound

LEMMA SoundAlways == Spec => []Sound
<1>1. Sound /\ [Next]_vars => Sound'
  <2>1. ASSUME Sound, Next
        PROVE  Sound'
    BY <2>1, TypeStep, AssignedStep, InFlightStep DEF Sound
  <2>2. ASSUME Sound, UNCHANGED vars
        PROVE  Sound'
    BY <2>2 DEF Sound, TypeOK, Assigned, InFlight, vars, wikiVars, remoteVars
  <2> QED
    BY <2>1, <2>2
<1> QED
  BY <1>1, SoundInit, PTL DEF Spec

(* Whatever requests, workers, the sweep and administrators do, and in     *)
(* whatever order their transactions meet, every row, queue and local      *)
(* state keeps its type.                                                   *)
THEOREM TypeCorrect == Spec => []TypeOK
<1>1. Sound => TypeOK
  BY DEF Sound
<1> QED
  BY <1>1, SoundAlways, PTL

-----------------------------------------------------------------------------
(* No open job is lost sight of. *)

\* What OpenJobsReachable asks of one row, when b tells if a worker owns it.
Reachable(j, b) ==
    /\ j # None /\ j.status = "failed" => j.retry # "none"
    /\ j # None /\ j.status = "running" /\ j.task = None => b

Owned(f) == \E w \in Workers : Owns(w, f)

LEMMA ReachableRows ==
  OpenJobsReachable <=> \A f \in Features : Reachable(job[f], Owned(f))
BY DEF OpenJobsReachable, Reachable, Owned, HasJob

LEMMA EnqueuedReachable ==
  ASSUME NEW j \in Rows, NEW operation \in Operations, NEW hash \in Hashes,
         NEW b \in BOOLEAN, Reachable(j, b)
  PROVE  Reachable(Enqueued(j, operation, hash), b)
BY DEF Rows, Job, Reachable, Enqueued, NewJob

LEMMA FailedReachable ==
  ASSUME NEW j \in Rows, NEW b \in BOOLEAN
  PROVE  Reachable(Failed(j), b)
BY DEF Rows, Job, Reachable, Failed

LEMMA ResetReachable ==
  ASSUME NEW j \in Job, NEW b \in BOOLEAN
  PROVE  Reachable(Reset(j), b)
BY DEF Job, Reachable, Reset

LEMMA RefreshedReachable ==
  ASSUME NEW j \in Job, NEW answer \in Answers, NEW b \in BOOLEAN, Reachable(j, b)
  PROVE  Reachable(Refreshed(j, answer), b)
BY FailedReachable DEF Job, Rows, Reachable, Refreshed, Failed

LEMMA RecordedReachable ==
  ASSUME NEW j \in Rows, NEW w \in Workers, NEW b \in BOOLEAN
  PROVE  Reachable(Recorded(j, w), b)
BY NoRowAssumption DEF Rows, Job, Reachable, Recorded

LEMMA OpenJobsReachableStep ==
  ASSUME Sound, OpenJobsReachable, Next
  PROVE  OpenJobsReachable'
<1> DEFINE Good(f) == Reachable(job'[f], \E w \in Workers : Owns(w, f)')
<1>t. TypeOK /\ Assigned
  BY DEF Sound
<1>r. \A f \in Features : job[f] \in Rows /\ Reachable(job[f], Owned(f))
  BY <1>t, ReachableRows DEF TypeOK, Rows
<1>g. ASSUME \A f \in Features : Good(f)
      PROVE  OpenJobsReachable'
  BY <1>g DEF OpenJobsReachable, Reachable, HasJob
\* Steps that leave every worker where it is: only the rows matter.
<1>k. ASSUME UNCHANGED worker, NEW f \in Features, Reachable(job'[f], Owned(f))
      PROVE  Good(f)
  <2>1. Owned(f) <=> \E w \in Workers : Owns(w, f)'
    BY <1>k DEF Owned, Owns
  <2> QED
    BY <1>k, <2>1 DEF Reachable
<1>1. ASSUME NEW r \in Requests, WikiSteps(r)
      PROVE  OpenJobsReachable'
  <2>1. UNCHANGED worker
    BY <1>1, WikiFrame
  <2>2. CASE HookEnqueue(r)
    <3> DEFINE f == request[r].f
    <3>1. job' = [job EXCEPT ![f] = Enqueued(job[f], request[r].pc, None)]
      BY <2>2 DEF HookEnqueue
    <3>2. request[r].pc \in Operations /\ None \in Hashes
      BY <2>2 DEF HookEnqueue, Hashes
    <3>3. \A g \in Features : Reachable(job'[g], Owned(g))
      BY <1>r, <1>t, <3>1, <3>2, EnqueuedReachable DEF TypeOK, Owned
    <3> QED
      BY <1>g, <1>k, <2>1, <3>3
  <2>3. CASE ~HookEnqueue(r)
    <3>1. UNCHANGED job
      BY <1>1, <2>3 DEF WikiSteps, RequestStep, Commit, ProjectDocument, PruneFeature,
         RebuildFeature, CommitPublish, CommitArchive, CommitRestore, HookFails
    <3> QED
      BY <1>g, <1>k, <1>r, <2>1, <3>1
  <2> QED
    BY <2>2, <2>3
<1>2. CASE SweeperStep \/ ListFails
  <2>1. UNCHANGED worker
    BY <1>2, SweeperFrame
  <2>2. \A g \in Features : Reachable(job'[g], Owned(g))
    <3>1. CASE StartSweep
      BY <1>r, <3>1 DEF StartSweep, Reachable
    <3>2. ASSUME NEW f \in Features, ReconcileDelete(f)
          PROVE  \A g \in Features : Reachable(job'[g], Owned(g))
      BY <1>r, <1>t, <3>2, EnqueuedReachable
         DEF TypeOK, ReconcileDelete, Owned, Operations, Hashes
    <3>3. ASSUME NEW f \in Features, SweepEnqueue(f)
          PROVE  \A g \in Features : Reachable(job'[g], Owned(g))
      <4>1. sweeper.seen[f] \in Hashes
        BY <1>t DEF TypeOK, SweeperRec, Contents, Hashes
      <4> QED
        BY <1>r, <1>t, <3>3, <4>1, EnqueuedReachable DEF TypeOK, SweepEnqueue, Owned, Operations
    <3>4. CASE UNCHANGED job
      BY <1>r, <3>4
    <3> QED
      BY <1>2, <3>1, <3>2, <3>3, <3>4
         DEF SweeperStep, ListFails, ListRemote, CompareRemote, ReconcileEnds, SweepCheck,
             SweepSnapshot, SweepEnds
  <2> QED
    BY <1>g, <1>k, <2>1, <2>2
<1>3. CASE AdminStep
  <2>1. UNCHANGED worker
    BY <1>3, AdminFrame
  <2>2. ASSUME NEW S, ResetRows(S)
        PROVE  \A g \in Features : Reachable(job'[g], Owned(g))
    BY <1>r, <1>t, <2>2, ToRow, ResetReachable DEF TypeOK, ResetRows, Owned, Rows
  <2>3. ASSUME NEW f \in Features, AdminRetry(f) \/ AdminDelete(f)
        PROVE  \A g \in Features : Reachable(job'[g], Owned(g))
    <3>1. \A g \in Features : \/ job'[g] = job[g]
                              \/ job'[g] = None
                              \/ job[g] \in Job /\ job'[g] = Reset(job[g])
      BY <1>t, <2>3 DEF TypeOK, AdminRetry, AdminDelete
    <3> QED
      BY <1>r, <3>1, ResetReachable DEF Owned, Reachable
  <2>4. ASSUME NEW f \in Features, NEW operation \in Operations, AdminEnqueue(f, operation)
        PROVE  \A g \in Features : Reachable(job'[g], Owned(g))
    <3>1. Reachable(Enqueued(job[f], operation, None), Owned(f))
      BY <1>r, EnqueuedReachable DEF Owned, Hashes
    <3>2. job' = [job EXCEPT ![f] = Enqueued(job[f], operation, None)]
      BY <2>4 DEF AdminEnqueue
    <3> QED
      BY <1>r, <1>t, <3>1, <3>2 DEF TypeOK
  <2>5. ASSUME UNCHANGED job
        PROVE  \A g \in Features : Reachable(job'[g], Owned(g))
    BY <1>r, <2>5
  <2>6. \A g \in Features : Reachable(job'[g], Owned(g))
    <3>1. CASE AdminRetryFailed \/ AdminResync \/ AdminResets \/ AdminSwitches
      BY <2>2, <3>1 DEF AdminRetryFailed, AdminResync, AdminResets, AdminSwitches
    <3>2. CASE AdminClears("resync") \/ AdminClears("mark") \/ AdminWipes
      BY <2>5, <3>2 DEF AdminClears, AdminWipes
    <3> QED
      BY <1>3, <2>3, <2>4, <3>1, <3>2 DEF AdminStep
  <2> QED
    BY <1>g, <1>k, <2>1, <2>6
<1>4. CASE Environment \/ \E f \in Features : TaskFails(f)
  <2>1. UNCHANGED worker
    BY <1>4, EnvFrame
  <2>2. \A g \in Features : Reachable(job'[g], Owned(g))
    <3>1. ASSUME NEW f \in Features, BackoffExpires(f)
          PROVE  \A g \in Features : Reachable(job'[g], Owned(g))
      <4>1. job[f] \in Job /\ job[f].status = "failed"
        BY <1>t, <3>1, ToRow DEF TypeOK, BackoffExpires, HasJob, Rows
      <4>2. Reachable([job[f] EXCEPT !.retry = "due"], Owned(f))
        BY <4>1 DEF Reachable, Job
      <4> QED
        BY <1>r, <1>t, <3>1, <4>2 DEF TypeOK, BackoffExpires
    <3>2. CASE UNCHANGED job
      BY <1>r, <3>2
    <3> QED
      BY <1>4, <3>1, <3>2
         DEF Environment, TaskSucceeds, TaskFails, TaskEnds, RecycleTask, CooldownExpires,
             ServerOnly
  <2> QED
    BY <1>g, <1>k, <2>1, <2>2
<1>5. ASSUME NEW w \in Workers, WorkSteps(w)
      PROVE  OpenJobsReachable'
  <2>t. worker[w] \in WorkerRec
    BY <1>t DEF TypeOK
  <2>o. \A v \in Workers : v # w => worker'[v] = worker[v]
    BY <1>5, <1>t DEF TypeOK, WorkSteps, WorkerStep, WorkerFault, StartRun, ApplyTaskStatus,
       SelectPending, EndRun, PollTask, PollFails, SkipPick, PickJob, UploadDone,
       UploadMissingDirectory, DeleteDone, DeleteConflicts, RecordResult, UploadQueued,
       UploadTimesOut, ServerUnavailable, WorkerAt, CallRaises, NextPick
  \* A worker between calls owns nothing, so nothing is lost with it.
  <2>k. ASSUME NEW f \in Features, ~Owns(w, f), Reachable(job'[f], Owned(f))
        PROVE  Good(f)
    <3>1. Owned(f) => \E v \in Workers : Owns(v, f)'
      BY <2>k, <2>o DEF Owned, Owns
    <3> QED
      BY <2>k, <3>1 DEF Reachable
  <2>1. CASE worker[w].pc \in {"idle", "poll", "apply", "pick"}
             /\ ~\E f \in Features : PickJob(w, f)
    <3>1. \A f \in Features : ~Owns(w, f)
      BY <2>1 DEF Owns
    <3>2. \A g \in Features : Reachable(job'[g], Owned(g))
      <4>1. ASSUME NEW p \in Features \X Tasks, PollFails(w, p)
            PROVE  \A g \in Features : Reachable(job'[g], Owned(g))
        BY <1>r, <1>t, <4>1, FailedReachable DEF TypeOK, PollFails, Owned
      <4>2. CASE ApplyTaskStatus(w)
        <5> DEFINE f == worker[w].f
        <5>1. worker[w].answer \in Answers /\ f \in Features
          BY <1>t, <2>t, <4>2 DEF Assigned, ApplyTaskStatus, WorkerRec
        <5>2. CASE ~HasJob(f, {"running"})
          BY <1>r, <4>2, <5>2 DEF ApplyTaskStatus
        <5>3. CASE HasJob(f, {"running"})
          <6>1. job[f] \in Job
            BY <1>t, <5>1, <5>3, ToRow DEF TypeOK, Rows
          <6>2. Reachable(Refreshed(job[f], worker[w].answer), Owned(f))
            BY <1>r, <5>1, <6>1, RefreshedReachable DEF Owned
          <6>3. job' = [job EXCEPT ![f] = Refreshed(job[f], worker[w].answer)]
            BY <4>2, <5>3 DEF ApplyTaskStatus
          <6> QED
            BY <1>r, <1>t, <6>2, <6>3 DEF TypeOK
        <5> QED
          BY <5>2, <5>3
      <4>3. CASE UNCHANGED job
        BY <1>r, <4>3
      <4>4. CASE \/ Upload(w) \/ Delete(w) \/ RecordResult(w) \/ ServerUnavailable(w)
        BY <2>1, <4>4 DEF Upload, Delete, UploadDone, UploadMissingDirectory, UploadQueued,
           UploadTimesOut, DeleteDone, DeleteConflicts, RecordResult, ServerUnavailable
      <4> QED
        BY <1>5, <2>1, <4>1, <4>2, <4>3, <4>4
           DEF WorkSteps, WorkerStep, WorkerFault, StartRun, SelectPending, EndRun, PollTask,
               SkipPick, Upload, Delete
    <3> QED
      BY <1>g, <2>k, <3>1, <3>2
  <2>2. ASSUME NEW f \in Features, PickJob(w, f)
        PROVE  OpenJobsReachable'
    <3>1. /\ worker'[w] = [worker[w] EXCEPT !.pc = "call", !.picks = @ \ {f}, !.f = f,
                                            !.op = job[f].op, !.hash = job[f].hash]
          /\ job' = [job EXCEPT ![f] = Picked(job[f])]
          /\ worker[w].pc = "pick"
      BY <1>t, <2>2 DEF TypeOK, PickJob, WorkerAt
    <3>2. Owns(w, f)'
      BY <2>t, <3>1 DEF Owns, WorkerRec
    <3>3. job[f] \in Job
      BY <1>t, <2>2, ToRow DEF TypeOK, PickJob, Rows
    <3>4. Reachable(Picked(job[f]), TRUE)
      BY <3>3 DEF Picked, Reachable, Job
    <3>5. Good(f)
      BY <1>t, <3>1, <3>2, <3>4 DEF TypeOK, Reachable
    <3>6. \A g \in Features : g # f => Good(g)
      BY <1>r, <1>t, <2>k, <3>1 DEF TypeOK, Owns
    <3> QED
      BY <1>g, <3>5, <3>6
  <2>3. CASE (worker[w].pc = "call" /\ CallRaises(w)) \/ RecordResult(w)
    <3> DEFINE f == worker[w].f
    <3>0. f \in Features
      BY <1>t, <2>3 DEF Assigned, RecordResult
    <3>1. PICK j : Reachable(j, FALSE) /\ job' = [job EXCEPT ![f] = j]
      <4>1. Reachable(Failed(job[f]), FALSE) /\ Reachable(Recorded(job[f], w), FALSE)
        BY <1>r, <3>0, FailedReachable, RecordedReachable
      <4> QED
        BY <2>3, <4>1 DEF CallRaises, RecordResult
    <3>2. Good(f)
      BY <1>t, <3>0, <3>1 DEF TypeOK, Reachable
    <3>3. \A g \in Features : g # f => ~Owns(w, g) /\ job'[g] = job[g]
      BY <1>t, <3>0, <3>1 DEF TypeOK, Owns
    <3>4. \A g \in Features : g # f => Good(g)
      BY <1>r, <2>k, <3>3
    <3>5. \A g \in Features : Good(g)
      <4> HIDE DEF Good
      <4> QED
        BY <3>2, <3>4
    <3> QED
      BY <1>g, <3>5
  <2>4. CASE UploadDone(w) \/ DeleteDone(w) \/ \E t \in Tasks : UploadQueued(w, t)
    <3>1. UNCHANGED job
      BY <2>4 DEF UploadDone, DeleteDone, UploadQueued
    <3>2. PICK t : WorkerAt(w, [worker[w] EXCEPT !.pc = "record", !.task = t])
      BY <2>4 DEF UploadDone, DeleteDone, UploadQueued
    <3>3. worker'[w].f = worker[w].f /\ worker'[w].pc = "record"
      BY <1>t, <2>t, <3>2 DEF TypeOK, WorkerAt, WorkerRec
    <3>4. \A g \in Features : Owned(g) => \E v \in Workers : Owns(v, g)'
      BY <2>o, <3>3 DEF Owned, Owns
    <3>5. \A g \in Features : Good(g)
      BY <1>r, <3>1, <3>4 DEF Reachable
    <3> QED
      BY <1>g, <3>5
  <2> QED
    BY <1>5, <2>1, <2>2, <2>3, <2>4
       DEF WorkSteps, WorkerStep, WorkerFault, StartRun, ApplyTaskStatus, SelectPending,
           EndRun, PollTask, PollFails, SkipPick, UploadMissingDirectory, UploadTimesOut,
           DeleteConflicts, ServerUnavailable
<1> QED
  BY <1>1, <1>2, <1>3, <1>4, <1>5, Actors

(* No interleaving of requests, workers, the sweep and administrators      *)
(* leaves a job that no handler comes back to: failed without a retry      *)
(* time, or running with neither a server task nor a worker in its call.   *)
(* Only a crash of CodeAsk can.                                            *)
THEOREM OpenJobsAlwaysReachable == Spec => []OpenJobsReachable
<1>1. Init => OpenJobsReachable
  BY DEF Init, OpenJobsReachable, HasJob
<1>2. Sound /\ OpenJobsReachable /\ [Next]_vars => OpenJobsReachable'
  <2>1. ASSUME OpenJobsReachable, UNCHANGED vars
        PROVE  OpenJobsReachable'
    BY <2>1 DEF OpenJobsReachable, HasJob, Owns, vars
  <2> QED
    BY <2>1, OpenJobsReachableStep
<1> QED
  BY <1>1, <1>2, SoundAlways, PTL DEF Spec

-----------------------------------------------------------------------------
(* No delete is taken for an upload. *)

\* A row that asks for a delete holds a task id only while it is deferred
\* behind that task, and is not reported indexed.
Deleting(j) ==
    j # None /\ j.op = "delete" => /\ j.task # None => j.deferred
                                   /\ j.status # "indexed"

\* A worker about to call holds no task id, nor does one that has deleted.
Untasked(w) ==
    /\ worker[w].pc \in {"pick", "call"} => worker[w].task = None
    /\ worker[w].pc = "record" /\ worker[w].op = "delete" => worker[w].task = None

NoDeleteTask ==
    /\ \A f \in Features : Deleting(job[f])
    /\ \A w \in Workers : Untasked(w)

LEMMA EnqueuedDeleting ==
  ASSUME NEW j \in Rows, NEW operation \in Operations, NEW hash \in Hashes, Deleting(j)
  PROVE  Deleting(Enqueued(j, operation, hash))
BY DEF Rows, Job, Deleting, Enqueued, NewJob

LEMMA FailedDeleting ==
  ASSUME NEW j \in Rows, Deleting(j)
  PROVE  Deleting(Failed(j))
BY DEF Rows, Job, Deleting, Failed

LEMMA ResetDeleting ==
  ASSUME NEW j \in Job
  PROVE  Deleting(Reset(j))
BY DEF Job, Deleting, Reset

LEMMA RefreshedDeleting ==
  ASSUME NEW j \in Job, NEW answer \in Answers, Deleting(j), j.task # None
  PROVE  Deleting(Refreshed(j, answer))
<1>1. CASE answer = "failure"
  BY <1>1, FailedDeleting DEF Refreshed, Rows
<1>2. CASE answer = "success" /\ j.deferred /\ j.op = "delete"
  <2>1. Refreshed(j, answer) = [j EXCEPT !.status = "pending", !.task = None,
                                         !.deferred = FALSE, !.retry = "none"]
    BY <1>2 DEF Refreshed
  <2> QED
    BY <2>1 DEF Job, Deleting
<1>4. CASE answer = "success" /\ ~(j.deferred /\ j.op = "delete")
  <2>1. Refreshed(j, answer) = [j EXCEPT !.status = "indexed", !.retry = "none"]
    BY <1>4 DEF Refreshed
  <2>2. j.op # "delete"
    BY <1>4, NoRowAssumption DEF Deleting
  <2> QED
    BY <2>1, <2>2 DEF Job, Deleting
<1>3. CASE answer = "unknown"
  BY <1>3 DEF Refreshed
<1> QED
  BY <1>1, <1>2, <1>3, <1>4 DEF Answers

LEMMA PickedDeleting ==
  ASSUME NEW j \in Job, Deleting(j)
  PROVE  Deleting(Picked(j)) /\ Deleting([j EXCEPT !.retry = "due"])
BY NoRowAssumption DEF Job, Deleting, Picked

LEMMA RecordedDeleting ==
  ASSUME NEW j \in Rows, NEW w \in Workers, worker[w].op \in Operations,
         worker[w].op = "delete" => worker[w].task = None, Deleting(j)
  PROVE  Deleting(Recorded(j, w))
BY DEF Rows, Job, Deleting, Recorded, ChangedDuringRun, Operations

LEMMA NoDeleteTaskStep ==
  ASSUME Sound, OpenJobsReachable, NoDeleteTask, Next, \A v, w \in Workers : v = w
  PROVE  NoDeleteTask'
<1> DEFINE Good(f) == Deleting(job'[f])
<1>t. TypeOK /\ Assigned
  BY DEF Sound
<1>r. \A f \in Features : job[f] \in Rows /\ Deleting(job[f])
  BY <1>t DEF TypeOK, Rows, NoDeleteTask
<1>u. ASSUME UNCHANGED job
      PROVE  \A f \in Features : Good(f)
  BY <1>r, <1>u
<1>k. ASSUME UNCHANGED worker, \A f \in Features : Good(f)
      PROVE  NoDeleteTask'
  BY <1>k DEF NoDeleteTask, Untasked, Deleting
<1>e. ASSUME NEW f \in Features, NEW operation \in Operations, NEW hash \in Hashes,
             job' = [job EXCEPT ![f] = Enqueued(job[f], operation, hash)]
      PROVE  \A g \in Features : Good(g)
  <2>1. Deleting(Enqueued(job[f], operation, hash))
    BY <1>r, EnqueuedDeleting
  <2> QED
    BY <1>e, <1>r, <1>t, <2>1 DEF TypeOK
<1>1. ASSUME NEW r \in Requests, WikiSteps(r)
      PROVE  NoDeleteTask'
  <2>1. UNCHANGED worker
    BY <1>1, WikiFrame
  <2>2. CASE HookEnqueue(r)
    <3>1. /\ request[r].f \in Features /\ request[r].pc \in Operations /\ None \in Hashes
          /\ job' = [job EXCEPT ![request[r].f] =
                       Enqueued(job[request[r].f], request[r].pc, None)]
      BY <1>t, <2>2 DEF Assigned, HookEnqueue, Operations, Hashes
    <3> QED
      BY <1>e, <1>k, <2>1, <3>1
  <2>3. CASE ~HookEnqueue(r)
    <3>1. UNCHANGED job
      BY <1>1, <2>3 DEF WikiSteps, RequestStep, Commit, ProjectDocument, PruneFeature,
         RebuildFeature, CommitPublish, CommitArchive, CommitRestore, HookFails
    <3> QED
      BY <1>k, <1>u, <2>1, <3>1
  <2> QED
    BY <2>2, <2>3
<1>2. CASE SweeperStep \/ ListFails
  <2>1. UNCHANGED worker
    BY <1>2, SweeperFrame
  <2>2. CASE StartSweep
    <3>1. \A f \in Features : Good(f)
      BY <1>r, <2>2 DEF StartSweep, Deleting
    <3> QED
      BY <1>k, <2>1, <3>1
  <2>3. ASSUME NEW f \in Features, ReconcileDelete(f)
        PROVE  \A g \in Features : Good(g)
    BY <1>e, <2>3 DEF ReconcileDelete, Operations, Hashes
  <2>4. ASSUME NEW f \in Features, SweepEnqueue(f)
        PROVE  \A g \in Features : Good(g)
    <3>1. sweeper.seen[f] \in Hashes
      BY <1>t DEF TypeOK, SweeperRec, Contents, Hashes
    <3>2. \/ UNCHANGED job
          \/ job' = [job EXCEPT ![f] = Enqueued(job[f], "upsert", sweeper.seen[f])]
      BY <2>4 DEF SweepEnqueue
    <3> QED
      BY <1>e, <1>u, <3>1, <3>2 DEF Operations
  <2>5. CASE UNCHANGED job
    BY <1>k, <1>u, <2>1, <2>5
  <2> QED
    BY <1>2, <1>k, <2>1, <2>2, <2>3, <2>4, <2>5
       DEF SweeperStep, ListFails, ListRemote, CompareRemote, ReconcileEnds, SweepCheck,
           SweepSnapshot, SweepEnds
<1>3. CASE AdminStep
  <2>1. UNCHANGED worker
    BY <1>3, AdminFrame
  <2>2. ASSUME NEW S, ResetRows(S)
        PROVE  \A g \in Features : Good(g)
    BY <1>r, <1>t, <2>2, ToRow, ResetDeleting DEF TypeOK, ResetRows, Rows
  <2>3. ASSUME NEW f \in Features, AdminRetry(f) \/ AdminDelete(f)
        PROVE  \A g \in Features : Good(g)
    <3>1. \A g \in Features : \/ job'[g] = job[g]
                              \/ job'[g] = None
                              \/ job[g] \in Job /\ job'[g] = Reset(job[g])
      BY <1>t, <2>3 DEF TypeOK, AdminRetry, AdminDelete
    <3> QED
      BY <1>r, <3>1, ResetDeleting DEF Deleting
  <2>4. ASSUME NEW f \in Features, NEW operation \in Operations, AdminEnqueue(f, operation)
        PROVE  \A g \in Features : Good(g)
    BY <1>e, <2>4 DEF AdminEnqueue, Hashes
  <2>5. \A g \in Features : Good(g)
    <3>1. CASE AdminRetryFailed \/ AdminResync \/ AdminResets \/ AdminSwitches
      BY <2>2, <3>1 DEF AdminRetryFailed, AdminResync, AdminResets, AdminSwitches
    <3>2. CASE AdminClears("resync") \/ AdminClears("mark") \/ AdminWipes
      BY <1>u, <3>2 DEF AdminClears, AdminWipes
    <3> QED
      BY <1>3, <2>3, <2>4, <3>1, <3>2 DEF AdminStep
  <2> QED
    BY <1>k, <2>1, <2>5
<1>4. CASE Environment \/ \E f \in Features : TaskFails(f)
  <2>1. UNCHANGED worker
    BY <1>4, EnvFrame
  <2>2. ASSUME NEW f \in Features, BackoffExpires(f)
        PROVE  \A g \in Features : Good(g)
    <3>1. job[f] \in Job
      BY <1>t, <2>2, ToRow DEF TypeOK, BackoffExpires, Rows
    <3>2. Deleting([job[f] EXCEPT !.retry = "due"])
      BY <1>r, <3>1, PickedDeleting
    <3> QED
      BY <1>r, <1>t, <2>2, <3>2 DEF TypeOK, BackoffExpires
  <2>3. CASE UNCHANGED job
    BY <1>k, <1>u, <2>1, <2>3
  <2> QED
    BY <1>4, <1>k, <2>1, <2>2, <2>3
       DEF Environment, TaskSucceeds, TaskFails, TaskEnds, RecycleTask, CooldownExpires,
           ServerOnly
<1>5. ASSUME NEW w \in Workers, WorkSteps(w)
      PROVE  NoDeleteTask'
  <2>t. worker[w] \in WorkerRec
    BY <1>t DEF TypeOK
  <2>v. Untasked(w)
    BY DEF NoDeleteTask
  \* With one worker, what it does is all that has to be looked at.
  <2>k. ASSUME \A f \in Features : Good(f), Untasked(w)'
        PROVE  NoDeleteTask'
    BY <2>k DEF NoDeleteTask, Deleting
  <2>a. ASSUME NEW e, WorkerAt(w, e)
        PROVE  worker'[w] = e
    BY <1>t, <2>a DEF TypeOK, WorkerAt
  <2>n. ASSUME NextPick(w)
        PROVE  Untasked(w)'
    BY <1>t, <2>n DEF TypeOK, NextPick, WorkerAt, WorkerIdle, Untasked
  <2>1. CASE StartRun(w)
    <3>1. PICK S : WorkerAt(w, [WorkerIdle EXCEPT !.pc = "poll",
                                   !.polls = {<<f, job[f].task>> : f \in S},
                                   !.left = Limit - Cardinality(S)])
      BY <2>1 DEF StartRun
    <3>2. worker'[w].pc = "poll"
      BY <2>a, <3>1 DEF WorkerIdle
    <3> QED
      BY <1>u, <2>1, <2>k, <3>2 DEF StartRun, Untasked
  <2>2. ASSUME NEW f \in Features, NEW t \in Tasks, PollTask(w, <<f, t>>)
        PROVE  NoDeleteTask'
    <3>1. worker'[w].pc = "apply"
      BY <2>2, <2>a, <2>t DEF PollTask, WorkerRec
    <3> QED
      BY <1>u, <2>2, <2>k, <3>1 DEF PollTask, Untasked
  <2>3. ASSUME NEW f \in Features, NEW t \in Tasks, PollFails(w, <<f, t>>)
        PROVE  NoDeleteTask'
    <3>1. worker'[w].pc = "poll"
      BY <2>3, <2>a, <2>t DEF PollFails, WorkerRec
    <3>2. Deleting(Failed(job[f]))
      BY <1>r, FailedDeleting
    <3>3. \A g \in Features : Good(g)
      BY <1>r, <1>t, <2>3, <3>2 DEF TypeOK, PollFails
    <3> QED
      BY <2>k, <3>1, <3>3 DEF Untasked
  <2>4. CASE ApplyTaskStatus(w)
    <3> DEFINE f == worker[w].f
    <3>1. worker'[w].pc = "poll"
      BY <2>4, <2>a, <2>t DEF ApplyTaskStatus, WorkerRec
    <3>2. f \in Features /\ worker[w].answer \in Answers
      BY <1>t, <2>4, <2>t DEF Assigned, ApplyTaskStatus, WorkerRec
    <3>3. CASE HasJob(f, {"running"})
      <4>1. job[f] \in Job /\ Deleting(job[f])
        BY <1>r, <1>t, <3>2, <3>3, ToRow DEF TypeOK, Rows
      <4>2. job[f].task # None
        BY <2>4, <3>2, <3>3 DEF OpenJobsReachable, Owns, ApplyTaskStatus
      <4>3. Deleting(Refreshed(job[f], worker[w].answer))
        BY <3>2, <4>1, <4>2, RefreshedDeleting
      <4>4. job' = [job EXCEPT ![f] = Refreshed(job[f], worker[w].answer)]
        BY <2>4, <3>3 DEF ApplyTaskStatus
      <4>5. \A g \in Features : Good(g)
        BY <1>r, <1>t, <4>3, <4>4 DEF TypeOK
      <4> QED
        BY <2>k, <3>1, <4>5 DEF Untasked
    <3>4. CASE ~HasJob(f, {"running"})
      BY <1>u, <2>4, <2>k, <3>1, <3>4 DEF ApplyTaskStatus, Untasked
    <3> QED
      BY <3>3, <3>4
  <2>5. CASE SelectPending(w)
    <3>1. PICK S : WorkerAt(w, [WorkerIdle EXCEPT !.pc = "pick", !.picks = S])
      BY <2>5 DEF SelectPending
    <3>2. worker'[w].pc = "pick" /\ worker'[w].task = None
      BY <2>a, <3>1 DEF WorkerIdle
    <3> QED
      BY <1>u, <2>5, <2>k, <3>2 DEF SelectPending, Untasked
  <2>6. CASE EndRun(w)
    <3>1. worker'[w].pc = "idle"
      BY <2>6, <2>a DEF EndRun, WorkerIdle
    <3> QED
      BY <1>u, <2>6, <2>k, <3>1 DEF EndRun, Untasked
  <2>7. ASSUME NEW f \in Features, SkipPick(w, f)
        PROVE  NoDeleteTask'
    <3>1. worker'[w].pc = "pick" /\ worker'[w].task = None
      BY <2>7, <2>a, <2>t, <2>v DEF SkipPick, WorkerRec, Untasked
    <3> QED
      BY <1>u, <2>7, <2>k, <3>1 DEF SkipPick, Untasked
  <2>8. ASSUME NEW f \in Features, PickJob(w, f)
        PROVE  NoDeleteTask'
    <3>1. worker'[w].pc = "call" /\ worker'[w].task = None
      BY <2>8, <2>a, <2>t, <2>v DEF PickJob, WorkerRec, Untasked
    <3>2. job[f] \in Job
      BY <1>t, <2>8, ToRow DEF TypeOK, PickJob, Rows
    <3>3. Deleting(Picked(job[f]))
      BY <1>r, <3>2, PickedDeleting
    <3>4. \A g \in Features : Good(g)
      BY <1>r, <1>t, <2>8, <3>3 DEF TypeOK, PickJob
    <3> QED
      BY <2>k, <3>1, <3>4 DEF Untasked
  <2>9. CASE UploadDone(w) \/ DeleteDone(w) \/ \E t \in Tasks : UploadQueued(w, t)
    <3>1. PICK t : /\ WorkerAt(w, [worker[w] EXCEPT !.pc = "record", !.task = t])
                   /\ worker[w].op = "delete" => t = None
      BY <2>9 DEF UploadDone, DeleteDone, UploadQueued
    <3>2. worker'[w].pc = "record" /\ worker'[w].op = worker[w].op /\ worker'[w].task = t
      BY <2>a, <2>t, <3>1 DEF WorkerRec
    <3>3. UNCHANGED job
      BY <2>9 DEF UploadDone, DeleteDone, UploadQueued
    <3> QED
      BY <1>u, <2>k, <3>1, <3>2, <3>3 DEF Untasked
  <2>10. CASE worker[w].pc = "call" /\ CallRaises(w)
    <3>1. worker[w].f \in Features
      BY <1>t, <2>10 DEF Assigned
    <3>2. Deleting(Failed(job[worker[w].f]))
      BY <1>r, <3>1, FailedDeleting
    <3>3. \A g \in Features : Good(g)
      BY <1>r, <1>t, <2>10, <3>2 DEF TypeOK, CallRaises
    <3> QED
      BY <2>10, <2>k, <2>n, <3>3 DEF CallRaises
  <2>11. CASE RecordResult(w)
    <3>1. worker[w].f \in Features
      BY <1>t, <2>11 DEF Assigned, RecordResult
    <3>2. /\ worker[w].op \in Operations
          /\ worker[w].op = "delete" => worker[w].task = None
      BY <2>11, <2>t, <2>v DEF RecordResult, WorkerRec, Untasked
    <3>3. Deleting(Recorded(job[worker[w].f], w))
      BY <1>r, <3>1, <3>2, RecordedDeleting
    <3>4. \A g \in Features : Good(g)
      BY <1>r, <1>t, <2>11, <3>3 DEF TypeOK, RecordResult
    <3> QED
      BY <2>11, <2>k, <2>n, <3>4 DEF RecordResult
  <2> QED
    BY <1>5, <2>1, <2>2, <2>3, <2>4, <2>5, <2>6, <2>7, <2>8, <2>9, <2>10, <2>11
       DEF WorkSteps, WorkerStep, WorkerFault, UploadMissingDirectory, UploadTimesOut,
           DeleteConflicts, ServerUnavailable
<1> QED
  BY <1>1, <1>2, <1>3, <1>4, <1>5, Actors

LEMMA NoDeleteTaskAlways ==
  ASSUME \A v, w \in Workers : v = w
  PROVE  Spec => []NoDeleteTask
<1>1. Init => NoDeleteTask
  BY DEF Init, NoDeleteTask, Deleting, Untasked, WorkerIdle
<1>2. Sound /\ OpenJobsReachable /\ NoDeleteTask /\ [Next]_vars => NoDeleteTask'
  <2>1. ASSUME NoDeleteTask, UNCHANGED vars
        PROVE  NoDeleteTask'
    BY <2>1 DEF NoDeleteTask, Deleting, Untasked, vars
  <2> QED
    BY <2>1, NoDeleteTaskStep
<1> QED
  BY <1>1, <1>2, SoundAlways, OpenJobsAlwaysReachable, PTL DEF Spec

(* With one run of run_pending_jobs at a time (the scheduler's job has     *)
(* max_instances=1), a deferred delete is never answered with "indexed",   *)
(* whatever failures, sweeps and administrators do.  Two runs at a time    *)
(* may: the refresh does not compare task ids.                             *)
THEOREM IndexedAlwaysUpsert ==
  ASSUME \A v, w \in Workers : v = w
  PROVE  Spec => []IndexedIsUpsert
<1>1. Sound /\ NoDeleteTask => IndexedIsUpsert
  BY DEF Sound, TypeOK, Job, Operations, NoDeleteTask, Deleting, IndexedIsUpsert, HasJob
<1> QED
  BY <1>1, SoundAlways, NoDeleteTaskAlways, PTL

-----------------------------------------------------------------------------
(* One run of run_pending_jobs at a time, and no administrator. *)

Running(j) == j # None /\ j.status = "running"
Indexed(j) == j # None /\ j.status = "indexed"

\* What anyone but the worker may make of a row: a running one stays with its
\* task, and none becomes running or indexed.
Kept(j, k) ==
    /\ Running(k) <=> Running(j)
    /\ Running(k) => k.task = j.task
    /\ Indexed(k) => k = j

\* While it runs, it keeps its hash or loses it.
Fades(j, k) == Running(k) => k.hash \in {j.hash, None}

LEMMA EnqueuedKept ==
  ASSUME NEW j \in Rows, NEW operation \in Operations, NEW hash \in Hashes
  PROVE  /\ Kept(j, Enqueued(j, operation, hash))
         /\ hash = None => Fades(j, Enqueued(j, operation, hash))
<1>1. CASE Running(j)
  <2>1. j \in Job
    BY <1>1 DEF Rows, Running
  <2>2. Enqueued(j, operation, hash) # None
    BY <1>1, <2>1, EnqueuedType, NoRowAssumption DEF Rows
  <2> QED
    BY <1>1, <2>1, <2>2 DEF Job, Kept, Fades, Running, Indexed, Enqueued
<1>2. CASE ~Running(j)
  BY <1>2 DEF Rows, Job, Kept, Fades, Running, Indexed, Enqueued, NewJob
<1> QED
  BY <1>1, <1>2

LEMMA FailedStops ==
  ASSUME NEW j \in Rows
  PROVE  ~Running(Failed(j)) /\ ~Indexed(Failed(j))
BY DEF Rows, Job, Running, Indexed, Failed

LEMMA RefreshedStops ==
  ASSUME NEW j \in Job, NEW answer \in Answers
  PROVE  /\ Running(Refreshed(j, answer)) => Refreshed(j, answer) = j
         /\ Indexed(Refreshed(j, answer)) =>
               Refreshed(j, answer) = j \/ answer = "success"
BY FailedStops DEF Rows, Job, Running, Indexed, Refreshed, Failed, Answers

LEMMA PickedRuns ==
  ASSUME NEW j \in Job
  PROVE  Running(Picked(j)) /\ Picked(j).hash = j.hash /\ Picked(j).task = j.task
<1>1. Picked(j) # None
  BY PickedType, NoRowAssumption
<1> QED
  BY <1>1 DEF Job, Running, Picked

\* The steps of CoreSpec, by who takes them.
CoreStep == Progress \/ Disturbance
Others == \/ \E r \in Requests : WikiSteps(r)
          \/ SweeperStep \/ ListFails
          \/ Environment \/ \E f \in Features : TaskFails(f)

LEMMA CoreActors ==
  ASSUME CoreStep
  PROVE  Next /\ (Others \/ \E w \in Workers : WorkSteps(w))
BY DEF CoreStep, Next, Progress, Disturbance, Others, WikiSteps, WorkSteps

LEMMA CoreIsSpec == CoreSpec => Spec
<1>1. [Progress \/ Disturbance]_vars => [Next]_vars
  BY DEF Next
<1> QED
  BY <1>1, PTL DEF CoreSpec, Spec

LEMMA SoundCore == CoreSpec => [](Sound /\ OpenJobsReachable)
BY CoreIsSpec, SoundAlways, OpenJobsAlwaysReachable, PTL

LEMMA OthersKeep ==
  ASSUME Sound, Others
  PROVE  /\ UNCHANGED worker
         /\ \A f \in Features : Kept(job[f], job'[f])
         /\ \A f \in Features : Fades(job[f], job'[f]) \/ SweepEnqueue(f)
<1> DEFINE Goal == /\ UNCHANGED worker
                   /\ \A f \in Features : Kept(job[f], job'[f])
                   /\ \A f \in Features : Fades(job[f], job'[f]) \/ SweepEnqueue(f)
<1>t. TypeOK
  BY DEF Sound
<1>j. \A f \in Features : job[f] \in Rows
  BY <1>t DEF TypeOK, Rows
<1>k. \A j : Kept(j, j) /\ Fades(j, j)
  BY DEF Kept, Fades
<1>1. ASSUME NEW r \in Requests, WikiSteps(r)
      PROVE  Goal
  <2>1. UNCHANGED worker
    BY <1>1, WikiFrame
  <2>2. CASE HookEnqueue(r)
    <3>1. request[r].pc \in Operations /\ None \in Hashes
      BY <2>2 DEF HookEnqueue, Hashes
    <3>2. \A f \in Features : /\ Kept(job[f], Enqueued(job[f], request[r].pc, None))
                               /\ Fades(job[f], Enqueued(job[f], request[r].pc, None))
      BY <1>j, <3>1, EnqueuedKept
    <3> QED
      BY <1>t, <1>k, <2>1, <2>2, <3>2 DEF HookEnqueue, TypeOK
  <2>3. CASE ~HookEnqueue(r)
    <3>1. UNCHANGED job
      BY <1>1, <2>3 DEF WikiSteps, RequestStep, Commit, ProjectDocument, PruneFeature,
         RebuildFeature, CommitPublish, CommitArchive, CommitRestore, HookFails
    <3> QED
      BY <1>k, <2>1, <3>1
  <2> QED
    BY <2>2, <2>3
<1>2. CASE SweeperStep \/ ListFails
  <2>1. UNCHANGED worker
    BY <1>2, SweeperFrame
  <2>2. CASE StartSweep
    BY <1>j, <1>k, <2>1, <2>2
       DEF StartSweep, Kept, Fades, Running, Indexed, HasJob, TerminalStatuses
  <2>3. ASSUME NEW g \in Features, ReconcileDelete(g)
        PROVE  Goal
    <3>1. /\ Kept(job[g], Enqueued(job[g], "delete", None))
          /\ Fades(job[g], Enqueued(job[g], "delete", None))
      BY <1>j, EnqueuedKept DEF Operations, Hashes
    <3> QED
      BY <1>t, <1>k, <2>1, <2>3, <3>1 DEF ReconcileDelete, TypeOK
  <2>4. ASSUME NEW g \in Features, SweepEnqueue(g)
        PROVE  Goal
    <3>1. sweeper.seen[g] \in Hashes
      BY <1>t DEF TypeOK, SweeperRec, Contents, Hashes
    <3>2. Kept(job[g], Enqueued(job[g], "upsert", sweeper.seen[g]))
      BY <1>j, <2>4, <3>1, EnqueuedKept DEF Operations
    <3> QED
      BY <1>t, <1>k, <2>1, <2>4, <3>2 DEF SweepEnqueue, TypeOK
  <2>5. CASE UNCHANGED job
    BY <1>k, <2>1, <2>5
  <2> QED
    BY <1>2, <2>1, <2>2, <2>3, <2>4, <2>5
       DEF SweeperStep, ListFails, ListRemote, CompareRemote, ReconcileEnds, SweepCheck,
           SweepSnapshot, SweepEnds
<1>3. CASE Environment \/ \E f \in Features : TaskFails(f)
  <2>1. UNCHANGED worker
    BY <1>3, EnvFrame
  <2>2. ASSUME NEW g \in Features, BackoffExpires(g)
        PROVE  Goal
    <3>1. job[g] \in Job
      BY <1>j, <2>2 DEF BackoffExpires, HasJob, Rows
    <3>2. Kept(job[g], [job[g] EXCEPT !.retry = "due"])
      BY <2>2, <3>1 DEF BackoffExpires, HasJob, Job, Kept, Running, Indexed
    <3>3. Fades(job[g], [job[g] EXCEPT !.retry = "due"])
      BY <3>1 DEF Job, Fades
    <3> QED
      BY <1>t, <1>k, <2>1, <2>2, <3>2, <3>3 DEF BackoffExpires, TypeOK
  <2>3. CASE UNCHANGED job
    BY <1>k, <2>1, <2>3
  <2> QED
    BY <1>3, <2>1, <2>2, <2>3
       DEF Environment, TaskFails, TaskSucceeds, RecycleTask, CooldownExpires, TaskEnds,
           ServerOnly
<1> QED
  BY <1>1, <1>2, <1>3 DEF Others

\* What holds of the one worker: a job it is inside of, or polls for, is still
\* running, with the task it polls; what it has yet to take is not running.
Solo(w) ==
    /\ \A f \in Features : Owns(w, f) => Running(job[f])
    /\ \A f \in Features, t \in Tasks :
          <<f, t>> \in worker[w].polls => Running(job[f]) /\ job[f].task = t
    /\ worker[w].pc = "apply" =>
          /\ Running(job[worker[w].f]) /\ job[worker[w].f].task = worker[w].task
          /\ worker[w].task \in Tasks
          /\ <<worker[w].f, worker[w].task>> \notin worker[w].polls
    /\ \A f \in worker[w].picks : ~Running(job[f])

\* The steps of a worker that raise: the row fails, and the next one is up.
Raises(w) == worker[w].pc = "call" /\ CallRaises(w)

LEMMA WorkerCases ==
  ASSUME NEW w \in Workers, WorkSteps(w)
  PROVE  \/ StartRun(w) \/ ApplyTaskStatus(w) \/ SelectPending(w) \/ EndRun(w)
         \/ \E f \in Features, t \in Tasks : PollTask(w, <<f, t>>) \/ PollFails(w, <<f, t>>)
         \/ \E f \in Features : SkipPick(w, f) \/ PickJob(w, f)
         \/ UploadDone(w) \/ DeleteDone(w) \/ \E t \in Tasks : UploadQueued(w, t)
         \/ Raises(w) \/ RecordResult(w)
BY DEF WorkSteps, WorkerStep, WorkerFault, Raises, UploadMissingDirectory,
       UploadTimesOut, DeleteConflicts, ServerUnavailable

LEMMA Updated ==
  ASSUME TypeOK, NEW w \in Workers, NEW fields, WorkerAt(w, fields)
  PROVE  worker'[w] = fields
BY DEF TypeOK, WorkerAt

LEMMA NextPickFields ==
  ASSUME TypeOK, NEW w \in Workers, NextPick(w)
  PROVE  /\ worker'[w].pc = "pick" /\ worker'[w].picks = worker[w].picks
         /\ worker'[w].polls = {} /\ worker'[w].left = 0 /\ worker'[w].task = None
<1>1. worker'[w] = [WorkerIdle EXCEPT !.pc = "pick", !.picks = worker[w].picks]
  BY Updated DEF NextPick
<1> QED
  BY <1>1 DEF WorkerIdle

LEMMA SoloStep ==
  ASSUME Sound, CoreStep, NEW w \in Workers, \A v \in Workers : v = w, Solo(w)
  PROVE  Solo(w)'
<1>t. TypeOK /\ Assigned /\ worker[w] \in WorkerRec
  BY DEF Sound, TypeOK
<1>j. \A f \in Features : job[f] \in Rows
  BY <1>t DEF TypeOK, Rows
<1>w. worker[w].polls \subseteq Features \X Tasks /\ worker[w].picks \subseteq Features
  BY <1>t DEF WorkerRec
<1>s. /\ \A f \in Features : Owns(w, f) => Running(job[f])
      /\ \A f \in Features, t \in Tasks :
            <<f, t>> \in worker[w].polls => Running(job[f]) /\ job[f].task = t
      /\ worker[w].pc = "apply" =>
            /\ Running(job[worker[w].f]) /\ job[worker[w].f].task = worker[w].task
            /\ worker[w].task \in Tasks
            /\ <<worker[w].f, worker[w].task>> \notin worker[w].polls
      /\ \A f \in worker[w].picks : ~Running(job[f])
  BY DEF Solo
<1>1. CASE Others
  <2>1. UNCHANGED worker /\ \A f \in Features : Kept(job[f], job'[f])
    BY <1>1, OthersKeep
  <2>2. worker[w].pc = "apply" => worker[w].f \in Features
    BY <1>t DEF Assigned
  <2> QED
    BY <1>s, <1>w, <2>1, <2>2 DEF Solo, Owns, Kept
<1>2. CASE StartRun(w)
  <2>1. PICK S \in SUBSET {f \in Features : HasJob(f, {"running"}) /\ job[f].task # None} :
          WorkerAt(w, [WorkerIdle EXCEPT !.pc = "poll",
                          !.polls = {<<f, job[f].task>> : f \in S},
                          !.left = Limit - Cardinality(S)])
    BY <1>2 DEF StartRun, Limited
  <2>2. /\ worker'[w].pc = "poll" /\ worker'[w].picks = {}
        /\ worker'[w].polls = {<<f, job[f].task>> : f \in S}
    BY <1>t, <2>1, Updated, ZenonT(40) DEF WorkerIdle
  <2>3. job' = job
    BY <1>2 DEF StartRun
  <2>4. \A f \in S : Running(job[f])
    BY <2>1 DEF HasJob, Running
  <2> QED
    BY <2>2, <2>3, <2>4 DEF Solo, Owns
<1>3. ASSUME NEW f \in Features, NEW t \in Tasks, PollTask(w, <<f, t>>)
      PROVE  Solo(w)'
  <2>1. /\ worker'[w].pc = "apply" /\ worker'[w].picks = worker[w].picks
        /\ worker'[w].polls = worker[w].polls \ {<<f, t>>}
        /\ worker'[w].f = f /\ worker'[w].task = t
    <3>1. WorkerAt(w, [worker[w] EXCEPT !.pc = "apply", !.polls = @ \ {<<f, t>>}, !.f = f,
                                        !.task = t, !.answer = Answer(t)])
      BY <1>3 DEF PollTask
    <3>2. worker'[w] = [worker[w] EXCEPT !.pc = "apply", !.polls = @ \ {<<f, t>>}, !.f = f,
                                         !.task = t, !.answer = Answer(t)]
      BY <1>t, <3>1, Updated
    <3> QED
      BY <1>t, <3>2 DEF WorkerRec
  <2>2. job' = job /\ <<f, t>> \in worker[w].polls
    BY <1>3 DEF PollTask
  <2> QED
    BY <1>s, <2>1, <2>2 DEF Solo, Owns
<1>4. ASSUME NEW f \in Features, NEW t \in Tasks, PollFails(w, <<f, t>>)
      PROVE  Solo(w)'
  <2>1. /\ worker'[w].pc = "poll" /\ worker'[w].picks = worker[w].picks
        /\ worker'[w].polls = worker[w].polls \ {<<f, t>>}
    BY <1>4, <1>t, Updated DEF PollFails, WorkerRec
  <2>2. /\ <<f, t>> \in worker[w].polls
        /\ job' = [job EXCEPT ![f] = Failed(job[f])]
    BY <1>4 DEF PollFails
  <2>3. ~Running(job'[f]) /\ \A g \in Features \ {f} : job'[g] = job[g]
    BY <1>j, <1>t, <2>2, FailedStops DEF TypeOK
  <2>4. \A g \in Features, u \in Tasks : <<g, u>> \in worker'[w].polls => g # f
    BY <1>s, <2>1, <2>2
  <2> QED
    BY <1>s, <1>w, <2>1, <2>3, <2>4 DEF Solo, Owns
<1>5. CASE ApplyTaskStatus(w)
  <2> DEFINE f == worker[w].f
  <2>1. /\ worker'[w].pc = "poll" /\ worker'[w].picks = worker[w].picks
        /\ worker'[w].polls = worker[w].polls
    <3>1. worker'[w] = [worker[w] EXCEPT !.pc = "poll", !.f = None, !.task = None,
                                         !.answer = "unknown"]
      BY <1>5, <1>t, Updated DEF ApplyTaskStatus
    <3> QED
      BY <1>t, <3>1 DEF WorkerRec
  <2>2. f \in Features /\ worker[w].pc = "apply" /\ worker[w].answer \in Answers
    BY <1>5, <1>t DEF ApplyTaskStatus, Assigned, WorkerRec
  <2>3. job[f] \in Job /\ HasJob(f, {"running"})
    BY <1>j, <1>s, <2>2 DEF Running, Rows, HasJob
  <2>4. job' = [job EXCEPT ![f] = Refreshed(job[f], worker[w].answer)]
    BY <1>5, <2>3 DEF ApplyTaskStatus
  <2>5. \A g \in Features : Running(job'[g]) => job'[g] = job[g]
    BY <1>t, <2>2, <2>3, <2>4, RefreshedStops DEF TypeOK
  <2>6. \A g \in Features \ {f} : job'[g] = job[g]
    BY <1>t, <2>2, <2>4 DEF TypeOK
  <2>7. \A g \in Features, u \in Tasks : <<g, u>> \in worker'[w].polls => g # f
    BY <1>s, <2>1, <2>2
  <2> QED
    BY <1>s, <1>w, <2>1, <2>5, <2>6, <2>7 DEF Solo, Owns
<1>6. CASE SelectPending(w)
  <2>1. PICK S \in SUBSET Eligible :
          WorkerAt(w, [WorkerIdle EXCEPT !.pc = "pick", !.picks = S])
    BY <1>6 DEF SelectPending, Limited
  <2>2. worker'[w].pc = "pick" /\ worker'[w].polls = {} /\ worker'[w].picks = S
    BY <1>t, <2>1, Updated, ZenonT(40) DEF WorkerIdle
  <2>3. job' = job /\ \A f \in S : ~Running(job[f])
    BY <1>6, <2>1 DEF SelectPending, Eligible, HasJob, Running
  <2> QED
    BY <2>2, <2>3 DEF Solo, Owns
<1>7. CASE EndRun(w)
  <2>1. worker'[w] = WorkerIdle
    BY <1>7, <1>t, Updated DEF EndRun
  <2> QED
    BY <2>1 DEF Solo, Owns, WorkerIdle
<1>8. ASSUME NEW f \in Features, SkipPick(w, f)
      PROVE  Solo(w)'
  <2>1. /\ worker'[w].pc = "pick" /\ worker'[w].polls = worker[w].polls
        /\ worker'[w].picks = worker[w].picks \ {f}
    BY <1>8, <1>t, Updated DEF SkipPick, WorkerRec
  <2> QED
    BY <1>8, <1>s, <2>1 DEF Solo, Owns, SkipPick
<1>9. ASSUME NEW f \in Features, PickJob(w, f)
      PROVE  Solo(w)'
  <2>1. /\ worker'[w].pc = "call" /\ worker'[w].polls = worker[w].polls
        /\ worker'[w].picks = worker[w].picks \ {f} /\ worker'[w].f = f
    <3>1. worker'[w] = [worker[w] EXCEPT !.pc = "call", !.picks = @ \ {f}, !.f = f,
                                         !.op = job[f].op, !.hash = job[f].hash]
      BY <1>9, <1>t, Updated DEF PickJob
    <3> QED
      BY <1>t, <3>1 DEF WorkerRec
  <2>2. job[f] \in Job /\ f \in worker[w].picks
    BY <1>9, <1>j DEF PickJob, HasJob, Rows
  <2>3. Running(job'[f]) /\ \A g \in Features \ {f} : job'[g] = job[g]
    BY <1>9, <1>t, <2>2, PickedRuns DEF PickJob, TypeOK
  <2> QED
    BY <1>s, <1>w, <2>1, <2>2, <2>3 DEF Solo, Owns
<1>10. CASE UploadDone(w) \/ DeleteDone(w) \/ \E t \in Tasks : UploadQueued(w, t)
  <2>1. PICK t : WorkerAt(w, [worker[w] EXCEPT !.pc = "record", !.task = t])
    BY <1>10 DEF UploadDone, DeleteDone, UploadQueued
  <2>2. /\ worker'[w].pc = "record" /\ worker'[w].polls = worker[w].polls
        /\ worker'[w].picks = worker[w].picks /\ worker'[w].f = worker[w].f
    BY <1>t, <2>1, Updated, ZenonT(40) DEF WorkerRec
  <2>3. job' = job /\ worker[w].pc = "call"
    BY <1>10 DEF UploadDone, DeleteDone, UploadQueued
  <2> QED
    BY <1>s, <2>2, <2>3 DEF Solo, Owns
<1>11. CASE Raises(w) \/ RecordResult(w)
  <2> DEFINE f == worker[w].f
  <2>1. f \in Features /\ NextPick(w) /\ Running(job[f])
    BY <1>11, <1>s, <1>t DEF Raises, CallRaises, RecordResult, Assigned, Owns
  <2>2. \A g \in Features \ {f} : job'[g] = job[g]
    BY <1>11, <1>t, <2>1 DEF Raises, CallRaises, RecordResult, TypeOK
  <2>3. worker'[w].pc = "pick" /\ worker'[w].polls = {} /\ worker'[w].picks = worker[w].picks
    BY <1>t, <2>1, NextPickFields
  <2> QED
    BY <1>s, <1>w, <2>1, <2>2, <2>3 DEF Solo, Owns
<1> QED
  BY <1>1, <1>2, <1>3, <1>4, <1>5, <1>6, <1>7, <1>8, <1>9, <1>10, <1>11, CoreActors, WorkerCases

LEMMA SoloAlways ==
  ASSUME NEW w \in Workers, \A v \in Workers : v = w
  PROVE  CoreSpec => []Solo(w)
<1>1. Init => Solo(w)
  BY DEF Init, Solo, Owns, WorkerIdle
<1>2. Sound /\ Solo(w) /\ [Progress \/ Disturbance]_vars => Solo(w)'
  <2>1. ASSUME Solo(w), UNCHANGED vars
        PROVE  Solo(w)'
    BY <2>1 DEF Solo, Owns, vars
  <2> QED
    BY <2>1, SoloStep DEF CoreStep
<1> QED
  BY <1>1, <1>2, SoundCore, PTL DEF CoreSpec

-----------------------------------------------------------------------------
(* How many jobs run. *)

RunningJobs == {f \in Features : Running(job[f])}

\* What is running, what the worker will still take, and what it may select.
Pool(w) == Cardinality(RunningJobs \cup worker[w].picks) + worker[w].left <= Limit

LEMMA Subsets ==
  ASSUME NEW S \in SUBSET Features, NEW T \in SUBSET S
  PROVE  /\ IsFiniteSet(S) /\ IsFiniteSet(T)
         /\ Cardinality(S) \in Nat /\ Cardinality(T) \in Nat
         /\ Cardinality(T) <= Cardinality(S)
         /\ Cardinality(T) = Cardinality(S) => T = S
<1>1. IsFiniteSet(S)
  BY FeaturesAssumption, FS_Subset
<1>2. IsFiniteSet(T)
  BY <1>1, FS_Subset
<1>3. Cardinality(S) \in Nat /\ Cardinality(T) \in Nat
  BY <1>1, <1>2, FS_CardinalityType
<1> QED
  BY <1>1, <1>2, <1>3, FS_Subset

\* A pool that gains nothing stays within its limit.
LEMMA Drained ==
  ASSUME TypeOK, TypeOK', NEW w \in Workers, Pool(w),
         (RunningJobs \cup worker[w].picks)' \subseteq RunningJobs \cup worker[w].picks,
         worker'[w].left <= worker[w].left
  PROVE  Pool(w)'
<1> DEFINE S == RunningJobs \cup worker[w].picks
           T == (RunningJobs \cup worker[w].picks)'
<1>1. S \in SUBSET Features /\ worker[w].left \in Nat /\ worker'[w].left \in Nat
  BY LimitAssumption DEF TypeOK, WorkerRec, RunningJobs
<1>2. Cardinality(S) \in Nat /\ Cardinality(T) \in Nat /\ Cardinality(T) <= Cardinality(S)
  BY <1>1, Subsets
<1>3. Cardinality(S) + worker[w].left <= Limit
  BY DEF Pool
<1>4. Cardinality(T) + worker'[w].left <= Limit
  <2> HIDE DEF S, T
  <2> QED
    BY <1>1, <1>2, <1>3, LimitAssumption
<1> QED
  BY <1>4 DEF Pool

LEMMA PoolStep ==
  ASSUME Sound, Sound', OpenJobsReachable, CoreStep,
         NEW w \in Workers, \A v \in Workers : v = w, Solo(w), Pool(w)
  PROVE  Pool(w)'
<1>t. TypeOK /\ TypeOK' /\ Assigned /\ worker[w] \in WorkerRec
  BY DEF Sound, TypeOK
<1>j. \A f \in Features : job[f] \in Rows
  BY <1>t DEF TypeOK, Rows
<1>w. /\ worker[w].picks \subseteq Features /\ worker[w].left \in 0 .. Limit
  BY <1>t DEF WorkerRec
<1>0. 0 <= worker[w].left /\ worker[w].left <= worker[w].left
  BY <1>w, LimitAssumption
\* The steps after which no more is running, taken or selected than before.
<1>d. ASSUME \A f \in Features : Running(job'[f]) => Running(job[f]) \/ f \in worker[w].picks,
             worker'[w].picks \subseteq worker[w].picks,
             worker'[w].left \in {0, worker[w].left}
      PROVE  Pool(w)'
  <2>1. (RunningJobs \cup worker[w].picks)' \subseteq RunningJobs \cup worker[w].picks
    BY <1>d DEF RunningJobs
  <2> QED
    BY <1>d, <1>t, <1>0, <2>1, Drained
<1>1. CASE Others
  BY <1>1, <1>d, OthersKeep DEF Kept
<1>2. CASE StartRun(w)
  <2> DEFINE R == {f \in Features : HasJob(f, {"running"}) /\ job[f].task # None}
  <2>1. PICK S \in Limited(R, Limit) :
          WorkerAt(w, [WorkerIdle EXCEPT !.pc = "poll",
                          !.polls = {<<f, job[f].task>> : f \in S},
                          !.left = Limit - Cardinality(S)])
    BY <1>2 DEF StartRun
  <2>2. worker'[w].picks = {} /\ worker'[w].left = Limit - Cardinality(S)
    BY <1>t, <2>1, Updated DEF WorkerIdle
  <2>3. job' = job /\ worker[w].pc = "idle"
    BY <1>2 DEF StartRun
  <2>4. RunningJobs = R
    <3>1. \A f \in Features : ~\E v \in Workers : Owns(v, f)
      BY <2>3 DEF Owns
    <3> QED
      BY <3>1 DEF OpenJobsReachable, RunningJobs, Running, HasJob
  <2>5. Cardinality(R) = Cardinality(S)
    <3>1. R \in SUBSET (RunningJobs \cup worker[w].picks) /\ S \in SUBSET R
          /\ (S = R \/ Cardinality(S) = Limit)
      BY <2>1, <2>4 DEF Limited
    <3>2. (RunningJobs \cup worker[w].picks) \in SUBSET Features
      BY <1>w DEF RunningJobs
    <3>3. /\ Cardinality(R) <= Cardinality(RunningJobs \cup worker[w].picks)
          /\ Cardinality(S) <= Cardinality(R)
          /\ Cardinality(R) \in Nat /\ Cardinality(S) \in Nat
          /\ Cardinality(RunningJobs \cup worker[w].picks) \in Nat
      <4> HIDE DEF R
      <4> QED
        BY <3>1, <3>2, Subsets
    <3>4. Cardinality(RunningJobs \cup worker[w].picks) + worker[w].left <= Limit
      BY DEF Pool
    <3> HIDE DEF R
    <3> QED
      BY <1>w, <3>1, <3>3, <3>4, LimitAssumption
  <2>6. (RunningJobs \cup worker[w].picks)' = R
    BY <2>2, <2>3, <2>4 DEF RunningJobs
  <2>7. Cardinality(S) \in Nat
    <3>1. S \in SUBSET R /\ R \in SUBSET Features
      BY <2>1 DEF Limited
    <3> HIDE DEF R
    <3> QED
      BY <3>1, Subsets
  <2> HIDE DEF R
  <2>8. Cardinality(R) + (Limit - Cardinality(S)) <= Limit
    BY <2>5, <2>7, LimitAssumption
  <2> QED
    BY <2>2, <2>6, <2>8 DEF Pool
<1>3. CASE SelectPending(w)
  <2>1. PICK S \in Limited(Eligible, worker[w].left) :
          WorkerAt(w, [WorkerIdle EXCEPT !.pc = "pick", !.picks = S])
    BY <1>3 DEF SelectPending
  <2>2. worker'[w].picks = S /\ worker'[w].left = 0 /\ job' = job
    BY <1>3, <1>t, <2>1, Updated, ZenonT(40) DEF WorkerIdle, SelectPending
  <2>3. S \in SUBSET Features /\ Cardinality(S) <= worker[w].left
    BY <2>1 DEF Limited, Eligible
  <2>4. RunningJobs \in SUBSET Features
        /\ RunningJobs \in SUBSET (RunningJobs \cup worker[w].picks)
        /\ (RunningJobs \cup worker[w].picks) \in SUBSET Features
    BY <1>w DEF RunningJobs
  <2>5. Cardinality(RunningJobs) + worker[w].left <= Limit
    <3>1. /\ Cardinality(RunningJobs) <= Cardinality(RunningJobs \cup worker[w].picks)
          /\ Cardinality(RunningJobs) \in Nat
          /\ Cardinality(RunningJobs \cup worker[w].picks) \in Nat
      BY <2>4, Subsets
    <3> QED
      BY <1>w, <3>1, LimitAssumption DEF Pool
  <2>6. /\ IsFiniteSet(RunningJobs) /\ IsFiniteSet(S)
        /\ Cardinality(S) \in Nat /\ Cardinality(RunningJobs) \in Nat
    BY <2>3, <2>4, Subsets
  <2>7. IsFiniteSet(RunningJobs \cap S) /\ Cardinality(RunningJobs \cap S) \in Nat
    BY <2>6, FS_Subset, FS_CardinalityType
  <2>8. Cardinality(RunningJobs \cup S)
          = Cardinality(RunningJobs) + Cardinality(S) - Cardinality(RunningJobs \cap S)
    BY <2>6, FS_Union
  <2>9. Cardinality(RunningJobs \cup S) + 0 <= Limit
    BY <1>w, <2>3, <2>5, <2>6, <2>7, <2>8, LimitAssumption
  <2>10. (RunningJobs \cup worker[w].picks)' = RunningJobs \cup S
    BY <2>2 DEF RunningJobs
  <2> QED
    BY <2>2, <2>9, <2>10 DEF Pool
<1>4. ASSUME NEW f \in Features, NEW t \in Tasks, PollTask(w, <<f, t>>)
      PROVE  Pool(w)'
  <2>1. job' = job /\ worker'[w].picks = worker[w].picks /\ worker'[w].left = worker[w].left
    <3>1. worker'[w] = [worker[w] EXCEPT !.pc = "apply", !.polls = @ \ {<<f, t>>},
                                         !.f = <<f, t>>[1], !.task = <<f, t>>[2],
                                         !.answer = Answer(<<f, t>>[2])]
      BY <1>4, <1>t, Updated DEF PollTask
    <3>2. job' = job
      BY <1>4 DEF PollTask
    <3> QED
      BY <1>t, <3>1, <3>2 DEF WorkerRec
  <2> QED
    BY <1>d, <2>1
<1>5. ASSUME NEW f \in Features, NEW t \in Tasks, PollFails(w, <<f, t>>)
      PROVE  Pool(w)'
  <2>1. worker'[w].picks = worker[w].picks /\ worker'[w].left = worker[w].left
    BY <1>5, <1>t, Updated DEF PollFails, WorkerRec
  <2>2. job' = [job EXCEPT ![f] = Failed(job[f])]
    BY <1>5 DEF PollFails
  <2>3. \A g \in Features : Running(job'[g]) => Running(job[g])
    BY <1>j, <1>t, <2>2, FailedStops DEF TypeOK
  <2> QED
    BY <1>d, <2>1, <2>3
<1>6. CASE ApplyTaskStatus(w)
  <2>1. worker'[w].picks = worker[w].picks /\ worker'[w].left = worker[w].left
    <3>1. worker'[w] = [worker[w] EXCEPT !.pc = "poll", !.f = None, !.task = None,
                                         !.answer = "unknown"]
      BY <1>6, <1>t, Updated DEF ApplyTaskStatus
    <3> QED
      BY <1>t, <3>1 DEF WorkerRec
  <2>2. \A g \in Features : Running(job'[g]) => Running(job[g])
    BY <1>6, <1>t DEF ApplyTaskStatus, Running, HasJob, TypeOK
  <2> QED
    BY <1>d, <2>1, <2>2
<1>7. CASE EndRun(w)
  <2>1. worker'[w] = WorkerIdle /\ job' = job
    BY <1>7, <1>t, Updated DEF EndRun
  <2> QED
    BY <1>d, <2>1 DEF WorkerIdle
<1>8. ASSUME NEW f \in Features, SkipPick(w, f)
      PROVE  Pool(w)'
  <2>1. /\ job' = job /\ worker'[w].left = worker[w].left
        /\ worker'[w].picks = worker[w].picks \ {f}
    BY <1>8, <1>t, Updated DEF SkipPick, WorkerRec
  <2> QED
    BY <1>d, <2>1
<1>9. ASSUME NEW f \in Features, PickJob(w, f)
      PROVE  Pool(w)'
  <2>1. worker'[w].picks = worker[w].picks \ {f} /\ worker'[w].left = worker[w].left
    <3>1. worker'[w] = [worker[w] EXCEPT !.pc = "call", !.picks = @ \ {f}, !.f = f,
                                         !.op = job[f].op, !.hash = job[f].hash]
      BY <1>9, <1>t, Updated DEF PickJob
    <3> QED
      BY <1>t, <3>1 DEF WorkerRec
  <2>2. f \in worker[w].picks /\ \A g \in Features \ {f} : job'[g] = job[g]
    BY <1>9, <1>t DEF PickJob, TypeOK
  <2> QED
    BY <1>d, <2>1, <2>2
<1>10. CASE UploadDone(w) \/ DeleteDone(w) \/ \E t \in Tasks : UploadQueued(w, t)
  <2>1. PICK t : WorkerAt(w, [worker[w] EXCEPT !.pc = "record", !.task = t])
    BY <1>10 DEF UploadDone, DeleteDone, UploadQueued
  <2>2. worker'[w].picks = worker[w].picks /\ worker'[w].left = worker[w].left
    BY <1>t, <2>1, Updated DEF WorkerRec
  <2>3. job' = job
    BY <1>10 DEF UploadDone, DeleteDone, UploadQueued
  <2> QED
    BY <1>d, <2>2, <2>3
<1>11. CASE Raises(w) \/ RecordResult(w)
  <2> DEFINE f == worker[w].f
  <2>1. f \in Features /\ NextPick(w) /\ Running(job[f])
    BY <1>11, <1>t DEF Raises, CallRaises, RecordResult, Assigned, Owns, Solo
  <2>2. \A g \in Features \ {f} : job'[g] = job[g]
    BY <1>11, <1>t, <2>1 DEF Raises, CallRaises, RecordResult, TypeOK
  <2>3. worker'[w].picks = worker[w].picks /\ worker'[w].left = 0
    BY <1>t, <2>1, NextPickFields
  <2> QED
    BY <1>d, <2>1, <2>2, <2>3
<1> QED
  BY <1>1, <1>2, <1>3, <1>4, <1>5, <1>6, <1>7, <1>8, <1>9, <1>10, <1>11, CoreActors, WorkerCases

(* With one run of run_pending_jobs at a time, whatever fails and whatever *)
(* requests and sweeps enqueue between its refresh and its last job, the   *)
(* jobs running never outnumber its limit: it selects no more than its     *)
(* refresh left over, and nobody else starts one.                          *)
THEOREM RunningStaysWithinLimit ==
  ASSUME NEW w \in Workers, \A v \in Workers : v = w
  PROVE  CoreSpec => []RunningWithinLimit
<1>1. Init => Pool(w)
  <2> SUFFICES ASSUME Init
               PROVE  Pool(w)
    OBVIOUS
  <2>1. RunningJobs \cup worker[w].picks = {} /\ worker[w].left = 0
    BY DEF Init, RunningJobs, Running, WorkerIdle
  <2>2. Cardinality({}) = 0
    BY FS_EmptySet
  <2>3. Cardinality(RunningJobs \cup worker[w].picks) = 0
    BY <2>1, <2>2
  <2>4. 0 + 0 <= Limit
    BY LimitAssumption
  <2> QED
    BY <2>1, <2>3, <2>4 DEF Pool
<1>2. /\ Sound /\ Sound' /\ OpenJobsReachable /\ Solo(w) /\ Pool(w)
      /\ [Progress \/ Disturbance]_vars
      => Pool(w)'
  <2>1. ASSUME Pool(w), UNCHANGED vars
        PROVE  Pool(w)'
    BY <2>1 DEF Pool, RunningJobs, vars
  <2> QED
    BY <2>1, PoolStep DEF CoreStep
<1>3. Sound /\ Pool(w) => RunningWithinLimit
  <2> SUFFICES ASSUME Sound, Pool(w)
               PROVE  RunningWithinLimit
    OBVIOUS
  <2>1. /\ worker[w].picks \in SUBSET Features /\ worker[w].left \in 0 .. Limit
    BY DEF Sound, TypeOK, WorkerRec
  <2>2. /\ RunningJobs \in SUBSET (RunningJobs \cup worker[w].picks)
        /\ (RunningJobs \cup worker[w].picks) \in SUBSET Features
    BY <2>1 DEF RunningJobs
  <2>3. /\ Cardinality(RunningJobs) <= Cardinality(RunningJobs \cup worker[w].picks)
        /\ Cardinality(RunningJobs) \in Nat
        /\ Cardinality(RunningJobs \cup worker[w].picks) \in Nat
    BY <2>2, Subsets
  <2>4. Cardinality(RunningJobs) <= Limit
    BY <2>1, <2>3, LimitAssumption DEF Pool
  <2>5. RunningJobs = {f \in Features : HasJob(f, {"running"})}
    BY DEF RunningJobs, Running, HasJob
  <2> QED
    BY <2>4, <2>5 DEF RunningWithinLimit
<1> QED
  BY <1>1, <1>2, <1>3, SoundCore, SoloAlways, PTL DEF CoreSpec

-----------------------------------------------------------------------------
(* A job row keeps what SyncJobLifecycle promises of it. *)

RowState(j)    == IF j = None THEN "none" ELSE j.status
RowAttempts(j) == IF j = None THEN 0 ELSE j.attempts

JobStates   == [f \in Features |-> RowState(job[f])]
JobAttempts == [f \in Features |-> RowAttempts(job[f])]

\* One move of one row, in the terms of the lifecycle.
Still(j, k)     == RowState(k) = RowState(j) /\ RowAttempts(k) = RowAttempts(j)
AskedFor(j, k)  == RowState(j) # "running" /\ RowState(k) = "pending" /\ RowAttempts(k) = 0
TakenUp(j, k)   == /\ RowState(j) \in {"pending", "failed"} /\ RowState(k) = "running"
                   /\ RowAttempts(k) = IF RowAttempts(j) < MaxRepeatFailures
                                         THEN RowAttempts(j) + 1 ELSE RowAttempts(j)
FailedBy(j, k)  == /\ RowState(k) = IF RowAttempts(j) >= MaxRepeatFailures
                                      THEN "cancelled" ELSE "failed"
                   /\ RowAttempts(k) = RowAttempts(j)
GoneBy(j, k)    == RowState(k) = "none" /\ RowAttempts(k) = 0
Settled(j, k)   == /\ RowState(j) = "running"
                   /\ \/ RowState(k) \in {"pending", "indexed"}
                         /\ RowAttempts(k) = RowAttempts(j)
                      \/ FailedBy(j, k)
                      \/ GoneBy(j, k)
Moves(j, k) == Still(j, k) \/ AskedFor(j, k) \/ TakenUp(j, k) \/ Settled(j, k)

LifecycleMove == Lifecycle!Next \/ (JobStates' = JobStates /\ JobAttempts' = JobAttempts)

LEMMA OneRowMoves ==
  ASSUME TypeOK, NEW f \in Features, NEW k, job' = [job EXCEPT ![f] = k], Moves(job[f], k)
  PROVE  LifecycleMove
<1>1. /\ JobStates' = [JobStates EXCEPT ![f] = RowState(k)]
      /\ JobAttempts' = [JobAttempts EXCEPT ![f] = RowAttempts(k)]
  BY DEF TypeOK, JobStates, JobAttempts
<1>2. JobStates[f] = RowState(job[f]) /\ JobAttempts[f] = RowAttempts(job[f])
  BY DEF JobStates, JobAttempts
<1>3. /\ JobStates = [g \in Features |-> IF job[g] = None THEN "none" ELSE job[g].status]
      /\ JobAttempts = [g \in Features |-> IF job[g] = None THEN 0 ELSE job[g].attempts]
      /\ JobStates' = [g \in Features |-> IF job[g] = None THEN "none" ELSE job[g].status]'
      /\ JobAttempts' = [g \in Features |-> IF job[g] = None THEN 0 ELSE job[g].attempts]'
  BY DEF JobStates, JobAttempts, RowState, RowAttempts
<1>4. CASE Still(job[f], k)
  BY <1>1, <1>2, <1>4 DEF Still, LifecycleMove, JobStates, JobAttempts
<1>5. CASE AskedFor(job[f], k)
  <2>1. Lifecycle!Request(f)
    BY <1>1, <1>2, <1>3, <1>5 DEF AskedFor, Lifecycle!Request, Lifecycle!To
  <2> QED
    BY <2>1 DEF LifecycleMove, Lifecycle!Next
<1>6. CASE TakenUp(job[f], k)
  <2>1. Lifecycle!Take(f)
    BY <1>1, <1>2, <1>3, <1>6 DEF TakenUp, Lifecycle!Take, Lifecycle!To
  <2> QED
    BY <2>1 DEF LifecycleMove, Lifecycle!Next
<1>7. CASE Settled(job[f], k)
  <2>1. JobStates[f] = "running"
    BY <1>2, <1>7 DEF Settled
  <2>2. RowAttempts(k) = RowAttempts(job[f]) => JobAttempts' = JobAttempts
    BY <1>1, <1>2 DEF JobAttempts
  <2>3. CASE RowState(k) = "pending" /\ RowAttempts(k) = RowAttempts(job[f])
    <3>1. Lifecycle!Requeue(f)
      BY <1>1, <1>3, <2>1, <2>2, <2>3 DEF Lifecycle!Requeue, Lifecycle!To
    <3> QED
      BY <3>1 DEF LifecycleMove, Lifecycle!Next, Lifecycle!Settle
  <2>4. CASE RowState(k) = "indexed" /\ RowAttempts(k) = RowAttempts(job[f])
    <3>1. Lifecycle!Index(f)
      BY <1>1, <1>3, <2>1, <2>2, <2>4 DEF Lifecycle!Index, Lifecycle!To
    <3> QED
      BY <3>1 DEF LifecycleMove, Lifecycle!Next, Lifecycle!Settle
  <2>5. CASE FailedBy(job[f], k)
    <3>1. JobStates' = [JobStates EXCEPT ![f] =
                          IF JobAttempts[f] >= MaxRepeatFailures THEN "cancelled" ELSE "failed"]
      BY <1>1, <1>2, <2>5 DEF FailedBy
    <3>2. JobAttempts' = JobAttempts
      BY <2>2, <2>5 DEF FailedBy
    <3>3. Lifecycle!Fail(f)
      BY <1>3, <2>1, <3>1, <3>2 DEF Lifecycle!Fail, Lifecycle!To
    <3> QED
      BY <3>3 DEF LifecycleMove, Lifecycle!Next, Lifecycle!Settle
  <2>6. CASE GoneBy(job[f], k)
    <3>1. Lifecycle!Finish(f)
      BY <1>1, <1>3, <2>1, <2>6 DEF GoneBy, Lifecycle!Finish, Lifecycle!To
    <3> QED
      BY <3>1 DEF LifecycleMove, Lifecycle!Next, Lifecycle!Settle
  <2> QED
    BY <1>7, <2>3, <2>4, <2>5, <2>6 DEF Settled
<1> QED
  BY <1>4, <1>5, <1>6, <1>7 DEF Moves

LEMMA EnqueuedMoves ==
  ASSUME NEW j \in Rows, NEW operation \in Operations, NEW hash \in Hashes
  PROVE  Moves(j, Enqueued(j, operation, hash))
<1>1. CASE Running(j)
  <2>1. j \in Job /\ Enqueued(j, operation, hash) # None
    BY <1>1, EnqueuedType, NoRowAssumption DEF Rows, Running
  <2> QED
    BY <1>1, <2>1 DEF Job, Moves, Still, RowState, RowAttempts, Running, Enqueued
<1>2. CASE ~Running(j)
  <2>1. Enqueued(j, operation, hash) # None
    BY EnqueuedType, NoRowAssumption
  <2>2. Enqueued(j, operation, hash) = NewJob(operation, hash)
    BY <1>2 DEF Rows, Running, Enqueued
  <2> QED
    BY <1>2, <2>1, <2>2 DEF Moves, AskedFor, RowState, RowAttempts, NewJob, Running, Rows, Job
<1> QED
  BY <1>1, <1>2

LEMMA PickedMoves ==
  ASSUME NEW j \in Job, j.status \in {"pending", "failed"}
  PROVE  Moves(j, Picked(j))
<1>1. Picked(j) # None /\ j # None
  BY PickedType, NoRowAssumption
<1> QED
  BY <1>1 DEF Job, Moves, TakenUp, RowState, RowAttempts, Picked

LEMMA FailedMoves ==
  ASSUME NEW j \in Rows, Running(j)
  PROVE  Moves(j, Failed(j))
<1>1. j \in Job
  BY DEF Rows, Running
<1>2. Failed(j) # None
  <2>1. /\ [j EXCEPT !.status = "cancelled", !.retry = "none"] \in Job
        /\ [j EXCEPT !.status = "failed", !.retry = "later"] \in Job
    BY <1>1 DEF Job, Statuses
  <2> QED
    BY <1>1, <2>1, NoRowAssumption DEF Failed
<1> QED
  BY <1>1, <1>2 DEF Running, Job, Moves, Settled, FailedBy, RowState, RowAttempts, Failed

LEMMA RefreshedMoves ==
  ASSUME NEW j \in Job, Running(j), NEW answer \in Answers
  PROVE  Moves(j, Refreshed(j, answer))
<1>1. CASE answer = "failure"
  <2>1. Refreshed(j, answer) = Failed(j)
    BY <1>1 DEF Refreshed
  <2> QED
    BY <2>1, FailedMoves DEF Rows
<1>2. CASE answer = "success"
  <2> DEFINE again == [j EXCEPT !.status = "pending", !.task = None, !.deferred = FALSE,
                                !.retry = "none"]
             done == [j EXCEPT !.status = "indexed", !.retry = "none"]
  <2>1. again \in Job /\ done \in Job
    BY DEF Job, Statuses, TaskIds
  <2>2. again # None /\ done # None
    BY <2>1, NoRowAssumption
  <2>3. Moves(j, again) /\ Moves(j, done)
    BY <2>2 DEF Running, Job, Moves, Settled, RowState, RowAttempts
  <2>4. Refreshed(j, answer) \in {again, done}
    BY <1>2, Zenon DEF Refreshed
  <2> QED
    BY <2>3, <2>4
<1>3. CASE answer = "unknown"
  BY <1>3 DEF Refreshed, Moves, Still
<1> QED
  BY <1>1, <1>2, <1>3 DEF Answers

LEMMA RecordedMoves ==
  ASSUME NEW j \in Job, NEW w \in Workers, Running(j), worker[w].task \in TaskIds
  PROVE  Moves(j, Recorded(j, w))
<1>1. CASE Recorded(j, w) = None
  BY <1>1 DEF Moves, Settled, GoneBy, Running, RowState, RowAttempts
<1>2. CASE Recorded(j, w) # None
  BY <1>2, NoRowAssumption
     DEF Running, Job, Moves, Settled, Still, RowState, RowAttempts, Recorded
<1> QED
  BY <1>1, <1>2

LEMMA LifecycleStep ==
  ASSUME Sound, IndexedIsUpsert, CoreStep,
         NEW w \in Workers, \A v \in Workers : v = w, Solo(w)
  PROVE  LifecycleMove
<1>t. TypeOK /\ Assigned /\ worker[w] \in WorkerRec
  BY DEF Sound, TypeOK
<1>j. \A f \in Features : job[f] \in Rows
  BY <1>t DEF TypeOK, Rows
<1>u. ASSUME UNCHANGED job
      PROVE  LifecycleMove
  BY <1>u DEF LifecycleMove, JobStates, JobAttempts
<1>1. ASSUME NEW r \in Requests, WikiSteps(r)
      PROVE  LifecycleMove
  <2>1. CASE HookEnqueue(r)
    <3> DEFINE f == request[r].f
    <3>1. /\ f \in Features /\ request[r].pc \in Operations /\ None \in Hashes
          /\ job' = [job EXCEPT ![f] = Enqueued(job[f], request[r].pc, None)]
      BY <1>t, <2>1 DEF HookEnqueue, Assigned, Operations, Hashes
    <3>2. Moves(job[f], Enqueued(job[f], request[r].pc, None))
      BY <1>j, <3>1, EnqueuedMoves
    <3> QED
      BY <1>t, <3>1, <3>2, OneRowMoves
  <2>2. CASE ~HookEnqueue(r)
    BY <1>1, <1>u, <2>2 DEF WikiSteps, RequestStep, Commit, ProjectDocument, PruneFeature,
       RebuildFeature, CommitPublish, CommitArchive, CommitRestore, HookFails
  <2> QED
    BY <2>1, <2>2
<1>2. CASE SweeperStep \/ ListFails
  <2>1. CASE StartSweep
    <3> DEFINE S == {f \in Features : HasJob(f, TerminalStatuses) /\ job[f].op = "delete"}
    <3>1. \A f \in S : job[f] # None /\ job[f].status = "cancelled"
      BY DEF IndexedIsUpsert, HasJob, TerminalStatuses
    <3>2. job' = [f \in Features |-> IF f \in S THEN None ELSE job[f]]
      BY <2>1 DEF StartSweep
    <3> HIDE DEF S
    <3>3. \A f \in S : JobStates[f] = "cancelled"
      BY <3>1 DEF JobStates, RowState, S
    <3>4. JobStates' = [f \in Features |-> IF f \in S THEN "none" ELSE JobStates[f]]
      BY <3>2 DEF JobStates, RowState
    <3>5. JobAttempts' = [f \in Features |-> IF f \in S THEN 0 ELSE JobAttempts[f]]
      BY <3>2 DEF JobAttempts, RowAttempts
    <3>6. /\ JobStates = [g \in Features |-> IF job[g] = None THEN "none" ELSE job[g].status]
          /\ JobAttempts = [g \in Features |-> IF job[g] = None THEN 0 ELSE job[g].attempts]
          /\ JobStates' = [g \in Features |-> IF job[g] = None THEN "none" ELSE job[g].status]'
          /\ JobAttempts' = [g \in Features |-> IF job[g] = None THEN 0 ELSE job[g].attempts]'
      BY DEF JobStates, JobAttempts, RowState, RowAttempts
    <3>7. S \in SUBSET Features
      BY DEF S
    <3>8. \E T \in SUBSET Features : Lifecycle!Clear(T)
      BY <3>3, <3>4, <3>5, <3>6, <3>7 DEF Lifecycle!Clear
    <3>9. Lifecycle!Next
      BY <3>8 DEF Lifecycle!Next
    <3> QED
      BY <3>9 DEF LifecycleMove
  <2>2. ASSUME NEW f \in Features, ReconcileDelete(f)
        PROVE  LifecycleMove
    <3>1. Moves(job[f], Enqueued(job[f], "delete", None))
      BY <1>j, EnqueuedMoves DEF Operations, Hashes
    <3> QED
      BY <1>t, <2>2, <3>1, OneRowMoves DEF ReconcileDelete
  <2>3. ASSUME NEW f \in Features, SweepEnqueue(f)
        PROVE  LifecycleMove
    <3>1. sweeper.seen[f] \in Hashes
      BY <1>t DEF TypeOK, SweeperRec, Contents, Hashes
    <3>2. Moves(job[f], Enqueued(job[f], "upsert", sweeper.seen[f]))
      BY <1>j, <3>1, EnqueuedMoves DEF Operations
    <3> QED
      BY <1>t, <1>u, <2>3, <3>2, OneRowMoves DEF SweepEnqueue
  <2> QED
    BY <1>2, <1>u, <2>1, <2>2, <2>3
       DEF SweeperStep, ListFails, ListRemote, CompareRemote, ReconcileEnds, SweepCheck,
           SweepSnapshot, SweepEnds
<1>3. CASE Environment \/ \E f \in Features : TaskFails(f)
  <2>1. ASSUME NEW f \in Features, BackoffExpires(f)
        PROVE  LifecycleMove
    <3> DEFINE k == [job[f] EXCEPT !.retry = "due"]
    <3>1. job[f] \in Job /\ job[f] # None
      BY <1>j, <2>1 DEF BackoffExpires, HasJob, Rows
    <3>2. k \in Job /\ k.status = job[f].status /\ k.attempts = job[f].attempts
      BY <3>1 DEF Job
    <3>3. Moves(job[f], k)
      BY <3>1, <3>2, NoRowAssumption DEF Moves, Still, RowState, RowAttempts
    <3>4. job' = [job EXCEPT ![f] = k]
      BY <2>1 DEF BackoffExpires
    <3> QED
      BY <1>t, <3>3, <3>4, OneRowMoves
  <2> QED
    BY <1>3, <1>u, <2>1
       DEF Environment, TaskFails, TaskSucceeds, RecycleTask, CooldownExpires, TaskEnds,
           ServerOnly
<1>4. ASSUME NEW f \in Features, NEW t \in Tasks, PollFails(w, <<f, t>>)
      PROVE  LifecycleMove
  <2>1. Running(job[f]) /\ job' = [job EXCEPT ![f] = Failed(job[f])]
    BY <1>4 DEF PollFails, Solo
  <2>2. Moves(job[f], Failed(job[f]))
    BY <1>j, <2>1, FailedMoves
  <2> QED
    BY <1>t, <2>1, <2>2, OneRowMoves
<1>5. CASE ApplyTaskStatus(w)
  <2> DEFINE f == worker[w].f
  <2>1. f \in Features /\ Running(job[f]) /\ worker[w].answer \in Answers
    BY <1>5, <1>t DEF ApplyTaskStatus, Assigned, WorkerRec, Solo
  <2>2. job[f] \in Job /\ job' = [job EXCEPT ![f] = Refreshed(job[f], worker[w].answer)]
    BY <1>5, <1>j, <2>1 DEF ApplyTaskStatus, Running, Rows, HasJob
  <2>3. Moves(job[f], Refreshed(job[f], worker[w].answer))
    BY <2>1, <2>2, RefreshedMoves
  <2> QED
    BY <1>t, <2>1, <2>2, <2>3, OneRowMoves
<1>6. ASSUME NEW f \in Features, PickJob(w, f)
      PROVE  LifecycleMove
  <2>1. /\ HasJob(f, Statuses \ TerminalStatuses) /\ ~Running(job[f])
        /\ job' = [job EXCEPT ![f] = Picked(job[f])]
    BY <1>6 DEF PickJob, Solo
  <2>2. job[f] \in Job /\ job[f].status \in {"pending", "failed"}
    BY <1>j, <2>1 DEF HasJob, Rows, Running, Statuses, TerminalStatuses
  <2> QED
    BY <1>t, <2>1, <2>2, PickedMoves, OneRowMoves
<1>7. CASE Raises(w) \/ RecordResult(w)
  <2> DEFINE f == worker[w].f
  <2>1. f \in Features /\ Running(job[f]) /\ worker[w].task \in TaskIds
    BY <1>7, <1>t DEF Raises, RecordResult, Assigned, Owns, Solo, WorkerRec
  <2>2. job[f] \in Job
    BY <1>j, <2>1 DEF Running, Rows
  <2>3. /\ Moves(job[f], Failed(job[f])) /\ Moves(job[f], Recorded(job[f], w))
    BY <1>j, <2>1, <2>2, FailedMoves, RecordedMoves
  <2>4. \/ job' = [job EXCEPT ![f] = Failed(job[f])]
        \/ job' = [job EXCEPT ![f] = Recorded(job[f], w)]
    BY <1>7 DEF Raises, CallRaises, RecordResult
  <2> QED
    BY <1>t, <2>1, <2>3, <2>4, OneRowMoves
<1>8. ASSUME WorkSteps(w), ~ApplyTaskStatus(w), ~Raises(w), ~RecordResult(w),
             \A f \in Features, t \in Tasks : ~PollFails(w, <<f, t>>),
             \A f \in Features : ~PickJob(w, f)
      PROVE  LifecycleMove
  <2>1. UNCHANGED job
    BY <1>8, WorkerCases DEF StartRun, SelectPending, EndRun, PollTask, SkipPick, UploadDone,
       DeleteDone, UploadQueued
  <2> QED
    BY <2>1, <1>u
<1> QED
  BY <1>1, <1>2, <1>3, <1>4, <1>5, <1>6, <1>7, <1>8, CoreActors DEF Others

(* With one run of run_pending_jobs at a time and no administrator, every  *)
(* step of requests, workers, sweeps, failures and the server moves the    *)
(* job rows as SyncJobLifecycle promises, or leaves them: an answer that   *)
(* comes late touches no job that was settled or asked for anew, and only  *)
(* cancelled jobs are cleared away.                                        *)
THEOREM LifecycleIsFollowed ==
  ASSUME NEW w \in Workers, \A v \in Workers : v = w
  PROVE  CoreSpec => Lifecycle!Safety
<1>1. Init => Lifecycle!Init
  BY DEF Init, Lifecycle!Init
<1>2. /\ Sound /\ IndexedIsUpsert /\ Solo(w) /\ [Progress \/ Disturbance]_vars
      => LifecycleMove
  <2>1. ASSUME UNCHANGED vars
        PROVE  LifecycleMove
    BY <2>1 DEF LifecycleMove, JobStates, JobAttempts, vars
  <2> QED
    BY <2>1, LifecycleStep DEF CoreStep
<1>3. LifecycleMove
      => [Lifecycle!Next]_<<[f \in Features |-> IF job[f] = None THEN "none" ELSE job[f].status],
                            [f \in Features |-> IF job[f] = None THEN 0 ELSE job[f].attempts]>>
  BY DEF LifecycleMove, JobStates, JobAttempts, RowState, RowAttempts
<1>4. CoreSpec => []IndexedIsUpsert
  <2>1. \A v, u \in Workers : v = u
    OBVIOUS
  <2>2. Spec => []IndexedIsUpsert
    BY <2>1, IndexedAlwaysUpsert
  <2> QED
    BY <2>2, CoreIsSpec, PTL
<1> QED
  BY <1>1, <1>2, <1>3, <1>4, SoundCore, SoloAlways, PTL DEF CoreSpec, Lifecycle!Safety

-----------------------------------------------------------------------------
(* Nothing is stale in silence.  A row's hash is a claim on the content     *)
(* OpenViking holds; the claim counts as long as no hook is still to        *)
(* enqueue for the feature, which resets the hash.                         *)

At(f, S) == \E r \in Requests : request[r].f = f /\ request[r].pc \in S

\* What a request does until it enqueues.
Hooks == {"project", "upsert", "prune", "delete"}

Claimed(f) == job[f] # None /\ job[f].hash # None /\ ~At(f, Hooks)

\* The directory of a feature follows its row; a claim is of what is published.
Projected(f) ==
    /\ f \notin active /\ ~At(f, {"prune"}) => disk[f] = None
    /\ f \in active /\ ~At(f, {"project", "prune"}) => disk[f] \in {docs[f], None}
    /\ Claimed(f) => f \in active /\ job[f].hash = docs[f]

\* Nothing runs between sweep_all's reading and its last enqueue.
SweptAsRead ==
    sweeper.pc = "enqueue" =>
        \A f \in sweeper.todo : Outdated(f) /\ sweeper.seen[f] = docs[f]

Succeeded(t) == task[t] # None /\ task[t].state = "success"

\* Task t is the last the server has for f: waiting, or done and in effect.
Arrived(f, t) ==
    /\ task[t] # None
    /\ \/ /\ task[t].state = "queued"
          /\ inbox[f] # << >> /\ inbox[f][Len(inbox[f])] = t
       \/ /\ task[t].state = "success"
          /\ inbox[f] = << >> /\ remote[f] = task[t].content
       \/ task[t].state = "failure"

Landed(f, t) == Arrived(f, t) /\ (Claimed(f) => task[t].content = docs[f])
InPlace(f)   == inbox[f] = << >> /\ (Claimed(f) => remote[f] = docs[f])

\* What a row's task brings, and what an indexed row stands for.
Carried(f) ==
    /\ \A t \in Tasks : Running(job[f]) /\ job[f].task = t /\ ~Owned(f) => Landed(f, t)
    /\ Indexed(job[f]) => InPlace(f)

\* What the worker is about to record, and to apply.
Carries(w) ==
    /\ \A f \in Features :
          worker[w].pc = "record" /\ worker[w].op = "upsert" /\ worker[w].f = f =>
              /\ \A t \in Tasks : worker[w].task = t => Landed(f, t)
              /\ worker[w].task = None => InPlace(f)
    /\ \A t \in Tasks :
          worker[w].pc = "apply" /\ worker[w].answer = "success" /\ worker[w].task = t =>
              Succeeded(t)

\* What the server may do to the tasks and the directory of f.
ServerKeeps(f) ==
    /\ \A t \in Tasks : Referred(t) /\ Arrived(f, t) =>
          Arrived(f, t)' /\ task'[t].content = task[t].content
    /\ inbox[f] = << >> => inbox'[f] = << >> /\ remote'[f] = remote[f]

\* What becomes of a claim on content that is on its way, or in place.
ClaimKept(f) ==
    Claimed(f)' /\ (Running(job'[f]) \/ Indexed(job'[f])) =>
        Claimed(f) /\ docs'[f] = docs[f]

LEMMA ServerIdle ==
  ASSUME UNCHANGED <<task, inbox, remote>>, NEW f \in Features
  PROVE  ServerKeeps(f)
BY DEF ServerKeeps, Arrived

LEMMA CarriedStays ==
  ASSUME NEW f \in Features, Carried(f), Kept(job[f], job'[f]), Owned(f) => Owned(f)',
         ClaimKept(f), ServerKeeps(f)
  PROVE  Carried(f)'
<1>1. ASSUME NEW t \in Tasks, Running(job'[f]), job'[f].task = t, ~Owned(f)'
      PROVE  Landed(f, t)'
  <2>1. Running(job[f]) /\ job[f].task = t /\ ~Owned(f) /\ Referred(t)
    BY <1>1 DEF Kept, Running, Referred
  <2>2. Landed(f, t)
    BY <2>1 DEF Carried
  <2>3. Arrived(f, t)' /\ task'[t].content = task[t].content
    BY <2>1, <2>2 DEF ServerKeeps, Landed
  <2> QED
    BY <1>1, <2>2, <2>3 DEF Landed, ClaimKept
<1>2. ASSUME Indexed(job'[f])
      PROVE  InPlace(f)'
  <2>1. InPlace(f)
    BY <1>2 DEF Carried, Kept
  <2> QED
    BY <1>2, <2>1 DEF InPlace, ServerKeeps, ClaimKept
<1> QED
  BY <1>1, <1>2 DEF Carried

LEMMA CarriesStays ==
  ASSUME NEW w \in Workers, Carries(w), Solo(w), UNCHANGED worker,
         \A f \in Features : Kept(job[f], job'[f]) /\ ClaimKept(f) /\ ServerKeeps(f),
         \A t \in Tasks : Referred(t) /\ Succeeded(t) => Succeeded(t)'
  PROVE  Carries(w)'
<1>1. ASSUME NEW f \in Features, worker[w].pc = "record", worker[w].op = "upsert",
             worker[w].f = f
      PROVE  /\ \A t \in Tasks : worker[w].task = t => Landed(f, t)'
             /\ worker[w].task = None => InPlace(f)'
  <2>1. Running(job'[f])
    BY <1>1 DEF Solo, Owns, Kept
  <2>2. ASSUME NEW t \in Tasks, worker[w].task = t
        PROVE  Landed(f, t)'
    <3>1. Landed(f, t) /\ Referred(t)
      BY <1>1, <2>2 DEF Carries, Referred
    <3> QED
      BY <2>1, <3>1 DEF Landed, ServerKeeps, ClaimKept
  <2>3. ASSUME worker[w].task = None
        PROVE  InPlace(f)'
    <3>1. InPlace(f)
      BY <1>1, <2>3 DEF Carries
    <3> QED
      BY <2>1, <3>1 DEF InPlace, ServerKeeps, ClaimKept
  <2> QED
    BY <2>2, <2>3
<1>2. ASSUME NEW t \in Tasks, worker[w].pc = "apply", worker[w].answer = "success",
             worker[w].task = t
      PROVE  Succeeded(t)'
  BY <1>2 DEF Carries, Referred
<1> QED
  BY <1>1, <1>2 DEF Carries

LEMMA Lengths ==
  ASSUME NEW s \in Seq(Tasks)
  PROVE  (s = << >>) <=> (Len(s) = 0)
OBVIOUS

LEMMA TaskEndsKeeps ==
  ASSUME TypeOK, InFlight, NEW g \in Features, NEW state \in {"success", "failure"},
         TaskEnds(g, state)
  PROVE  /\ \A f \in Features : ServerKeeps(f)
         /\ \A t \in Tasks : Succeeded(t) => Succeeded(t)'
<1> DEFINE h == Head(inbox[g])
           q == inbox[g]
           n == Len(inbox[g])
<1>1. /\ q # << >> /\ h = q[1] /\ h \in Tasks /\ task[h] \in TaskRec
      /\ n \in Nat \ {0} /\ DOMAIN q = 1 .. n /\ q \in Seq(Tasks)
      /\ Tail(q) \in Seq(Tasks) /\ Len(Tail(q)) = n - 1
      /\ \A i \in 1 .. (n - 1) : i + 1 \in DOMAIN q /\ Tail(q)[i] = q[i + 1]
  <2>1. q # << >> /\ q \in Seq(Tasks)
    BY DEF TaskEnds, TypeOK
  <2> QED
    BY <2>1, HeadOfInbox
<1>2. task[h] # None /\ task[h].state = "queued"
  BY <1>1 DEF InFlight
<1>3. /\ task'[h] # None /\ task'[h].state = state /\ task'[h].content = task[h].content
      /\ \A t \in Tasks \ {h} : task'[t] = task[t]
  <2>1. [task[h] EXCEPT !.state = state] \in TaskRec
    BY <1>1 DEF TaskRec
  <2>2. task' = [task EXCEPT ![h] = [task[h] EXCEPT !.state = state]]
    BY DEF TaskEnds
  <2> QED
    BY <1>1, <2>1, <2>2, NoTaskAssumption DEF TypeOK, TaskRec
<1>4. /\ inbox'[g] = Tail(q) /\ \A f \in Features \ {g} : inbox'[f] = inbox[f]
      /\ state = "success" => remote'[g] = task[h].content
      /\ \A f \in Features \ {g} : remote'[f] = remote[f]
  BY DEF TaskEnds, TypeOK
<1>5. ASSUME NEW t \in Tasks, Succeeded(t)
      PROVE  Succeeded(t)'
  BY <1>2, <1>3, <1>5 DEF Succeeded
<1>6. ASSUME NEW t \in Tasks, Arrived(g, t)
      PROVE  Arrived(g, t)' /\ task'[t].content = task[t].content
  <2>1. CASE task[t].state = "failure"
    BY <1>2, <1>3, <1>6, <2>1 DEF Arrived
  <2>2. CASE task[t].state = "queued" /\ n = 1
    <3>1. t = h
      BY <1>1, <1>6, <2>2 DEF Arrived
    <3>2. inbox'[g] = << >>
      <4>1. Len(inbox'[g]) = 0 /\ inbox'[g] \in Seq(Tasks)
        BY <1>1, <1>4, <2>2
      <4> QED
        BY <4>1, Lengths
    <3> QED
      BY <1>3, <1>4, <3>1, <3>2 DEF Arrived
  <2>3. CASE task[t].state = "queued" /\ n # 1
    <3>1. q[n] = t /\ n \in DOMAIN q /\ 1 \in DOMAIN q /\ n - 1 \in 1 .. (n - 1)
      <4>1. n \in Nat \ {0} /\ n # 1 /\ DOMAIN q = 1 .. n
        BY <1>1, <2>3
      <4>2. n \in DOMAIN q /\ 1 \in DOMAIN q /\ n - 1 \in 1 .. (n - 1)
        <5> HIDE DEF n, q
        <5> QED
          BY <4>1
      <4>3. q[n] = t
        BY <1>6, <2>3 DEF Arrived
      <4> QED
        BY <4>2, <4>3
    <3>2. t # h
      BY <1>1, <2>3, <3>1 DEF InFlight
    <3>3. inbox'[g] # << >> /\ inbox'[g][Len(inbox'[g])] = t
      <4>1. Len(inbox'[g]) = n - 1 /\ inbox'[g] # << >>
        <5>1. Len(inbox'[g]) = n - 1 /\ inbox'[g] \in Seq(Tasks)
          BY <1>1, <1>4
        <5>2. n - 1 # 0
          BY <3>1
        <5> QED
          BY <5>1, <5>2, Lengths
      <4>2. inbox'[g][n - 1] = q[(n - 1) + 1] /\ (n - 1) + 1 = n
        BY <1>1, <1>4, <3>1
      <4> QED
        BY <3>1, <4>1, <4>2
    <3> QED
      BY <1>3, <1>6, <2>3, <3>2, <3>3 DEF Arrived
  <2> QED
    BY <1>1, <1>6, <2>1, <2>2, <2>3 DEF Arrived
<1>7. ASSUME NEW f \in Features \ {g}, NEW t \in Tasks, Arrived(f, t)
      PROVE  Arrived(f, t)' /\ task'[t].content = task[t].content
  <2>1. t # h
    <3>1. CASE task[t].state = "queued"
      <4>1. inbox[f] # << >> /\ inbox[f][Len(inbox[f])] = t /\ inbox[f] \in Seq(Tasks)
        BY <1>7, <3>1 DEF Arrived, TypeOK
      <4>2. Len(inbox[f]) \in DOMAIN inbox[f] /\ 1 \in DOMAIN q
        BY <1>1, <4>1
      <4> QED
        BY <1>1, <4>1, <4>2 DEF InFlight
    <3>2. CASE task[t].state # "queued"
      BY <1>2, <3>2
    <3> QED
      BY <3>1, <3>2
  <2> QED
    BY <1>3, <1>4, <1>7, <2>1 DEF Arrived
<1>8. ASSUME NEW f \in Features
      PROVE  ServerKeeps(f)
  <2>1. CASE f = g
    BY <1>1, <1>6, <2>1 DEF ServerKeeps
  <2>2. CASE f # g
    BY <1>4, <1>7, <2>2 DEF ServerKeeps
  <2> QED
    BY <2>1, <2>2
<1> QED
  BY <1>5, <1>8

LEMMA EnvKeeps ==
  ASSUME Sound, Environment \/ \E f \in Features : TaskFails(f)
  PROVE  /\ \A f \in Features : ServerKeeps(f)
         /\ \A t \in Tasks : Referred(t) /\ Succeeded(t) => Succeeded(t)'
<1>1. ASSUME NEW f \in Features, TaskSucceeds(f) \/ TaskFails(f)
      PROVE  /\ \A g \in Features : ServerKeeps(g)
             /\ \A t \in Tasks : Succeeded(t) => Succeeded(t)'
  BY <1>1, TaskEndsKeeps DEF Sound, TaskSucceeds, TaskFails
<1>2. ASSUME NEW t \in Tasks, RecycleTask(t)
      PROVE  /\ \A g \in Features : ServerKeeps(g)
             /\ \A u \in Tasks : Referred(u) /\ Succeeded(u) => Succeeded(u)'
  <2>1. UNCHANGED <<remote, inbox>> /\ ~Referred(t)
    BY <1>2 DEF RecycleTask
  <2>2. \A u \in Tasks : Referred(u) => task'[u] = task[u]
    BY <1>2, <2>1 DEF RecycleTask, Sound, TypeOK
  <2> QED
    BY <2>1, <2>2 DEF ServerKeeps, Arrived, Succeeded
<1>3. CASE UNCHANGED <<task, inbox, remote>>
  BY <1>3, ServerIdle DEF Succeeded
<1> QED
  BY <1>1, <1>2, <1>3 DEF Environment, BackoffExpires, CooldownExpires, remoteVars

LEMMA EnqueuedHash ==
  ASSUME NEW j \in Rows, NEW operation \in Operations, NEW hash \in Hashes,
         operation = "delete" => hash = None
  PROVE  Enqueued(j, operation, hash).hash = hash
BY DEF Rows, Job, Enqueued, NewJob, Operations

\* A request's step: a claim that survives it is the same claim as before.
LEMMA HookKeeps ==
  ASSUME Sound, NEW r \in Requests, WikiSteps(r), ~HookFails(r),
         \A f \in Features : Projected(f)
  PROVE  \A f \in Features : Projected(f)' /\ ClaimKept(f)
<1>t. TypeOK /\ Assigned
  BY DEF Sound
<1> SUFFICES ASSUME NEW f \in Features
             PROVE  Projected(f)' /\ ClaimKept(f)
  OBVIOUS
<1>p. Projected(f)
  OBVIOUS
<1>f. f # None /\ job[f] \in Rows
  BY <1>t, NoneAssumption DEF TypeOK, Rows
<1>r. \A p \in Requests \ {r} : request'[p] = request[p]
  BY <1>t DEF WikiSteps, RequestStep, Commit, ProjectDocument, HookEnqueue, PruneFeature,
     RebuildFeature, CommitPublish, CommitArchive, CommitRestore, HookFails, Goto, Respond,
     TypeOK
<1> DEFINE mine == request[r].f = f
\* Where f is concerned, only this request's own place changes.
<1>a. ASSUME NEW S, ~(mine /\ request[r].pc \in S), ~(request'[r].f = f /\ request'[r].pc \in S)
      PROVE  At(f, S)' <=> At(f, S)
  BY <1>a, <1>r DEF At
<1>1. ASSUME NEW g \in Features, NEW v \in Versions, CommitPublish(r, g, v)
      PROVE  Projected(f)' /\ ClaimKept(f)
  <2>1. /\ request'[r] = [pc |-> "project", f |-> g] /\ request[r].pc = "idle"
        /\ UNCHANGED <<active, disk, job>>
    BY <1>1, <1>t DEF CommitPublish, TypeOK
  <2>2. CASE f = g
    <3>1. At(f, Hooks)' /\ At(f, {"project", "prune"})' /\ f \in active
      BY <1>1, <2>1, <2>2 DEF At, Hooks, CommitPublish
    <3> QED
      BY <2>1, <3>1 DEF Projected, ClaimKept, Claimed
  <2>3. CASE f # g
    <3>1. docs'[f] = docs[f]
      BY <1>1, <1>t, <2>3 DEF CommitPublish, TypeOK
    <3>2. \A S : "idle" \notin S => (At(f, S)' <=> At(f, S))
      BY <1>a, <2>1, <2>3
    <3> QED
      BY <1>p, <2>1, <3>1, <3>2 DEF Projected, ClaimKept, Claimed, Hooks
  <2> QED
    BY <2>2, <2>3
<1>2. CASE ProjectDocument(r)
  <2>1. /\ request'[r].pc = "upsert" /\ request'[r].f = request[r].f
        /\ request[r].pc = "project" /\ UNCHANGED <<active, docs, job>>
    BY <1>2, <1>t DEF ProjectDocument, Goto, TypeOK, RequestRec
  <2>2. CASE mine
    <3>1. disk'[f] = IF f \in active THEN docs[f] ELSE None
      BY <1>2, <1>t, <2>2 DEF ProjectDocument, TypeOK
    <3>2. At(f, Hooks)'
      BY <2>1, <2>2 DEF At, Hooks
    <3> QED
      BY <2>1, <3>1, <3>2 DEF Projected, ClaimKept, Claimed
  <2>3. CASE ~mine
    <3>1. disk'[f] = disk[f]
      BY <1>2, <1>t, <2>3 DEF ProjectDocument, TypeOK
    <3>2. \A S : At(f, S)' <=> At(f, S)
      BY <1>a, <2>1, <2>3
    <3> QED
      BY <1>p, <2>1, <3>1, <3>2 DEF Projected, ClaimKept, Claimed
  <2> QED
    BY <2>2, <2>3
<1>3. CASE PruneFeature(r)
  <2>1. /\ request'[r].pc = "delete" /\ request'[r].f = request[r].f
        /\ request[r].pc = "prune" /\ UNCHANGED <<active, docs, job>>
    BY <1>3, <1>t DEF PruneFeature, Goto, TypeOK, RequestRec
  <2>2. CASE mine
    <3>1. disk'[f] = None
      BY <1>3, <1>t, <2>2 DEF PruneFeature, TypeOK
    <3>2. At(f, Hooks)'
      BY <2>1, <2>2 DEF At, Hooks
    <3> QED
      BY <2>1, <3>1, <3>2 DEF Projected, ClaimKept, Claimed
  <2>3. CASE ~mine
    <3>1. disk'[f] = disk[f]
      BY <1>3, <1>t, <2>3 DEF PruneFeature, TypeOK
    <3>2. \A S : At(f, S)' <=> At(f, S)
      BY <1>a, <2>1, <2>3
    <3> QED
      BY <1>p, <2>1, <3>1, <3>2 DEF Projected, ClaimKept, Claimed
  <2> QED
    BY <2>2, <2>3
<1>4. CASE RebuildFeature(r)
  <2>1. /\ request'[r].pc = "idle" /\ request[r].pc = "rebuild"
        /\ UNCHANGED <<active, docs, job>>
    BY <1>4, <1>t DEF RebuildFeature, Respond, RequestIdle, TypeOK
  <2>2. \A S : {"idle", "rebuild"} \cap S = {} => (At(f, S)' <=> At(f, S))
    BY <1>a, <2>1
  <2>3. disk'[f] = IF mine THEN IF f \in active THEN docs[f] ELSE None ELSE disk[f]
    BY <1>4, <1>t DEF RebuildFeature, TypeOK
  <2> QED
    BY <1>p, <2>1, <2>2, <2>3 DEF Projected, ClaimKept, Claimed, Hooks
<1>5. CASE HookEnqueue(r)
  <2>1. /\ request'[r] = RequestIdle /\ request[r].pc \in {"upsert", "delete"}
        /\ UNCHANGED <<active, docs, disk>>
        /\ job' = [job EXCEPT ![request[r].f] = Enqueued(job[request[r].f], request[r].pc, None)]
    BY <1>5, <1>t DEF HookEnqueue, Respond, Operations, TypeOK, wikiVars
  <2>2. request'[r].f # f
    BY <1>f, <2>1 DEF RequestIdle
  <2>3. \A S : {"upsert", "delete"} \cap S = {} => (At(f, S)' <=> At(f, S))
    BY <1>a, <2>1, <2>2
  <2>4. CASE mine
    <3>1. job'[f] = Enqueued(job[f], request[r].pc, None)
      BY <1>t, <2>1, <2>4 DEF TypeOK
    <3>2. job'[f].hash = None
      BY <1>f, <2>1, <3>1, EnqueuedHash DEF Operations, Hashes
    <3> QED
      BY <1>p, <2>1, <2>3, <3>2 DEF Projected, ClaimKept, Claimed
  <2>5. CASE ~mine
    <3>1. job'[f] = job[f]
      BY <1>t, <2>1, <2>5 DEF TypeOK
    <3>2. \A S : At(f, S)' <=> At(f, S)
      BY <1>a, <2>2, <2>5
    <3> QED
      BY <1>p, <2>1, <3>1, <3>2 DEF Projected, ClaimKept, Claimed
  <2> QED
    BY <2>4, <2>5
<1>6. ASSUME NEW g \in Features, CommitArchive(r, g)
      PROVE  Projected(f)' /\ ClaimKept(f)
  <2>1. /\ request'[r] = [pc |-> "prune", f |-> g] /\ request[r].pc = "idle"
        /\ UNCHANGED <<docs, disk, job>> /\ active' = active \ {g}
    BY <1>6, <1>t DEF CommitArchive, TypeOK
  <2>2. CASE f = g
    <3>1. At(f, Hooks)' /\ At(f, {"prune"})' /\ f \notin active'
      BY <2>1, <2>2 DEF At, Hooks
    <3> QED
      BY <3>1 DEF Projected, ClaimKept, Claimed
  <2>3. CASE f # g
    <3>1. \A S : "idle" \notin S => (At(f, S)' <=> At(f, S))
      BY <1>a, <2>1, <2>3
    <3> QED
      BY <1>p, <2>1, <2>3, <3>1 DEF Projected, ClaimKept, Claimed, Hooks
  <2> QED
    BY <2>2, <2>3
<1>7. ASSUME NEW g \in Features, CommitRestore(r, g)
      PROVE  Projected(f)' /\ ClaimKept(f)
  <2>1. /\ request'[r] = [pc |-> "rebuild", f |-> g] /\ request[r].pc = "idle"
        /\ UNCHANGED <<docs, disk, job>> /\ active' = active \cup {g} /\ g \notin active
    BY <1>7, <1>t DEF CommitRestore, TypeOK
  <2>2. \A S : {"idle", "rebuild"} \cap S = {} => (At(f, S)' <=> At(f, S))
    BY <1>a, <2>1
  <2>3. At(f, {"prune"}) => At(f, {"project", "prune"})
    BY DEF At
  <2> QED
    BY <1>p, <2>1, <2>2, <2>3 DEF Projected, ClaimKept, Claimed, Hooks
<1> QED
  BY <1>1, <1>2, <1>3, <1>4, <1>5, <1>6, <1>7 DEF WikiSteps, RequestStep, Commit

\* A sweep's step: what it enqueues, it claims of what is published.
LEMMA SweepKeeps ==
  ASSUME Sound, SweeperStep \/ ListFails, SweptAsRead, \A f \in Features : Projected(f)
  PROVE  SweptAsRead' /\ \A f \in Features : Projected(f)' /\ ClaimKept(f)
<1>t. TypeOK
  BY DEF Sound
<1>j. \A f \in Features : job[f] \in Rows
  BY <1>t DEF TypeOK, Rows
<1>c. UNCHANGED <<active, docs, disk, request>>
  BY DEF SweeperStep, ListFails, StartSweep, ListRemote, CompareRemote, ReconcileEnds,
     SweepCheck, SweepSnapshot, SweepEnds, ReconcileDelete, SweepEnqueue, wikiVars
<1>k. \A f \in Features : /\ Kept(job[f], job'[f])
                          /\ Fades(job[f], job'[f]) \/ SweepEnqueue(f)
  BY OthersKeep DEF Others
<1>1. ASSUME NEW f \in Features
      PROVE  ClaimKept(f)
  <2>1. SweepEnqueue(f) => ~Running(job[f])
    BY DEF SweepEnqueue, SweptAsRead, Outdated, HasJob, Running
  <2>2. Fades(job[f], job'[f]) \/ ~Running(job'[f])
    BY <1>k, <2>1 DEF Kept
  <2>3. At(f, Hooks)' <=> At(f, Hooks)
    BY <1>c DEF At
  <2>4. Kept(job[f], job'[f])
    BY <1>k
  <2> QED
    BY <1>c, <2>2, <2>3, <2>4 DEF Kept, Fades, Running, Indexed, ClaimKept, Claimed
<1>2. ASSUME NEW f \in Features
      PROVE  Projected(f)'
  <2>1. \A S : At(f, S)' <=> At(f, S)
    BY <1>c DEF At
  <2> DEFINE asBefore == Claimed(f) /\ job'[f].hash = job[f].hash
             asRead   == f \in active /\ job'[f].hash = docs[f]
  <2>2. Claimed(f)' => asBefore \/ asRead
    <3>1. CASE StartSweep
      BY <2>1, <3>1 DEF StartSweep, Claimed
    <3>2. ASSUME NEW g \in Features, ReconcileDelete(g)
          PROVE  Claimed(f)' => asBefore
      <4>1. Enqueued(job[g], "delete", None).hash = None
        BY <1>j, EnqueuedHash DEF Operations, Hashes
      <4> QED
        BY <1>t, <2>1, <3>2, <4>1 DEF ReconcileDelete, Claimed, TypeOK
    <3>3. ASSUME NEW g \in Features, SweepEnqueue(g)
          PROVE  Claimed(f)' => asBefore \/ asRead
      <4>1. sweeper.seen[g] \in Hashes
        BY <1>t DEF TypeOK, SweeperRec, Contents, Hashes
      <4>2. Enqueued(job[g], "upsert", sweeper.seen[g]).hash = sweeper.seen[g]
        BY <1>j, <4>1, EnqueuedHash DEF Operations
      <4>3. g \in active /\ sweeper.seen[g] = docs[g]
        BY <3>3 DEF SweepEnqueue, SweptAsRead, Outdated
      <4> QED
        BY <1>t, <2>1, <3>3, <4>2, <4>3 DEF SweepEnqueue, Claimed, TypeOK
    <3>4. CASE UNCHANGED job
      BY <2>1, <3>4 DEF Claimed
    <3> QED
      BY <3>1, <3>2, <3>3, <3>4
         DEF SweeperStep, ListFails, ListRemote, CompareRemote, ReconcileEnds, SweepCheck,
             SweepSnapshot, SweepEnds
  <2> QED
    BY <1>c, <2>1, <2>2 DEF Projected
<1>3. SweptAsRead'
  <2>1. CASE SweepSnapshot
    <3>1. /\ sweeper'.todo = {f \in Features : Outdated(f)}
          /\ sweeper'.seen = [f \in Features |-> IF Outdated(f) THEN docs[f] ELSE None]
          /\ job' = job
      BY <2>1 DEF SweepSnapshot, Sweeper
    <3> QED
      BY <1>c, <3>1 DEF SweptAsRead, Outdated, HasJob
  <2>2. ASSUME NEW g \in Features, SweepEnqueue(g)
        PROVE  SweptAsRead'
    <3>1. sweeper' = [sweeper EXCEPT !.todo = sweeper.todo \ {g}, !.seen[g] = None]
          /\ sweeper.pc = "enqueue"
      BY <2>2 DEF SweepEnqueue, Sweeper
    <3>2. /\ sweeper'.todo = sweeper.todo \ {g}
          /\ \A f \in Features \ {g} : sweeper'.seen[f] = sweeper.seen[f]
          /\ sweeper.todo \subseteq Features
      BY <1>t, <3>1 DEF TypeOK, SweeperRec
    <3>3. \A f \in Features \ {g} : job'[f] = job[f]
      BY <1>t, <2>2 DEF SweepEnqueue, TypeOK
    <3> QED
      BY <1>c, <3>1, <3>2, <3>3 DEF SweptAsRead, Outdated, HasJob
  <2>3. CASE sweeper'.pc # "enqueue"
    BY <2>3 DEF SweptAsRead
  <2>4. ASSUME ~SweepSnapshot, \A g \in Features : ~SweepEnqueue(g)
        PROVE  sweeper'.pc # "enqueue"
    <3>1. ASSUME NEW g \in Features, ReconcileDelete(g)
          PROVE  sweeper'.pc # "enqueue"
      BY <1>t, <3>1 DEF ReconcileDelete, Sweeper, TypeOK, SweeperRec
    <3>2. CASE StartSweep \/ ListRemote \/ CompareRemote
      BY <1>t, <3>2 DEF StartSweep, ListRemote, CompareRemote, Sweeper, TypeOK, SweeperRec
    <3>3. CASE ReconcileEnds \/ ListFails
      BY <1>t, <3>3 DEF ReconcileEnds, ListFails, Sweeper, TypeOK, SweeperRec
    <3>4. CASE SweepCheck \/ SweepEnds
      BY <1>t, <3>4 DEF SweepCheck, SweepEnds, Sweeper, SweeperIdle, TypeOK, SweeperRec
    <3> QED
      BY <2>4, <3>1, <3>2, <3>3, <3>4 DEF SweeperStep
  <2> QED
    BY <2>1, <2>2, <2>3, <2>4
<1> QED
  BY <1>1, <1>2, <1>3

\* A worker's step keeps every hash, or drops the row.
SameHash(j, k) == k # None => j # None /\ k.hash = j.hash

LEMMA HashesStay ==
  ASSUME NEW j \in Rows
  PROVE  /\ SameHash(j, Failed(j))
         /\ j # None => SameHash(j, Picked(j))
         /\ j # None => \A answer \in Answers : SameHash(j, Refreshed(j, answer))
         /\ \A w \in Workers : SameHash(j, Recorded(j, w))
<1>1. CASE j = None
  BY <1>1 DEF SameHash, Failed, Recorded
<1>2. CASE j # None
  <2>1. j \in Job
    BY <1>2 DEF Rows
  <2>2. SameHash(j, Failed(j))
    BY <1>2, <2>1 DEF Job, SameHash, Failed
  <2>3. SameHash(j, Picked(j))
    BY <1>2, <2>1 DEF Job, SameHash, Picked
  <2>4. ASSUME NEW answer \in Answers
        PROVE  SameHash(j, Refreshed(j, answer))
    BY <1>2, <2>1, <2>2 DEF Job, SameHash, Refreshed, Answers
  <2>5. ASSUME NEW w \in Workers
        PROVE  SameHash(j, Recorded(j, w))
    BY <1>2, <2>1 DEF Job, SameHash, Recorded
  <2> QED
    BY <2>2, <2>3, <2>4, <2>5
<1> QED
  BY <1>1, <1>2

LEMMA WorkClaims ==
  ASSUME Sound, NEW w \in Workers, WorkSteps(w), SweptAsRead, sweeper.pc # "enqueue",
         \A f \in Features : Projected(f)
  PROVE  /\ SweptAsRead'
         /\ \A f \in Features : Projected(f)' /\ (Claimed(f)' => Claimed(f)) /\ docs' = docs
<1>t. TypeOK /\ Assigned /\ worker[w] \in WorkerRec
  BY DEF Sound, TypeOK
<1>j. \A f \in Features : job[f] \in Rows
  BY <1>t DEF TypeOK, Rows
<1>c. UNCHANGED <<active, docs, disk, request, sweeper>>
  BY WorkerCases
     DEF StartRun, ApplyTaskStatus, SelectPending, EndRun, PollTask, PollFails, SkipPick,
         PickJob, UploadDone, DeleteDone, UploadQueued, RecordResult, WorkSteps, WorkerStep,
         WorkerFault, UploadMissingDirectory, UploadTimesOut, DeleteConflicts,
         ServerUnavailable, wikiVars
<1>h. ASSUME NEW f \in Features
      PROVE  SameHash(job[f], job'[f])
  <2>s. ASSUME job'[f] = job[f]
        PROVE  SameHash(job[f], job'[f])
    BY <2>s DEF SameHash
  <2>1. ASSUME NEW g \in Features, NEW t \in Tasks, PollFails(w, <<g, t>>)
        PROVE  SameHash(job[f], job'[f])
    BY <1>j, <1>t, <2>1, <2>s, HashesStay DEF PollFails, TypeOK
  <2>2. CASE ApplyTaskStatus(w)
    <3>1. worker[w].f \in Features /\ worker[w].answer \in Answers
      BY <1>t, <2>2 DEF ApplyTaskStatus, Assigned, WorkerRec
    <3>2. HasJob(worker[w].f, {"running"}) => job[worker[w].f] # None
      BY DEF HasJob
    <3> QED
      BY <1>j, <1>t, <2>2, <2>s, <3>1, <3>2, HashesStay DEF ApplyTaskStatus, TypeOK
  <2>3. ASSUME NEW g \in Features, PickJob(w, g)
        PROVE  SameHash(job[f], job'[f])
    <3>1. job[g] # None
      BY <2>3 DEF PickJob, HasJob
    <3> QED
      BY <1>j, <1>t, <2>3, <2>s, <3>1, HashesStay DEF PickJob, TypeOK
  <2>4. CASE Raises(w) \/ RecordResult(w)
    <3>1. worker[w].f \in Features
      BY <1>t, <2>4 DEF Raises, RecordResult, Assigned
    <3> QED
      BY <1>j, <1>t, <2>4, <2>s, <3>1, HashesStay DEF Raises, CallRaises, RecordResult, TypeOK
  <2>5. CASE UNCHANGED job
    BY <2>5, <2>s
  <2> QED
    BY <2>1, <2>2, <2>3, <2>4, <2>5, WorkerCases
       DEF StartRun, SelectPending, EndRun, PollTask, SkipPick, UploadDone, DeleteDone,
           UploadQueued
<1>1. ASSUME NEW f \in Features
      PROVE  Projected(f)' /\ (Claimed(f)' => Claimed(f))
  <2>1. \A S : At(f, S)' <=> At(f, S)
    BY <1>c DEF At
  <2> QED
    BY <1>c, <1>h, <2>1 DEF SameHash, Projected, Claimed
<1>2. SweptAsRead'
  BY <1>c DEF SweptAsRead
<1> QED
  BY <1>1, <1>2, <1>c

LEMMA NoneOwned ==
  ASSUME NEW w \in Workers, \A v \in Workers : v = w, NEW f \in Features,
         worker[w].pc \notin {"call", "record"} \/ worker[w].f # f
  PROVE  ~Owned(f)
BY DEF Owned, Owns

LEMMA RecordedRow ==
  ASSUME NEW j \in Job, NEW w \in Workers, Running(j),
         worker[w].op \in Operations, worker[w].op = "delete" => worker[w].task = None
  PROVE  /\ Running(Recorded(j, w)) =>
               /\ worker[w].op = "upsert" /\ worker[w].task # None
               /\ Recorded(j, w).task = worker[w].task
         /\ Indexed(Recorded(j, w)) => worker[w].op = "upsert" /\ worker[w].task = None
<1>1. j # None /\ j.status = "running"
  BY DEF Running
<1>2. CASE ChangedDuringRun(j, w)
  <2>1. Recorded(j, w) = [j EXCEPT !.status = "pending", !.retry = "none"]
    BY <1>1, <1>2, Zenon DEF Recorded
  <2> QED
    BY <2>1 DEF Job, Running, Indexed
<1>3. CASE ~ChangedDuringRun(j, w) /\ worker[w].task # None
  <2>1. Recorded(j, w)
          = [j EXCEPT !.task = worker[w].task, !.status = "running", !.retry = "none"]
    BY <1>1, <1>3, Zenon DEF Recorded
  <2> QED
    BY <1>3, <2>1 DEF Job, Running, Indexed, Operations
<1>4. CASE ~ChangedDuringRun(j, w) /\ worker[w].task = None
  BY <1>1, <1>4 DEF Job, Recorded, Running, Indexed, Operations
<1> QED
  BY <1>2, <1>3, <1>4

LEMMA MirrorWork ==
  ASSUME Sound, NEW w \in Workers, \A v \in Workers : v = w, Solo(w), Untasked(w),
         WorkSteps(w), SweptAsRead, sweeper.pc # "enqueue",
         \A f \in Features : Projected(f) /\ Carried(f), Carries(w)
  PROVE  (\A f \in Features : Carried(f)') /\ Carries(w)'
<1>t. TypeOK /\ Assigned /\ InFlight /\ worker[w] \in WorkerRec
  BY DEF Sound, TypeOK
<1>j. \A f \in Features : job[f] \in Rows
  BY <1>t DEF TypeOK, Rows
<1>c. docs' = docs /\ \A f \in Features : ClaimKept(f) /\ (Claimed(f)' => Claimed(f))
  <2>1. \A f \in Features : (Claimed(f)' => Claimed(f)) /\ docs' = docs
    BY WorkClaims
  <2>2. docs' = docs
    BY WorkerCases
       DEF StartRun, ApplyTaskStatus, SelectPending, EndRun, PollTask, PollFails, SkipPick,
           PickJob, UploadDone, DeleteDone, UploadQueued, RecordResult, WorkSteps, WorkerStep,
           WorkerFault, UploadMissingDirectory, UploadTimesOut, DeleteConflicts,
           ServerUnavailable, wikiVars
  <2> QED
    BY <2>1, <2>2 DEF ClaimKept
<1>k. \A j : Kept(j, j)
  BY DEF Kept
\* A row nobody touched, with no new task in its queue.
<1>s. ASSUME NEW f \in Features, job'[f] = job[f], Owned(f) => Owned(f)', ServerKeeps(f)
      PROVE  Carried(f)'
  BY <1>c, <1>k, <1>s, CarriedStays
\* A row that neither runs nor is indexed stands for nothing.
<1>n. ASSUME NEW f \in Features, ~Running(job'[f]), ~Indexed(job'[f])
      PROVE  Carried(f)'
  BY <1>n DEF Carried
<1>i. ASSUME UNCHANGED remoteVars
      PROVE  \A f \in Features : ServerKeeps(f)
  BY <1>i, ServerIdle DEF remoteVars
<1>o. \A f \in Features : Owned(f) => f = worker[w].f /\ worker[w].pc \in {"call", "record"}
  BY DEF Owned, Owns
<1>e. ASSUME worker'[w].pc \notin {"record", "apply"}
      PROVE  Carries(w)'
  BY <1>e DEF Carries
<1>1. CASE StartRun(w) \/ SelectPending(w) \/ EndRun(w)
  <2>1. worker'[w].pc \notin {"record", "apply"}
    <3>1. CASE StartRun(w)
      <4>1. PICK polls, left :
              WorkerAt(w, [WorkerIdle EXCEPT !.pc = "poll", !.polls = polls, !.left = left])
        BY <3>1 DEF StartRun
      <4> QED
        BY <1>t, <4>1, Updated DEF WorkerIdle
    <3>2. CASE SelectPending(w)
      <4>1. PICK picks : WorkerAt(w, [WorkerIdle EXCEPT !.pc = "pick", !.picks = picks])
        BY <3>2 DEF SelectPending
      <4> QED
        BY <1>t, <4>1, Updated DEF WorkerIdle
    <3>3. CASE EndRun(w)
      BY <1>t, <3>3, Updated DEF EndRun, WorkerIdle
    <3> QED
      BY <1>1, <3>1, <3>2, <3>3
  <2>2. worker[w].pc \notin {"call", "record"} /\ UNCHANGED job /\ UNCHANGED remoteVars
    BY <1>1 DEF StartRun, SelectPending, EndRun
  <2> QED
    BY <1>s, <1>e, <1>i, <1>o, <2>1, <2>2
<1>2. ASSUME NEW f \in Features, NEW t \in Tasks, PollTask(w, <<f, t>>)
      PROVE  (\A g \in Features : Carried(g)') /\ Carries(w)'
  <2>1. worker'[w].pc = "apply" /\ worker'[w].task = t /\ worker'[w].answer = Answer(t)
    <3>1. WorkerAt(w, [worker[w] EXCEPT !.pc = "apply", !.polls = @ \ {<<f, t>>}, !.f = f,
                                        !.task = t, !.answer = Answer(t)])
      BY <1>2 DEF PollTask
    <3>2. worker'[w] = [worker[w] EXCEPT !.pc = "apply", !.polls = @ \ {<<f, t>>}, !.f = f,
                                         !.task = t, !.answer = Answer(t)]
      BY <1>t, <3>1, Updated
    <3> QED
      BY <1>t, <3>2 DEF WorkerRec
  <2>2. worker[w].pc = "poll" /\ UNCHANGED job /\ UNCHANGED remoteVars
    BY <1>2 DEF PollTask
  <2>3. Answer(t) = "success" => Succeeded(t)
    BY DEF Answer, Succeeded
  <2>4. Carries(w)'
    BY <2>1, <2>2, <2>3 DEF Carries, Succeeded, remoteVars
  <2> QED
    BY <1>s, <1>i, <1>o, <2>2, <2>4
<1>3. ASSUME NEW f \in Features, NEW t \in Tasks, PollFails(w, <<f, t>>)
      PROVE  (\A g \in Features : Carried(g)') /\ Carries(w)'
  <2>1. worker'[w].pc = "poll" /\ worker[w].pc = "poll"
    BY <1>3, <1>t, Updated DEF PollFails, WorkerRec
  <2>2. UNCHANGED remoteVars /\ job' = [job EXCEPT ![f] = Failed(job[f])]
    BY <1>3 DEF PollFails
  <2>3. ~Running(job'[f]) /\ ~Indexed(job'[f]) /\ \A g \in Features \ {f} : job'[g] = job[g]
    BY <1>j, <1>t, <2>2, FailedStops DEF TypeOK
  <2> QED
    BY <1>s, <1>n, <1>e, <1>i, <1>o, <2>1, <2>2, <2>3
<1>4. CASE ApplyTaskStatus(w)
  <2>0. PICK f \in Features : f = worker[w].f
    BY <1>4, <1>t DEF ApplyTaskStatus, Assigned
  <2>1. /\ worker[w].pc = "apply" /\ worker[w].answer \in Answers
        /\ worker[w].task \in Tasks /\ Running(job[f]) /\ job[f].task = worker[w].task
    BY <1>4, <1>t, <2>0 DEF ApplyTaskStatus, WorkerRec, Solo
  <2> DEFINE k == Refreshed(job[f], worker[w].answer)
  <2>2. job[f] \in Job /\ job' = [job EXCEPT ![f] = k] /\ UNCHANGED remoteVars
    BY <1>4, <1>j, <2>0, <2>1 DEF ApplyTaskStatus, Running, Rows, HasJob
  <2>3. worker'[w].pc = "poll"
    <3>1. worker'[w] = [worker[w] EXCEPT !.pc = "poll", !.f = None, !.task = None,
                                         !.answer = "unknown"]
      BY <1>4, <1>t, Updated DEF ApplyTaskStatus
    <3> QED
      BY <1>t, <3>1 DEF WorkerRec
  <2>4. job'[f] = k /\ \A g \in Features \ {f} : job'[g] = job[g]
    BY <1>t, <2>2 DEF TypeOK
  <2>5. /\ Running(k) => k = job[f]
        /\ Indexed(k) => k = job[f] \/ worker[w].answer = "success"
    BY <2>1, <2>2, RefreshedStops
  <2>6. worker[w].answer = "success" => InPlace(f)
    <3>1. ~Owned(f)
      BY <2>1, NoneOwned
    <3>2. Landed(f, worker[w].task)
      BY <2>1, <3>1 DEF Carried
    <3> QED
      BY <2>1, <3>2 DEF Carries, Succeeded, Landed, Arrived, InPlace
  <2>7. Carried(f)'
    <3>1. CASE k = job[f]
      BY <1>s, <1>i, <1>o, <2>1, <2>2, <2>4, <3>1
    <3>2. CASE k # job[f]
      <4>1. ~Running(job'[f])
        BY <2>4, <2>5, <3>2
      <4>2. ASSUME Indexed(job'[f])
            PROVE  InPlace(f)'
        <5>1. InPlace(f) /\ UNCHANGED <<inbox, remote>>
          BY <2>2, <2>4, <2>5, <2>6, <3>2, <4>2 DEF remoteVars
        <5>2. Claimed(f)' => Claimed(f) /\ docs'[f] = docs[f]
          BY <1>c
        <5> QED
          BY <5>1, <5>2 DEF InPlace
      <4> QED
        BY <4>1, <4>2 DEF Carried
    <3> QED
      BY <3>1, <3>2
  <2> QED
    BY <1>s, <1>e, <1>i, <1>o, <2>1, <2>2, <2>3, <2>4, <2>7
<1>5. ASSUME NEW f \in Features, SkipPick(w, f)
      PROVE  (\A g \in Features : Carried(g)') /\ Carries(w)'
  <2>1. worker[w].pc = "pick" /\ worker'[w].pc = "pick"
    BY <1>5, <1>t, Updated DEF SkipPick, WorkerRec
  <2>2. UNCHANGED job /\ UNCHANGED remoteVars
    BY <1>5 DEF SkipPick
  <2> QED
    BY <1>s, <1>e, <1>i, <1>o, <2>1, <2>2
<1>6. ASSUME NEW f \in Features, PickJob(w, f)
      PROVE  (\A g \in Features : Carried(g)') /\ Carries(w)'
  <2>1. worker[w].pc = "pick" /\ worker'[w].pc = "call" /\ worker'[w].f = f
    <3>1. worker'[w] = [worker[w] EXCEPT !.pc = "call", !.picks = @ \ {f}, !.f = f,
                                         !.op = job[f].op, !.hash = job[f].hash]
      BY <1>6, <1>t, Updated DEF PickJob
    <3> QED
      BY <1>6, <1>t, <3>1 DEF PickJob, WorkerRec
  <2>2. UNCHANGED remoteVars /\ job[f] \in Job /\ job' = [job EXCEPT ![f] = Picked(job[f])]
    BY <1>6, <1>j DEF PickJob, HasJob, Rows
  <2>3. Running(job'[f]) /\ \A g \in Features \ {f} : job'[g] = job[g]
    BY <1>t, <2>2, PickedRuns DEF TypeOK
  <2>4. Owned(f)' /\ ~Indexed(job'[f])
    BY <2>1, <2>3 DEF Owned, Owns, Running, Indexed
  <2>5. Carried(f)'
    BY <2>4 DEF Carried
  <2> QED
    BY <1>s, <1>e, <1>i, <1>o, <2>1, <2>2, <2>3, <2>5
<1>7. CASE UploadDone(w) \/ DeleteDone(w) \/ \E t \in Tasks : UploadQueued(w, t)
  <2>0. PICK f \in Features : f = worker[w].f /\ worker[w].pc = "call" /\ job' = job
    BY <1>7, <1>t DEF UploadDone, DeleteDone, UploadQueued, Assigned
  <2>1. PICK u \in TaskIds :
          /\ WorkerAt(w, [worker[w] EXCEPT !.pc = "record", !.task = u])
          /\ u = None => UploadDone(w) \/ DeleteDone(w)
          /\ u # None => UploadQueued(w, u) /\ u \in Tasks
    <3>1. CASE UploadDone(w) \/ DeleteDone(w)
      BY <3>1 DEF UploadDone, DeleteDone, TaskIds
    <3>2. ASSUME NEW t \in Tasks, UploadQueued(w, t)
          PROVE  /\ WorkerAt(w, [worker[w] EXCEPT !.pc = "record", !.task = t])
                 /\ t # None /\ t \in TaskIds
      BY <3>2, NoneAssumption DEF UploadQueued, TaskIds
    <3> QED
      BY <1>7, <3>1, <3>2
  <2>2. /\ worker'[w].pc = "record" /\ worker'[w].task = u
        /\ worker'[w].f = f /\ worker'[w].op = worker[w].op
    BY <1>t, <2>0, <2>1, Updated, ZenonT(40) DEF WorkerRec
  <2>3. Running(job[f]) /\ ~Indexed(job[f]) /\ Owned(f)'
    BY <2>0, <2>2 DEF Solo, Owned, Owns, Running, Indexed
  <2>4. Carried(f)'
    BY <2>0, <2>3 DEF Carried
  \* What is uploaded under a claim is what is published.
  <2>5. disk[f] # None /\ Claimed(f)' => disk[f] = docs'[f]
    <3>1. At(f, {"project", "prune"}) => At(f, Hooks)
      BY DEF At, Hooks
    <3> QED
      BY <1>c, <3>1 DEF Projected, Claimed
  <2>6. CASE u = None
    <3>1. worker[w].op = "upsert" => UploadDone(w)
      BY <2>1, <2>6 DEF DeleteDone
    <3>2. worker[w].op = "upsert" => InPlace(f)'
      <4>1. ASSUME UploadDone(w)
            PROVE  disk[f] # None /\ inbox'[f] = << >> /\ remote'[f] = disk[f]
        BY <1>t, <2>0, <4>1 DEF UploadDone, TypeOK
      <4> QED
        BY <2>5, <3>1, <4>1 DEF InPlace
    <3>3. Carries(w)'
      BY <2>2, <2>6, <3>2, NoneAssumption DEF Carries
    <3>4. \A g \in Features \ {f} : ServerKeeps(g)
      <4>1. UNCHANGED <<task, inbox>> /\ \A g \in Features \ {f} : remote'[g] = remote[g]
        BY <1>t, <2>0, <2>1, <2>6 DEF UploadDone, DeleteDone, TypeOK
      <4> QED
        BY <4>1 DEF ServerKeeps, Arrived
    <3> QED
      BY <1>s, <1>o, <2>0, <2>4, <3>3, <3>4
  <2>7. CASE u # None
    <3>1. UploadQueued(w, u) /\ u \in Tasks
      BY <2>1, <2>7
    <3>2. /\ disk[f] # None /\ task[u] = None
          /\ task' = [task EXCEPT ![u] = [content |-> disk[f], state |-> "queued"]]
          /\ inbox' = [inbox EXCEPT ![f] = Append(inbox[f], u)] /\ remote' = remote
      BY <2>0, <3>1 DEF UploadQueued, Fresh
    <3>3. /\ task'[u] = [content |-> disk[f], state |-> "queued"]
          /\ \A t \in Tasks \ {u} : task'[t] = task[t]
          /\ inbox'[f] = Append(inbox[f], u)
          /\ \A g \in Features \ {f} : inbox'[g] = inbox[g]
      BY <1>t, <3>1, <3>2 DEF TypeOK
    <3>4. task'[u] # None
      <4>1. [content |-> disk[f], state |-> "queued"] \in TaskRec
        BY <1>t, <3>2 DEF TypeOK, TaskRec, Contents
      <4> QED
        BY <3>3, <4>1, NoTaskAssumption
    <3>5. inbox'[f] # << >> /\ inbox'[f][Len(inbox'[f])] = u
      <4>1. inbox[f] \in Seq(Tasks)
        BY <1>t DEF TypeOK
      <4> QED
        BY <3>1, <3>3, <4>1
    <3>6. Landed(f, u)'
      BY <2>5, <3>2, <3>3, <3>4, <3>5 DEF Landed, Arrived
    <3>7. Carries(w)'
      BY <2>2, <2>7, <3>6 DEF Carries
    <3>8. \A g \in Features \ {f} : ServerKeeps(g)
      BY <3>2, <3>3 DEF ServerKeeps, Arrived
    <3> QED
      BY <1>s, <1>o, <2>0, <2>4, <3>7, <3>8
  <2> QED
    BY <2>6, <2>7
<1>8. CASE Raises(w)
  <2>0. PICK f \in Features : f = worker[w].f /\ worker[w].pc = "call"
    BY <1>8, <1>t DEF Raises, Assigned
  <2>1. worker'[w].pc = "pick" /\ job' = [job EXCEPT ![f] = Failed(job[f])]
    BY <1>8, <1>t, <2>0, NextPickFields DEF Raises, CallRaises
  <2>2. ~Running(job'[f]) /\ ~Indexed(job'[f]) /\ \A g \in Features \ {f} : job'[g] = job[g]
    BY <1>j, <1>t, <2>1, FailedStops DEF TypeOK
  <2>3. \A g \in Features \ {f} : ServerKeeps(g)
    <3>1. CASE UNCHANGED remoteVars
      BY <1>i, <3>1
    <3>2. ASSUME NEW u \in Tasks, UploadTimesOut(w, u)
          PROVE  \A g \in Features \ {f} : ServerKeeps(g)
      <4>1. /\ task[u] = None /\ remote' = remote
            /\ task' = [task EXCEPT ![u] = [content |-> disk[f], state |-> "queued"]]
            /\ inbox' = [inbox EXCEPT ![f] = Append(inbox[f], u)]
        BY <2>0, <3>2 DEF UploadTimesOut, Fresh
      <4>2. /\ \A t \in Tasks \ {u} : task'[t] = task[t]
            /\ \A g \in Features \ {f} : inbox'[g] = inbox[g]
        BY <1>t, <4>1 DEF TypeOK
      <4> QED
        BY <4>1, <4>2 DEF ServerKeeps, Arrived
    <3>3. ~(UploadDone(w) \/ DeleteDone(w) \/ \E t \in Tasks : UploadQueued(w, t))
      <4>1. ASSUME UploadDone(w) \/ DeleteDone(w) \/ \E t \in Tasks : UploadQueued(w, t)
            PROVE  worker'[w].pc = "record"
        <5>1. PICK u : WorkerAt(w, [worker[w] EXCEPT !.pc = "record", !.task = u])
          BY <4>1 DEF UploadDone, DeleteDone, UploadQueued
        <5> QED
          BY <1>t, <5>1, Updated DEF WorkerRec
      <4> QED
        BY <2>1, <4>1
    <3>4. \/ UploadMissingDirectory(w) \/ DeleteConflicts(w) \/ ServerUnavailable(w)
          \/ \E u \in Tasks : UploadTimesOut(w, u)
      BY <2>0, <3>3
         DEF WorkSteps, WorkerStep, WorkerFault, StartRun, ApplyTaskStatus, SelectPending,
             EndRun, PollTask, PollFails, SkipPick, PickJob, RecordResult
    <3> QED
      BY <3>1, <3>2, <3>4 DEF UploadMissingDirectory, DeleteConflicts, ServerUnavailable
  <2> QED
    BY <1>s, <1>n, <1>e, <1>o, <2>0, <2>1, <2>2, <2>3
<1>9. CASE RecordResult(w)
  <2>0. PICK f \in Features : f = worker[w].f /\ worker[w].pc = "record"
    BY <1>9, <1>t DEF RecordResult, Assigned
  <2> DEFINE k == Recorded(job[f], w)
  <2>1. /\ worker'[w].pc = "pick" /\ job' = [job EXCEPT ![f] = k] /\ UNCHANGED remoteVars
    BY <1>9, <1>t, <2>0, NextPickFields DEF RecordResult
  <2>2. job'[f] = k /\ \A g \in Features \ {f} : job'[g] = job[g]
    BY <1>t, <2>1 DEF TypeOK
  <2>3. Running(job[f]) /\ job[f] \in Job
    BY <1>j, <2>0 DEF Solo, Owns, Running, Rows
  <2>4. /\ Running(k) => /\ worker[w].op = "upsert" /\ worker[w].task # None
                         /\ k.task = worker[w].task
        /\ Indexed(k) => worker[w].op = "upsert" /\ worker[w].task = None
    BY <1>t, <2>0, <2>3, RecordedRow DEF Untasked, WorkerRec
  <2>5. UNCHANGED <<task, inbox, remote>> /\ (Claimed(f)' => Claimed(f) /\ docs'[f] = docs[f])
    BY <1>c, <2>1 DEF remoteVars
  <2>6. ASSUME NEW t \in Tasks, Running(job'[f]), job'[f].task = t
        PROVE  Landed(f, t)'
    <3>1. Landed(f, t)
      BY <2>0, <2>2, <2>4, <2>6 DEF Carries
    <3> QED
      BY <2>5, <3>1 DEF Landed, Arrived
  <2>7. ASSUME Indexed(job'[f])
        PROVE  InPlace(f)'
    <3>1. InPlace(f)
      BY <2>0, <2>2, <2>4, <2>7 DEF Carries
    <3> QED
      BY <2>5, <3>1 DEF InPlace
  <2>8. Carried(f)'
    BY <2>6, <2>7 DEF Carried
  <2> QED
    BY <1>s, <1>e, <1>i, <1>o, <2>0, <2>1, <2>2, <2>8
<1> QED
  BY <1>1, <1>2, <1>3, <1>4, <1>5, <1>6, <1>7, <1>8, <1>9, WorkerCases

Mirror(w) == /\ SweptAsRead
             /\ \A f \in Features : Projected(f) /\ Carried(f)
             /\ Carries(w)

\* sweep_all is not interleaved, and no hook gives up.
HookedNext == SerialNext /\ \A r \in Requests : ~HookFails(r)

LEMMA MirrorStep ==
  ASSUME Sound, NEW w \in Workers, \A v \in Workers : v = w, Solo(w), Untasked(w),
         HookedNext, Mirror(w)
  PROVE  Mirror(w)'
<1>m. SweptAsRead /\ Carries(w) /\ \A f \in Features : Projected(f) /\ Carried(f)
  BY DEF Mirror
<1>s. CoreStep /\ \A r \in Requests : ~HookFails(r)
  BY DEF HookedNext, SerialNext, CoreStep, Progress
<1>1. CASE sweeper.pc = "enqueue" \/ Others
  <2>0. Others
    BY <1>1 DEF HookedNext, SerialNext, Others
  <2>1. UNCHANGED worker /\ \A f \in Features : Kept(job[f], job'[f])
    BY <2>0, OthersKeep
  <2>2. \A f \in Features : Owned(f) => Owned(f)'
    BY <2>1 DEF Owned, Owns
  <2> DEFINE Keeps == /\ SweptAsRead'
                      /\ \A f \in Features : Projected(f)' /\ ClaimKept(f) /\ ServerKeeps(f)
                      /\ \A t \in Tasks : Referred(t) /\ Succeeded(t) => Succeeded(t)'
  <2>3. Keeps
    <3>i. ASSUME UNCHANGED remoteVars
          PROVE  /\ \A f \in Features : ServerKeeps(f)
                 /\ \A t \in Tasks : Referred(t) /\ Succeeded(t) => Succeeded(t)'
      BY <3>i, ServerIdle DEF remoteVars, Succeeded
    <3>1. CASE SweeperStep \/ ListFails
      BY <1>m, <3>1, <3>i, SweepKeeps, SweeperFrame
    <3>2. ASSUME NEW r \in Requests, WikiSteps(r), sweeper.pc # "enqueue"
          PROVE  Keeps
      <4>1. UNCHANGED sweeper /\ UNCHANGED remoteVars
        BY <3>2, WikiFrame DEF WikiSteps, RequestStep, Commit, ProjectDocument, HookEnqueue,
           PruneFeature, RebuildFeature, CommitPublish, CommitArchive, CommitRestore, HookFails
      <4>2. SweptAsRead'
        BY <3>2, <4>1 DEF SweptAsRead
      <4> QED
        BY <1>m, <1>s, <3>2, <3>i, <4>1, <4>2, HookKeeps
    <3>3. CASE (Environment \/ \E f \in Features : TaskFails(f)) /\ sweeper.pc # "enqueue"
      <4>1. UNCHANGED <<active, docs, disk, request, sweeper>>
        BY <3>3 DEF Environment, TaskFails, TaskSucceeds, BackoffExpires, RecycleTask,
           CooldownExpires, TaskEnds, ServerOnly, wikiVars
      <4>2. \A f \in Features : SameHash(job[f], job'[f])
        <5>1. ASSUME NEW g \in Features, BackoffExpires(g)
              PROVE  \A f \in Features : SameHash(job[f], job'[f])
          <6>1. job[g] \in Job /\ job[g] # None
            BY <5>1 DEF BackoffExpires, HasJob, Sound, TypeOK
          <6>2. job' = [job EXCEPT ![g] = [job[g] EXCEPT !.retry = "due"]]
            BY <5>1 DEF BackoffExpires
          <6>3. SameHash(job[g], [job[g] EXCEPT !.retry = "due"])
            BY <6>1 DEF SameHash, Job
          <6> QED
            BY <6>2, <6>3 DEF SameHash, Sound, TypeOK
        <5>2. CASE UNCHANGED job
          BY <5>2 DEF SameHash
        <5> QED
          BY <3>3, <5>1, <5>2
             DEF Environment, TaskFails, TaskSucceeds, RecycleTask, CooldownExpires, TaskEnds,
                 ServerOnly
      <4>5. \A f \in Features : \A S : At(f, S)' <=> At(f, S)
        BY <4>1 DEF At
      <4>3. \A f \in Features : Projected(f)' /\ ClaimKept(f)
        BY <1>m, <4>1, <4>2, <4>5 DEF SameHash, Projected, Claimed, ClaimKept
      <4>4. SweptAsRead'
        BY <3>3, <4>1 DEF SweptAsRead
      <4> QED
        BY <3>3, <4>3, <4>4, EnvKeeps
    <3> QED
      BY <2>0, <3>1, <3>2, <3>3 DEF Others, HookedNext, SerialNext
  <2>4. \A f \in Features : Carried(f)'
    BY <1>m, <2>1, <2>2, <2>3, CarriedStays
  <2>5. Carries(w)'
    BY <1>m, <2>1, <2>3, CarriesStays
  <2> QED
    BY <2>3, <2>4, <2>5 DEF Mirror
<1>2. CASE sweeper.pc # "enqueue" /\ WorkSteps(w)
  BY <1>m, <1>2, WorkClaims, MirrorWork DEF Mirror
<1> QED
  BY <1>s, <1>1, <1>2, CoreActors

LEMMA MirrorInit == ASSUME NEW w \in Workers, Init PROVE Mirror(w)
BY DEF Init, Mirror, SweptAsRead, Backfill, SweeperIdle, Projected, Carried, Carries, Claimed,
       Running, Indexed, WorkerIdle

(* With one run of run_pending_jobs at a time, a sweep that is not         *)
(* interleaved and hooks that run to their end, no feature is stale in     *)
(* silence, however many requests publish, archive and restore it, and     *)
(* whatever uploads, deletes and polls fail or time out on the way: a row  *)
(* that is indexed under the hash of what is published stands for a        *)
(* directory that holds it.                                                *)
THEOREM NothingStaleInSilence ==
  ASSUME NEW w \in Workers, \A v \in Workers : v = w
  PROVE  SerialSpec /\ [][\A r \in Requests : ~HookFails(r)]_vars => []NoSilentStaleness
<1>1. Init => Mirror(w)
  BY MirrorInit
<1>2. /\ Sound /\ Solo(w) /\ NoDeleteTask /\ Mirror(w)
      /\ [SerialNext]_vars /\ [\A r \in Requests : ~HookFails(r)]_vars
      => Mirror(w)'
  <2>1. ASSUME Mirror(w), UNCHANGED vars
        PROVE  Mirror(w)'
    <3>1. UNCHANGED <<active, docs, disk, request, job, worker, sweeper, remote, task, inbox>>
      BY <2>1 DEF vars, wikiVars, remoteVars
    <3>2. /\ \A f \in Features : \A S : At(f, S)' <=> At(f, S)
          /\ \A f \in Features : Owned(f)' <=> Owned(f)
      BY <3>1 DEF At, Owned, Owns
    <3> QED
      BY <2>1, <3>1, <3>2
         DEF Mirror, SweptAsRead, Outdated, HasJob, Projected, Carried, Carries, Claimed,
             Landed, Arrived, InPlace, Succeeded
  <2>2. ASSUME Sound, Solo(w), NoDeleteTask, Mirror(w), HookedNext
        PROVE  Mirror(w)'
    BY <2>2, MirrorStep DEF NoDeleteTask
  <2> QED
    BY <2>1, <2>2 DEF HookedNext
<1>3. Sound /\ Mirror(w) => NoSilentStaleness
  <2> SUFFICES ASSUME Sound, Mirror(w), NEW f \in active, docs[f] # None,
                      HasJob(f, {"indexed"}), job[f].hash = docs[f],
                      \A r \in Requests : request[r].f # f
               PROVE  remote[f] = docs[f]
    BY DEF NoSilentStaleness
  <2>1. f \in Features /\ Indexed(job[f]) /\ Claimed(f)
    BY DEF Sound, TypeOK, HasJob, Indexed, Claimed, At
  <2> QED
    BY <2>1 DEF Mirror, Carried, InPlace
<1>4. SerialSpec => CoreSpec
  <2>1. [SerialNext]_vars => [Progress \/ Disturbance]_vars
    BY DEF SerialNext, Progress
  <2> QED
    BY <2>1, PTL DEF SerialSpec, CoreSpec
<1>5. CoreSpec => []NoDeleteTask
  <2>1. \A v, u \in Workers : v = u
    OBVIOUS
  <2>2. Spec => []NoDeleteTask
    BY <2>1, NoDeleteTaskAlways
  <2> QED
    BY <2>2, CoreIsSpec, PTL
<1> QED
  BY <1>1, <1>2, <1>3, <1>4, <1>5, SoundCore, SoloAlways, PTL DEF SerialSpec
=============================================================================

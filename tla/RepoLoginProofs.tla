--------------------------- MODULE RepoLoginProofs ---------------------------
(***************************************************************************)
(* Proofs about the repositories with their clones and about the logins, for *)
(* any set of jobs, readers, users, browsers and tokens; and about the shape *)
(* of all parts of the platform, from the invariants of each.              *)
(***************************************************************************)
EXTENDS ChatPartsProofs, ServicePartsProofs

-----------------------------------------------------------------------------
(* Repositories (RepoJobs) *)

RepoJob == [at : {"none", "queued", "loaded", "marked", "missing", "there", "emptied", "started",
                  "done", "failed"},
            force : BOOLEAN, from : Locations \cup {None}]
CodeAsk == [at : {"idle", "asked", "prepared", "resolved", "answered"},
            commit : AllCommits \cup {None}, text : AllCommits \cup {None}]
RepoShape ==
    /\ pushed \in [Locations -> 0..Pushes]
    /\ repo \in RepoRow \cup {None}
    /\ bare \in AllCommits \cup {None, << >>}
    /\ cloning \in [JobIds -> RepoJob]
    /\ \A j \in JobIds : AtWork(j) => cloning[j].from \in Locations
    /\ trees \in [Readers -> AllCommits \cup {None}]
    /\ asks \in [Readers -> CodeAsk]
    /\ \A r \in Readers : asks[r].at = "resolved" => asks[r].commit # None
    /\ symbols \in [AllCommits -> AllCommits \cup {None}]
    /\ deletion # "none" => repo = None
\* Alone, a job works on the row as it has read it, and ends with its clone.
OneJob == lone => \A j, k \in JobIds : cloning[j] # NoJob /\ cloning[k] # NoJob => j = k
WorkOfRow ==
    lone => \A j \in JobIds : AtWork(j) =>
      /\ repo # None /\ repo.location = cloning[j].from
      /\ cloning[j].at # "loaded" => repo.status = "cloning"
      /\ cloning[j].at = "done" => HasHead /\ bare[1] = cloning[j].from
\* Alone, a search has the worktree of the clone from beginning to end.
SearchOfClone ==
    lone => \A r \in Readers : asks[r].at \in {"prepared", "resolved"} =>
      /\ NobodyClones /\ HasHead /\ trees[r] = bare
      /\ asks[r].at = "resolved" => asks[r].commit = bare
CacheOfCommit == lone => \A c \in AllCommits : symbols[c] \in {None, c}
RepoInv ==
    /\ RepoShape /\ OneJob /\ WorkOfRow /\ SearchOfClone /\ CacheOfCommit
    /\ ReadyIsCloned /\ UnsettledHasJob /\ NothingIsLeft /\ AnswerIsOfCommit

\* What the clone has fetched is a commit.
LEMMA CommitIsHead ==
    ASSUME NEW l \in Locations, NEW n \in 0..Pushes
    PROVE  /\ <<l, n>> \in AllCommits /\ <<l, n>> # None /\ <<l, n>> # << >>
           /\ <<l, n>>[1] = l
BY RepoAssumption DEF AllCommits

\* A commit is neither the empty repository nor None.
LEMMA CommitsAreHeads == \A c \in AllCommits : c # << >> /\ c # None
<1>1. \A c \in AllCommits : \E l \in Locations, n \in 0..Pushes : c = <<l, n>>
  BY DEF AllCommits
<1> QED
  BY <1>1, CommitIsHead

\* There is no repository to begin with.
LEMMA RepoStart == RepoInit => RepoInv
<1> SUFFICES ASSUME RepoInit PROVE RepoInv
  OBVIOUS
<1> USE RepoAssumption
<1>1. NoJob \in RepoJob /\ NoAsk \in CodeAsk /\ NoJob.at = "none" /\ NoAsk.at = "idle"
  BY DEF NoJob, NoAsk, RepoJob, CodeAsk
<1>2. \A j \in JobIds : ~AtWork(j)
  BY <1>1 DEF RepoInit, AtWork
<1>3. RepoShape
  BY <1>1, <1>2 DEF RepoInit, RepoShape
<1> QED
  BY <1>1, <1>2, <1>3 DEF RepoInit, RepoInv, OneJob, WorkOfRow, SearchOfClone, CacheOfCommit,
     ReadyIsCloned, UnsettledHasJob, NothingIsLeft, AnswerIsOfCommit

\* A request that changes the row comes when nobody clones.
LEMMA RowStep ==
    ASSUME RepoInv, DeleteRepo \/ RemoveFiles \/ \E l \in Locations : RegisterRepo(l) \/ ChangeLocation(l)
    PROVE  RepoInv'
<1> USE RepoAssumption
<1> USE DEF NobodyClones, AtWork, HasHead
<1>1. RepoShape /\ OneJob /\ WorkOfRow /\ SearchOfClone /\ CacheOfCommit /\ ReadyIsCloned
      /\ UnsettledHasJob /\ NothingIsLeft /\ AnswerIsOfCommit
  BY DEF RepoInv
<1>2. UNCHANGED <<cloning, asks, symbols, lone, pushed, lost>>
  BY DEF DeleteRepo, RemoveFiles, RegisterRepo, ChangeLocation
<1>3. ASSUME NEW l \in Locations, RegisterRepo(l) \/ ChangeLocation(l)
      PROVE  RepoInv'
  <2>1. /\ repo' = [location |-> l, status |-> "registered"] /\ enqueue' = TRUE
        /\ UNCHANGED <<bare, deletion, trees>>
        /\ deletion = "none" \/ repo # None
        /\ lone => NobodyClones
    <3>1. CASE RegisterRepo(l)
      BY <1>1, <3>1 DEF RegisterRepo, WorkOfRow
    <3>2. CASE ChangeLocation(l)
      BY <3>2 DEF ChangeLocation, Calm
    <3> QED
      BY <1>3, <3>1, <3>2
  <2>2. repo' \in RepoRow /\ repo'.status = "registered"
    BY <2>1 DEF RepoRow
  <2>3. deletion = "none"
    BY <1>1, <2>1 DEF RepoShape
  <2>4. RepoShape'
    BY <1>1, <1>2, <2>1, <2>2, <2>3 DEF RepoShape
  <2>5. OneJob' /\ WorkOfRow' /\ SearchOfClone' /\ CacheOfCommit'
    BY <1>1, <1>2, <2>1 DEF OneJob, WorkOfRow, SearchOfClone, CacheOfCommit
  <2>6. ReadyIsCloned' /\ UnsettledHasJob' /\ NothingIsLeft' /\ AnswerIsOfCommit'
    BY <1>1, <1>2, <2>1, <2>2, <2>3 DEF ReadyIsCloned, UnsettledHasJob, NothingIsLeft, AnswerIsOfCommit
  <2> QED
    BY <2>4, <2>5, <2>6 DEF RepoInv
<1>4. CASE DeleteRepo
  <2>1. repo' = None /\ deletion' = "row" /\ (lone => NobodyClones) /\ UNCHANGED <<bare, trees, enqueue>>
    BY <1>4 DEF DeleteRepo, Calm
  <2>2. RepoShape'
    BY <1>1, <1>2, <2>1 DEF RepoShape
  <2>3. OneJob' /\ WorkOfRow' /\ SearchOfClone' /\ CacheOfCommit'
    BY <1>1, <1>2, <2>1 DEF OneJob, WorkOfRow, SearchOfClone, CacheOfCommit
  <2>4. ReadyIsCloned' /\ UnsettledHasJob' /\ NothingIsLeft' /\ AnswerIsOfCommit'
    BY <1>1, <1>2, <2>1 DEF ReadyIsCloned, UnsettledHasJob, NothingIsLeft, AnswerIsOfCommit
  <2> QED
    BY <2>2, <2>3, <2>4 DEF RepoInv
<1>5. CASE RemoveFiles
  <2>1. /\ repo = None /\ repo' = None /\ bare' = None /\ trees' = [r \in Readers |-> None]
        /\ deletion' = "done" /\ ~Searching /\ enqueue' = enqueue
    BY <1>1, <1>5 DEF RemoveFiles, Served, RepoShape
  <2>2. lone => NobodyClones
    BY <1>1, <2>1 DEF WorkOfRow
  <2>3. RepoShape'
    BY <1>1, <1>2, <2>1 DEF RepoShape
  <2>4. OneJob' /\ WorkOfRow' /\ SearchOfClone' /\ CacheOfCommit'
    BY <1>1, <1>2, <2>1, <2>2 DEF OneJob, WorkOfRow, SearchOfClone, CacheOfCommit, Searching
  <2>5. ReadyIsCloned' /\ UnsettledHasJob' /\ NothingIsLeft' /\ AnswerIsOfCommit'
    BY <1>1, <1>2, <2>1 DEF ReadyIsCloned, UnsettledHasJob, NothingIsLeft, AnswerIsOfCommit
  <2> QED
    BY <2>3, <2>4, <2>5 DEF RepoInv
<1> QED
  BY <1>3, <1>4, <1>5
\* A job that waits does nothing yet.
LEMMA QueueStep ==
    ASSUME RepoInv, NEW force \in BOOLEAN, AddJob(force),
           UNCHANGED <<pushed, repo, bare, deletion, trees, asks, symbols, lone, lost>>
    PROVE  RepoInv'
<1> USE RepoAssumption
<1>1. RepoShape /\ OneJob /\ WorkOfRow /\ SearchOfClone /\ CacheOfCommit /\ ReadyIsCloned
      /\ UnsettledHasJob /\ NothingIsLeft /\ AnswerIsOfCommit
  BY DEF RepoInv
<1>2. PICK j \in JobIds :
        /\ cloning[j] = NoJob /\ (lone => cloning = [k \in JobIds |-> NoJob])
        /\ cloning' = [cloning EXCEPT ![j] = [NoJob EXCEPT !.at = "queued", !.force = force]]
  BY DEF AddJob
<1> DEFINE new == [NoJob EXCEPT !.at = "queued", !.force = force]
<1>3. new \in RepoJob /\ new.at = "queued" /\ NoJob.at = "none" /\ new # NoJob
  BY DEF NoJob, RepoJob
<1>4. cloning' = [cloning EXCEPT ![j] = new]
  BY <1>2
<1> HIDE DEF new
<1>5. /\ cloning' \in [JobIds -> RepoJob] /\ cloning'[j] = new
      /\ \A k \in JobIds \ {j} : cloning'[k] = cloning[k]
  BY <1>1, <1>3, <1>4 DEF RepoShape
<1>6. \A k \in JobIds : AtWork(k)' <=> AtWork(k)
  BY <1>2, <1>3, <1>5 DEF AtWork
<1>7. \A k \in JobIds : AtWork(k) => cloning'[k] = cloning[k]
  BY <1>2, <1>3, <1>5 DEF AtWork
<1>8. RepoShape'
  BY <1>1, <1>5, <1>6, <1>7 DEF RepoShape
<1>9. OneJob'
  BY <1>2, <1>5 DEF OneJob
<1>10. WorkOfRow'
  BY <1>1, <1>6, <1>7 DEF WorkOfRow, HasHead
<1>11. SearchOfClone' /\ CacheOfCommit'
  BY <1>1, <1>6 DEF SearchOfClone, CacheOfCommit, HasHead, NobodyClones
<1>12. UnsettledHasJob'
  BY <1>1, <1>3, <1>5 DEF UnsettledHasJob
<1>13. ReadyIsCloned' /\ NothingIsLeft' /\ AnswerIsOfCommit'
  BY <1>1 DEF ReadyIsCloned, NothingIsLeft, AnswerIsOfCommit, HasHead
<1> QED
  BY <1>8, <1>9, <1>10, <1>11, <1>12, <1>13 DEF RepoInv

\* A job that goes on, with the row and the clone it leaves.
LEMMA JobStep ==
    ASSUME RepoInv, NEW j \in JobIds, NEW new \in RepoJob, cloning[j] # NoJob,
           cloning' = [cloning EXCEPT ![j] = new], JobLeaves,
           repo' \in RepoRow \cup {None}, repo' = None <=> repo = None,
           repo # None => repo'.location = repo.location,
           bare' \in AllCommits \cup {None, << >>},
           new.at \notin {"none", "queued"} => new.from \in Locations,
           lone => (new.at \notin {"none", "queued"} =>
             /\ repo # None /\ repo.location = new.from /\ ~Searching
             /\ new.at # "loaded" => repo'.status = "cloning"
             /\ new.at = "done" => HasHead' /\ bare'[1] = new.from),
           lone => repo = None \/ repo'.status # "ready"
                   \/ (repo'.status = repo.status /\ bare' = bare)
                   \/ (HasHead' /\ bare'[1] = repo.location),
           lone => bare' = bare \/ AtWork(j),
           repo # None /\ new = NoJob => repo'.status \in {"ready", "failed"}
    PROVE  RepoInv'
<1> USE RepoAssumption
<1>1. RepoShape /\ OneJob /\ WorkOfRow /\ SearchOfClone /\ CacheOfCommit /\ ReadyIsCloned
      /\ UnsettledHasJob /\ NothingIsLeft /\ AnswerIsOfCommit
      /\ UNCHANGED <<pushed, enqueue, deletion, trees, asks, symbols, lone, lost>>
  BY DEF RepoInv, JobLeaves
<1>2. /\ cloning' \in [JobIds -> RepoJob] /\ cloning'[j] = new
      /\ \A k \in JobIds \ {j} : cloning'[k] = cloning[k]
  BY <1>1 DEF RepoShape
<1>3. AtWork(j)' <=> new.at \notin {"none", "queued"}
  BY <1>2 DEF AtWork
<1>4. \A k \in JobIds \ {j} : (AtWork(k)' <=> AtWork(k)) /\ (lone => ~AtWork(k))
  <2>1. NoJob.at = "none"
    BY DEF NoJob
  <2> QED
    BY <1>1, <1>2, <2>1 DEF AtWork, OneJob
<1>5. RepoShape'
  BY <1>1, <1>2, <1>3, <1>4 DEF RepoShape
<1>6. OneJob'
  BY <1>1, <1>2 DEF OneJob
<1>7. WorkOfRow'
  BY <1>1, <1>2, <1>3, <1>4 DEF WorkOfRow
<1>8. SearchOfClone'
  <2>1. lone /\ Searching => NobodyClones /\ ~AtWork(j)'
    BY <1>1, <1>3 DEF SearchOfClone, Searching
  <2>2. lone /\ Searching => NobodyClones' /\ bare' = bare
    BY <1>4, <2>1 DEF NobodyClones
  <2> QED
    BY <1>1, <2>2 DEF SearchOfClone, Searching, HasHead
<1>9. ReadyIsCloned'
  BY <1>1 DEF ReadyIsCloned, HasHead
<1>10. UnsettledHasJob'
  <2>1. new # NoJob => \E k \in JobIds : cloning'[k] # NoJob
    BY <1>2
  <2>2. repo' = None \/ repo # None
    OBVIOUS
  <2> QED
    BY <1>1, <2>1, <2>2 DEF UnsettledHasJob
<1>11. NothingIsLeft'
  <2>1. lone /\ deletion = "done" => repo = None /\ ~AtWork(j)
    BY <1>1 DEF RepoShape, WorkOfRow
  <2> QED
    BY <1>1, <2>1 DEF NothingIsLeft
<1>12. CacheOfCommit' /\ AnswerIsOfCommit'
  BY <1>1 DEF CacheOfCommit, AnswerIsOfCommit
<1> QED
  BY <1>5, <1>6, <1>7, <1>8, <1>9, <1>10, <1>11, <1>12 DEF RepoInv

\* The row with another status.
LEMMA StatusedRow ==
    ASSUME NEW status \in {"registered", "cloning", "ready", "failed"}, Statused(status),
           repo \in RepoRow \cup {None}
    PROVE  /\ repo' \in RepoRow \cup {None} /\ (repo' = None <=> repo = None)
           /\ repo # None => repo'.location = repo.location /\ repo'.status = status
BY RepoAssumption DEF Statused, RepoRow

\* A job loads its row, or finds none and ends.
LEMMA LoadStep ==
    ASSUME RepoInv, NEW j \in JobIds, LoadRow(j)
    PROVE  RepoInv'
<1> USE RepoAssumption
<1>1. RepoShape /\ WorkOfRow
  BY DEF RepoInv
<1>2. /\ cloning[j] \in RepoJob /\ cloning[j].at = "queued" /\ cloning[j] # NoJob
      /\ NoJob \in RepoJob /\ NoJob.at = "none"
  BY <1>1 DEF LoadRow, RepoShape, NoJob, RepoJob
<1>3. (lone => NobodyClones /\ ~Searching) /\ UNCHANGED <<repo, bare>> /\ JobLeaves
  BY DEF LoadRow
<1>4. CASE repo = None \/ (repo.status = "ready" /\ ~cloning[j].force)
  <2>1. cloning' = [cloning EXCEPT ![j] = NoJob]
    BY <1>4 DEF LoadRow
  <2> QED
    BY <1>1, <1>2, <1>3, <1>4, <2>1, JobStep DEF RepoShape
<1>5. CASE ~(repo = None \/ (repo.status = "ready" /\ ~cloning[j].force))
  <2> DEFINE new == [cloning[j] EXCEPT !.at = "loaded", !.from = repo.location]
  <2>1. cloning' = [cloning EXCEPT ![j] = new]
    BY <1>5 DEF LoadRow
  <2>2. repo.location \in Locations /\ repo # None
    BY <1>1, <1>5 DEF RepoShape, RepoRow
  <2>3. new \in RepoJob /\ new.at = "loaded" /\ new.from = repo.location /\ new # NoJob
    BY <1>2, <2>2 DEF RepoJob
  <2> HIDE DEF new
  <2> QED
    BY <1>1, <1>2, <1>3, <1>5, <2>1, <2>2, <2>3, JobStep DEF RepoShape
<1> QED
  BY <1>4, <1>5

\* A job says cloning in its row, if it is still there.
LEMMA MarkStep ==
    ASSUME RepoInv, NEW j \in JobIds, MarkCloning(j)
    PROVE  RepoInv'
<1> USE RepoAssumption
<1>1. RepoShape /\ WorkOfRow /\ SearchOfClone
  BY DEF RepoInv
<1> DEFINE new == [cloning[j] EXCEPT !.at = "marked"]
<1>2. /\ cloning[j] \in RepoJob /\ cloning[j].at = "loaded" /\ cloning[j] # NoJob
      /\ new \in RepoJob /\ new.at = "marked" /\ new.from = cloning[j].from /\ new # NoJob
      /\ AtWork(j)
  BY <1>1 DEF MarkCloning, RepoShape, NoJob, RepoJob, AtWork
<1>3. cloning' = [cloning EXCEPT ![j] = new] /\ bare' = bare /\ JobLeaves
  BY <1>1 DEF MarkCloning, JobGoesOn, RepoShape
<1>4. /\ repo' \in RepoRow \cup {None} /\ (repo' = None <=> repo = None)
      /\ repo # None => repo'.location = repo.location /\ repo'.status = "cloning"
  BY <1>1, StatusedRow DEF MarkCloning, RepoShape
<1>5. lone => repo # None /\ repo.location = cloning[j].from /\ ~Searching
  BY <1>1, <1>2 DEF WorkOfRow, SearchOfClone, NobodyClones, Searching
<1> HIDE DEF new
<1> QED
  BY <1>1, <1>2, <1>3, <1>4, <1>5, JobStep DEF RepoShape

\* Fetching or cloning, a job leaves the row.
LEMMA CloneStep ==
    ASSUME RepoInv, NEW j \in JobIds,
           LookAtBare(j) \/ Fetch(j) \/ EmptyBare(j) \/ StartClone(j) \/ EndClone(j)
    PROVE  RepoInv'
<1> USE RepoAssumption
<1>1. RepoShape /\ WorkOfRow /\ SearchOfClone
  BY DEF RepoInv
<1>2. cloning[j].at \in {"marked", "there", "missing", "emptied", "started"}
  BY DEF LookAtBare, Fetch, EmptyBare, StartClone, EndClone
<1>3. cloning[j] \in RepoJob /\ cloning[j] # NoJob /\ AtWork(j) /\ cloning[j].from \in Locations
  BY <1>1, <1>2 DEF RepoShape, NoJob, AtWork
<1>4. Tip(cloning[j].from) \in AllCommits /\ Tip(cloning[j].from) # None
      /\ Tip(cloning[j].from) # << >> /\ Tip(cloning[j].from)[1] = cloning[j].from
  BY <1>1, <1>3, CommitIsHead DEF Tip, RepoShape
<1>5. PICK at \in {"there", "missing", "emptied", "started", "done", "failed"} :
        /\ JobGoesOn(j, at) /\ JobLeaves /\ repo' = repo
        /\ bare' \in {None, << >>, bare, Tip(cloning[j].from)}
        /\ at = "done" => bare' = Tip(cloning[j].from)
  <2>1. CASE LookAtBare(j)
    BY <2>1 DEF LookAtBare
  <2>2. CASE Fetch(j)
    BY <2>2 DEF Fetch, Fetched
  <2>3. CASE EmptyBare(j)
    BY <2>3 DEF EmptyBare
  <2>4. CASE StartClone(j)
    BY <2>4 DEF StartClone
  <2>5. CASE EndClone(j)
    BY <2>5 DEF EndClone
  <2> QED
    BY <2>1, <2>2, <2>3, <2>4, <2>5
<1> DEFINE new == [cloning[j] EXCEPT !.at = at]
<1>6. /\ new \in RepoJob /\ new.at = at /\ new.from = cloning[j].from
      /\ cloning' = [cloning EXCEPT ![j] = new]
  BY <1>1, <1>3, <1>5 DEF JobGoesOn, RepoJob, RepoShape
<1> HIDE DEF new
<1>7. new # NoJob
  BY <1>6 DEF NoJob
<1>8. lone => repo # None /\ repo.location = cloning[j].from /\ ~Searching /\ repo.status = "cloning"
  BY <1>1, <1>2, <1>3 DEF WorkOfRow, SearchOfClone, NobodyClones, Searching
<1>9. at = "done" => HasHead' /\ bare'[1] = cloning[j].from
  BY <1>4, <1>5 DEF HasHead
<1>10. bare' \in AllCommits \cup {None, << >>} /\ repo' \in RepoRow \cup {None}
  BY <1>1, <1>4, <1>5 DEF RepoShape
<1> QED
  BY <1>3, <1>5, <1>6, <1>7, <1>8, <1>9, <1>10, JobStep

\* A job that ends leaves the row ready with a clone, or failed.
LEMMA FinishStep ==
    ASSUME RepoInv, NEW j \in JobIds, FinishJob(j)
    PROVE  RepoInv'
<1> USE RepoAssumption
<1>1. RepoShape /\ WorkOfRow
  BY DEF RepoInv
<1>2. /\ cloning[j].at \in {"done", "failed"} /\ AtWork(j) /\ cloning[j] # NoJob
      /\ NoJob \in RepoJob /\ NoJob.at = "none"
  BY DEF FinishJob, AtWork, NoJob, RepoJob
<1>3. /\ repo' \in RepoRow \cup {None} /\ (repo' = None <=> repo = None)
      /\ repo # None => repo'.location = repo.location /\ repo'.status = Outcome(j)
  BY <1>1, StatusedRow DEF FinishJob, RepoShape, Outcome
<1>4. cloning' = [cloning EXCEPT ![j] = NoJob] /\ bare' = bare /\ JobLeaves
  BY DEF FinishJob
<1>5. lone /\ cloning[j].at = "done" => HasHead' /\ bare'[1] = repo.location
  BY <1>1, <1>2, <1>4 DEF WorkOfRow, HasHead
<1>6. repo # None => /\ repo'.status \in {"ready", "failed"}
                     /\ repo'.status = "ready" => cloning[j].at = "done"
  BY <1>2, <1>3 DEF Outcome
<1>7. bare' \in AllCommits \cup {None, << >>}
  BY <1>1, <1>4 DEF RepoShape
<1> QED
  BY <1>2, <1>3, <1>4, <1>5, <1>6, <1>7, JobStep

\* Jobs that are lost leave row and clone as they are.
LEMMA LostStep ==
    ASSUME RepoInv, RestartCodeAsk \/ \E j \in JobIds : LoseJob(j)
    PROVE  RepoInv'
<1> USE RepoAssumption
<1>1. RepoShape /\ OneJob /\ WorkOfRow /\ SearchOfClone /\ CacheOfCommit /\ ReadyIsCloned
      /\ NothingIsLeft /\ AnswerIsOfCommit
  BY DEF RepoInv
<1>2. /\ lost' = TRUE /\ UNCHANGED <<pushed, repo, bare, trees, symbols, lone>>
      /\ deletion' = deletion \/ (deletion = "row" /\ deletion' = "broken off")
      /\ asks' = asks \/ asks' = [r \in Readers |-> NoAsk]
  BY DEF RestartCodeAsk, LoseJob
<1>3. NoJob \in RepoJob /\ NoJob.at = "none" /\ NoAsk \in CodeAsk /\ NoAsk.at = "idle"
  BY DEF NoJob, RepoJob, NoAsk, CodeAsk
<1>4. /\ cloning' \in [JobIds -> RepoJob]
      /\ \A k \in JobIds : cloning'[k] = NoJob \/ cloning'[k] = cloning[k]
  BY <1>1, <1>3 DEF RestartCodeAsk, LoseJob, RepoShape
<1>5. \A k \in JobIds : AtWork(k)' => AtWork(k) /\ cloning'[k] = cloning[k]
  BY <1>3, <1>4 DEF AtWork
<1>6. /\ asks' \in [Readers -> CodeAsk]
      /\ \A r \in Readers : asks'[r].at # "idle" => asks'[r] = asks[r]
  BY <1>1, <1>2, <1>3 DEF RepoShape
<1>7. RepoShape'
  BY <1>1, <1>2, <1>4, <1>5, <1>6 DEF RepoShape
<1>8. OneJob' /\ WorkOfRow'
  BY <1>1, <1>2, <1>4, <1>5, ZenonT(40) DEF OneJob, WorkOfRow, HasHead
<1>9. SearchOfClone' /\ AnswerIsOfCommit'
  BY <1>1, <1>2, <1>5, <1>6 DEF SearchOfClone, AnswerIsOfCommit, HasHead, NobodyClones
<1>10. CacheOfCommit' /\ ReadyIsCloned' /\ UnsettledHasJob' /\ NothingIsLeft'
  BY <1>1, <1>2 DEF CacheOfCommit, ReadyIsCloned, UnsettledHasJob, NothingIsLeft, HasHead
<1> QED
  BY <1>7, <1>8, <1>9, <1>10 DEF RepoInv

\* What a reader may leave as its request, when row, clone and jobs stay.
LEMMA ReaderStep ==
    ASSUME RepoInv, AskLeaves, NEW r \in Readers, NEW new \in CodeAsk,
           asks' = [asks EXCEPT ![r] = new],
           trees' \in [Readers -> AllCommits \cup {None}],
           trees' = trees \/ (HasHead /\ ~Searching /\ (lone => NobodyClones)),
           symbols' \in [AllCommits -> AllCommits \cup {None}], CacheOfCommit',
           new.at = "resolved" => new.commit # None,
           lone => /\ new.at \in {"prepared", "resolved"} =>
                        NobodyClones /\ HasHead /\ trees'[r] = bare
                   /\ new.at = "resolved" => new.commit = bare
                   /\ new.at = "answered" => new.text = new.commit
    PROVE  RepoInv'
<1> USE RepoAssumption
<1>1. RepoShape /\ OneJob /\ WorkOfRow /\ SearchOfClone /\ ReadyIsCloned
      /\ UnsettledHasJob /\ NothingIsLeft /\ AnswerIsOfCommit
      /\ UNCHANGED <<pushed, repo, bare, cloning, enqueue, deletion, lone, lost>>
  BY DEF RepoInv, AskLeaves
<1>2. /\ asks' \in [Readers -> CodeAsk] /\ asks'[r] = new
      /\ \A q \in Readers \ {r} : asks'[q] = asks[q]
  BY <1>1 DEF RepoShape
<1>3. RepoShape'
  BY <1>1, <1>2 DEF RepoShape, AtWork
<1>4. OneJob' /\ WorkOfRow'
  BY <1>1 DEF OneJob, WorkOfRow, HasHead, AtWork
<1>5. SearchOfClone'
  <2> SUFFICES ASSUME lone, NEW q \in Readers, asks'[q].at \in {"prepared", "resolved"}
               PROVE  /\ NobodyClones /\ HasHead /\ trees'[q] = bare
                      /\ asks'[q].at = "resolved" => asks'[q].commit = bare
    BY <1>1 DEF SearchOfClone, NobodyClones, HasHead, AtWork
  <2>1. CASE q = r
    BY <1>2, <2>1
  <2>2. CASE q # r
    <3>1. asks[q].at \in {"prepared", "resolved"} /\ Searching /\ asks'[q] = asks[q]
      BY <1>2, <2>2 DEF Searching
    <3> QED
      BY <1>1, <3>1 DEF SearchOfClone
  <2> QED
    BY <2>1, <2>2
<1>6. NothingIsLeft'
  BY <1>1 DEF NothingIsLeft, HasHead
<1>7. ReadyIsCloned' /\ UnsettledHasJob'
  BY <1>1 DEF ReadyIsCloned, UnsettledHasJob, HasHead
<1>8. AnswerIsOfCommit'
  BY <1>1, <1>2 DEF AnswerIsOfCommit
<1> QED
  BY <1>3, <1>4, <1>5, <1>6, <1>7, <1>8 DEF RepoInv

\* What a reader does keeps the invariant of the repository.
LEMMA AskStep ==
    ASSUME RepoInv, NEW r \in Readers,
           \/ AskCode(r) \/ PrepareTree(r) \/ ResolveCommit(r) \/ Search(r)
           \/ FindSymbols(r) \/ EndAsk(r)
    PROVE  RepoInv'
<1> USE RepoAssumption
<1>1. RepoShape /\ SearchOfClone /\ CacheOfCommit
  BY DEF RepoInv
<1>2. /\ asks[r] \in CodeAsk /\ NoAsk \in CodeAsk /\ NoAsk.at = "idle"
      /\ trees \in [Readers -> AllCommits \cup {None}]
      /\ symbols \in [AllCommits -> AllCommits \cup {None}]
      /\ HasHead => bare \in AllCommits
  BY <1>1 DEF RepoShape, NoAsk, CodeAsk, HasHead
<1>3. asks[r].at = "resolved" /\ lone => asks[r].commit = bare /\ trees[r] = bare /\ HasHead
  BY <1>1 DEF SearchOfClone
<1>4. CASE AskCode(r)
  <2> DEFINE new == [asks[r] EXCEPT !.at = "asked"]
  <2>1. new \in CodeAsk /\ new.at = "asked"
    BY <1>2 DEF CodeAsk
  <2>2. asks' = [asks EXCEPT ![r] = new] /\ UNCHANGED <<trees, symbols>> /\ AskLeaves
    BY <1>1, <1>4 DEF AskCode, RepoShape
  <2>3. lone' = lone
    BY <2>2 DEF AskLeaves
  <2> HIDE DEF new
  <2> QED
    BY <1>1, <1>2, <2>1, <2>2, <2>3, ReaderStep DEF CacheOfCommit
<1>5. CASE PrepareTree(r)
  <2>1. ~Searching /\ (lone => NobodyClones) /\ symbols' = symbols /\ AskLeaves
    BY <1>5 DEF PrepareTree, Served
  <2>2. CacheOfCommit'
    BY <1>1, <2>1 DEF CacheOfCommit, AskLeaves
  <2>3. CASE HasHead
    <3> DEFINE new == [asks[r] EXCEPT !.at = "prepared"]
    <3>1. new \in CodeAsk /\ new.at = "prepared"
      BY <1>2 DEF CodeAsk
    <3>2. asks' = [asks EXCEPT ![r] = new] /\ trees' = [trees EXCEPT ![r] = bare]
      BY <1>1, <1>5, <2>3 DEF PrepareTree, RepoShape, Prepared
    <3>3. trees' \in [Readers -> AllCommits \cup {None}] /\ trees'[r] = bare
      BY <1>2, <2>3, <3>2
    <3> HIDE DEF new
    <3> QED
      BY <1>2, <2>1, <2>2, <2>3, <3>1, <3>2, <3>3, ReaderStep
  <2>4. CASE ~HasHead
    BY <1>2, <1>5, <2>1, <2>2, <2>4, ReaderStep DEF PrepareTree
  <2> QED
    BY <2>3, <2>4
<1>6. CASE ResolveCommit(r)
  <2>1. asks[r].at = "prepared" /\ UNCHANGED <<trees, symbols>> /\ AskLeaves
    BY <1>6 DEF ResolveCommit
  <2>2. CacheOfCommit'
    BY <1>1, <2>1 DEF CacheOfCommit, AskLeaves
  <2>3. lone => NobodyClones /\ HasHead /\ trees[r] = bare
    BY <1>1, <2>1 DEF SearchOfClone
  <2>4. CASE HasHead
    <3> DEFINE new == [asks[r] EXCEPT !.at = "resolved", !.commit = bare]
    <3>1. new \in CodeAsk /\ new.at = "resolved" /\ new.commit = bare
      BY <1>2, <2>4 DEF CodeAsk
    <3>2. asks' = [asks EXCEPT ![r] = new]
      BY <1>6, <2>4 DEF ResolveCommit
    <3>3. new.commit # None
      BY <2>4, <3>1 DEF HasHead
    <3> HIDE DEF new
    <3> QED
      BY <1>2, <2>1, <2>2, <2>3, <3>1, <3>2, <3>3, ReaderStep
  <2>5. CASE ~HasHead
    BY <1>2, <1>6, <2>1, <2>2, <2>5, ReaderStep DEF ResolveCommit
  <2> QED
    BY <2>4, <2>5
<1>7. ASSUME NEW text \in AllCommits, Answer(r, text), trees' = trees, AskLeaves,
             lone => text = asks[r].commit,
             symbols' \in [AllCommits -> AllCommits \cup {None}], CacheOfCommit'
      PROVE  RepoInv'
  <2> DEFINE new == [asks[r] EXCEPT !.at = "answered", !.text = text]
  <2>1. new \in CodeAsk /\ new.at = "answered" /\ new.text = text /\ new.commit = asks[r].commit
    BY <1>2 DEF CodeAsk
  <2>2. asks' = [asks EXCEPT ![r] = new]
    BY <1>1, <1>7 DEF Answer, RepoShape
  <2> HIDE DEF new
  <2> QED
    BY <1>2, <1>7, <2>1, <2>2, ReaderStep
<1>8. CASE Search(r)
  <2>1. asks[r].at = "resolved" /\ UNCHANGED <<trees, symbols>> /\ AskLeaves
    BY <1>8 DEF Search
  <2>2. CacheOfCommit'
    BY <1>1, <2>1 DEF CacheOfCommit, AskLeaves
  <2>3. CASE trees[r] # None
    BY <1>2, <1>3, <1>7, <1>8, <2>1, <2>2, <2>3 DEF Search
  <2>4. CASE trees[r] = None
    BY <1>2, <1>8, <2>1, <2>2, <2>4, ReaderStep DEF Search
  <2> QED
    BY <2>3, <2>4
<1>9. CASE FindSymbols(r)
  <2> DEFINE commit == asks[r].commit
             found == IF symbols[commit] # None THEN symbols[commit] ELSE trees[r]
  <2>1. /\ asks[r].at = "resolved" /\ trees[r] # None /\ trees' = trees /\ AskLeaves
        /\ Answer(r, found) /\ symbols' = [symbols EXCEPT ![commit] = found]
    BY <1>9 DEF FindSymbols
  <2>2. lone => commit \in AllCommits /\ found = commit
    BY <1>1, <1>2, <1>3, <2>1 DEF CacheOfCommit
  <2>3. commit \in AllCommits /\ found \in AllCommits
    <3>1. commit \in AllCommits
      BY <1>1, <2>1 DEF RepoShape, CodeAsk
    <3> QED
      BY <1>2, <2>1, <3>1
  <2>4. symbols' \in [AllCommits -> AllCommits \cup {None}] /\ lone' = lone
    BY <1>2, <2>1, <2>3 DEF AskLeaves
  <2>5. CacheOfCommit'
    BY <1>1, <1>2, <2>1, <2>2, <2>4 DEF CacheOfCommit
  <2> HIDE DEF found
  <2> QED
    BY <1>7, <2>1, <2>2, <2>3, <2>4, <2>5
<1>10. CASE EndAsk(r)
  <2>1. asks' = [asks EXCEPT ![r] = NoAsk] /\ UNCHANGED <<trees, symbols>> /\ AskLeaves
    BY <1>10 DEF EndAsk
  <2>2. CacheOfCommit'
    BY <1>1, <2>1 DEF CacheOfCommit, AskLeaves
  <2> QED
    BY <1>2, <2>1, <2>2, ReaderStep
<1> QED
  BY <1>4, <1>5, <1>6, <1>8, <1>9, <1>10

\* Every step of the jobs, the requests, the readers and of CodeAsk keeps the
\* invariant of the repository.
LEMMA RepoStep == RepoInv /\ [RepoNext]_repoVars => RepoInv'
<1> SUFFICES ASSUME RepoInv, [RepoNext]_repoVars PROVE RepoInv'
  OBVIOUS
<1> USE RepoAssumption
<1>1. RepoShape /\ OneJob /\ WorkOfRow /\ SearchOfClone /\ CacheOfCommit /\ ReadyIsCloned
      /\ UnsettledHasJob /\ NothingIsLeft /\ AnswerIsOfCommit
  BY DEF RepoInv
<1>2. CASE UNCHANGED repoVars
  BY <1>1, <1>2 DEF RepoInv, RepoShape, OneJob, WorkOfRow, SearchOfClone, CacheOfCommit,
     ReadyIsCloned, UnsettledHasJob, NothingIsLeft, AnswerIsOfCommit, HasHead, NobodyClones,
     AtWork, repoVars
<1>3. CASE Enqueue \/ RefreshRepo \/ RefreshAll
  <2>1. PICK force \in BOOLEAN : AddJob(force)
    BY <1>3 DEF Enqueue, RefreshRepo, RefreshAll
  <2>2. UNCHANGED <<pushed, repo, bare, deletion, trees, asks, symbols, lone, lost>>
    BY <1>3 DEF Enqueue, RefreshRepo, RefreshAll
  <2> QED
    BY <2>1, <2>2, QueueStep
<1>4. ASSUME NEW l \in Locations, Push(l) PROVE RepoInv'
  <2>1. /\ pushed' \in [Locations -> 0..Pushes]
        /\ UNCHANGED <<repo, bare, cloning, enqueue, deletion, trees, asks, symbols, lone, lost>>
    BY <1>1, <1>4 DEF Push, RepoShape
  <2> QED
    BY <1>1, <2>1 DEF RepoInv, RepoShape, OneJob, WorkOfRow, SearchOfClone, CacheOfCommit,
       ReadyIsCloned, UnsettledHasJob, NothingIsLeft, AnswerIsOfCommit, HasHead, NobodyClones,
       AtWork
<1>5. ASSUME NEW r \in Readers, CleanUp(r) PROVE RepoInv'
  <2>1. /\ trees' = [trees EXCEPT ![r] = None] /\ (lone => ~Searching)
        /\ UNCHANGED <<pushed, repo, bare, cloning, enqueue, deletion, asks, symbols, lone, lost>>
    BY <1>5 DEF CleanUp, AskLeaves
  <2>2. RepoShape' /\ NothingIsLeft'
    BY <1>1, <2>1 DEF RepoShape, NothingIsLeft, AtWork
  <2>3. SearchOfClone'
    BY <1>1, <2>1 DEF SearchOfClone, Searching
  <2> QED
    BY <1>1, <2>1, <2>2, <2>3 DEF RepoInv, OneJob, WorkOfRow, CacheOfCommit,
       ReadyIsCloned, UnsettledHasJob, AnswerIsOfCommit, HasHead, NobodyClones, AtWork
<1> QED
  BY <1>2, <1>3, <1>4, <1>5, RowStep, LoadStep, MarkStep, CloneStep, FinishStep, LostStep, AskStep
     DEF RepoNext

\* A step of the platform is one of the repositories, where they are the part, or none.
LEMMA RepoPart ==
    ASSUME [PlatformNext]_platform
    PROVE  part' = part /\ (part = "repos" => [RepoNext]_repoVars)
BY DEF PlatformNext, platform, repoVars

\* A ready repository has a clone of its location, one that is not settled has a
\* job, a deleted one leaves nothing on the disk, and an answer is of the commit it
\* names (RepoIsSound; run_clone of cloner.py and the worktrees).
THEOREM ReposStaySound == PlatformSpec => []RepoIsSound
<1> DEFINE I == part = "repos" => RepoInv
<1>1. PlatformInit => I
  BY RepoStart DEF PlatformInit
<1>2. I /\ [PlatformNext]_platform => I'
  BY RepoPart, RepoStep
<1>3. I => RepoIsSound
  BY DEF RepoInv, RepoIsSound
<1> QED
  BY <1>1, <1>2, <1>3, PTL DEF PlatformSpec

-----------------------------------------------------------------------------
(* Login sessions (LoginSessions) *)

LoginTask == [at : {"idle", "arrived", "login", "password", "clear"},
              browser : Browsers \cup {None}, token : Tokens \cup {None},
              actor : Users \cup {None}, user : Users \cup {None},
              read : Account \cup {None}, password : Nat]

LoginsShape ==
    /\ accounts \in [Users -> Account \cup {None}]
    /\ logins \in [Tokens -> Login \cup {None}]
    /\ cookies \in [Browsers -> Tokens \cup {None}]
    /\ doing \in [Calls -> LoginTask]
    /\ owners \subseteq Users \cup Browsers
    /\ set \in Nat
\* What was read of an account, or begun under it, is of an earlier version, or of
\* this one and then with its password.
InStep(account, version, password) ==
    /\ version <= account.version
    /\ version = account.version => password = account.password
SessionFits(s) ==
    /\ accounts[s.user] # None /\ s.password > 0
    /\ s.user \notin crossed => InStep(accounts[s.user], s.version, s.password)
\* What a request has read and is given fits what it does.
RequestFits(d) ==
    /\ d.at \in {"arrived", "login"} => d.browser # None
    /\ d.at \in {"login", "password", "clear"} => d.user # None
    /\ d.at \in {"password", "clear"} => d.read # None
    /\ d.at \in {"login", "password"} => d.password > 0
    /\ d.actor # None => accounts[d.actor] # None
ReadingFits(d) ==
    d.read # None =>
      /\ d.user # None /\ accounts[d.user] # None
      /\ d.user \notin crossed => InStep(accounts[d.user], d.read.version, d.read.password)
      /\ d.at = "login" /\ d.read.password > 0 => d.password = d.read.password
\* The session a request was recognised by is still that of its user, and of the
\* version of the account.
TokenOf(d, user) ==
    /\ d.token # None
    /\ logins[d.token] # None =>
         /\ logins[d.token].user = user
         /\ user \notin crossed => logins[d.token].version = accounts[user].version
TokenFits(d) ==
    /\ d.at = "arrived" /\ d.actor # None => TokenOf(d, d.actor)
    /\ d.at = "password" => TokenOf(d, d.user)
CallFits(d) == RequestFits(d) /\ ReadingFits(d) /\ TokenFits(d)
SessionsFit == \A t \in Tokens : logins[t] # None => SessionFits(logins[t])
CallsFit == \A r \in Calls : CallFits(doing[r])
LoginsInv == LoginsShape /\ SessionsFit /\ CallsFit /\ ChatsFollowLogin

\* Nobody is logged in to begin with.
LEMMA LoginsStart == LoginsInit => LoginsInv
<1> SUFFICES ASSUME LoginsInit PROVE LoginsInv
  OBVIOUS
<1>1. Nothing \in LoginTask /\ CallFits(Nothing)
  BY DEF Nothing, LoginTask, CallFits, RequestFits, ReadingFits, TokenFits
<1>2. LoginsShape
  BY <1>1 DEF LoginsInit, LoginsShape
<1>3. ChatsFollowLogin
  BY DEF LoginsInit, ChatsFollowLogin, Resolves
<1> QED
  BY <1>1, <1>2, <1>3 DEF LoginsInit, LoginsInv, SessionsFit, CallsFit

\* The invariant contains that a session is as good as the password behind it.
LEMMA SessionsOfPassword == LoginsInv => SessionIsOfPassword
BY DEF LoginsInv, SessionsFit, SessionIsOfPassword, SessionFits, InStep, Resolves

\* A step that gives one request something to do that fits leaves the rest.
LEMMA TaskStep ==
    ASSUME LoginsInv, NEW r \in Calls, NEW new \in LoginTask, CallFits(new),
           doing' = [doing EXCEPT ![r] = new], UNCHANGED <<accounts, logins, cookies, crossed>>
    PROVE  doing' \in [Calls -> LoginTask] /\ SessionsFit' /\ CallsFit'
<1>1. SessionsFit /\ CallsFit /\ doing \in [Calls -> LoginTask]
  BY DEF LoginsInv, LoginsShape
<1>2. SessionsFit'
  BY <1>1 DEF SessionsFit, SessionFits, InStep
<1>3. CallsFit'
  <2> SUFFICES ASSUME NEW q \in Calls PROVE CallFits(doing[q])'
    BY DEF CallsFit
  <2>1. doing'[q] = IF q = r THEN new ELSE doing[q]
    BY <1>1
  <2>2. CallFits(IF q = r THEN new ELSE doing[q])
    BY <1>1 DEF CallsFit
  <2> QED
    BY <2>1, <2>2 DEF CallFits, RequestFits, ReadingFits, TokenFits, TokenOf, InStep
<1> QED
  BY <1>1, <1>2, <1>3

\* A request knows the user its cookie resolved to when it came in.
LEMMA ArriveStep ==
    ASSUME LoginsInv, NEW r \in Calls, NEW b \in Browsers, Arrive(r, b)
    PROVE  LoginsInv'
<1> USE LoginsAssumption
<1> DEFINE d == [Nothing EXCEPT !.at = "arrived", !.browser = b, !.token = cookies[b],
                                !.actor = Actor(cookies[b])]
<1>1. LoginsShape
  BY DEF LoginsInv
<1>2. Actor(cookies[b]) \in Users \cup {None}
  BY <1>1 DEF LoginsShape, Actor, Resolves, Login
<1>3. /\ d \in LoginTask
      /\ d.at = "arrived" /\ d.browser = b /\ d.token = cookies[b]
      /\ d.actor = Actor(cookies[b]) /\ d.user = None /\ d.read = None
  BY <1>1, <1>2 DEF LoginTask, Nothing, LoginsShape
<1>5. doing' = [doing EXCEPT ![r] = d]
  BY DEF Arrive
<1> HIDE DEF d
<1>4. CallFits(d)
  <2>1. ASSUME Actor(cookies[b]) # None
        PROVE  Resolves(cookies[b]) /\ Actor(cookies[b]) = logins[cookies[b]].user
    BY <2>1 DEF Actor
  <2>2. ASSUME Resolves(cookies[b])
        PROVE  /\ cookies[b] \in Tokens /\ SessionFits(logins[cookies[b]])
               /\ logins[cookies[b]].version = accounts[logins[cookies[b]].user].version
    BY <1>1, <2>2 DEF LoginsInv, SessionsFit, LoginsShape, Resolves
  <2>3. RequestFits(d)
    <3>1. d.actor # None => accounts[d.actor] # None
      BY <1>3, <2>1, <2>2 DEF SessionFits
    <3>2. b # None => d.browser # None
      BY <1>3
    <3> QED
      BY <1>3, <3>1, <3>2 DEF RequestFits
  <2>4. ReadingFits(d)
    BY <1>3 DEF ReadingFits
  <2>5. TokenFits(d)
    BY <1>3, <2>1, <2>2 DEF TokenFits, TokenOf
  <2> QED
    BY <2>3, <2>4, <2>5 DEF CallFits
<1>6. UNCHANGED <<accounts, logins, cookies, crossed>>
  BY DEF Arrive
<1>7. LoginsShape'
  BY <1>1, <1>3, <1>4, <1>5, <1>6, TaskStep DEF LoginsShape, Arrive
<1>8. ChatsFollowLogin'
  BY DEF LoginsInv, ChatsFollowLogin, Arrive, Resolves
<1> QED
  BY <1>3, <1>4, <1>5, <1>6, <1>7, <1>8, TaskStep DEF LoginsInv

\* What a request reads fits, whatever it is about to do.
LEMMA ReadsStep ==
    ASSUME LoginsInv, NEW r \in Calls, NEW user \in Users, NEW at \in {"login", "password", "clear"},
           NEW password \in Nat, Reads(r, at, user, password),
           at = "login" => doing[r].at = "arrived" /\ password > 0,
           at = "login" /\ accounts[user] # None /\ accounts[user].password > 0
             => password = accounts[user].password,
           at = "password" => doing[r].at = "arrived" /\ doing[r].actor = user /\ password > 0,
           at = "clear" => accounts[user] # None,
           UNCHANGED <<accounts, logins, cookies, owners, crossed, strays>>, set' \in Nat
    PROVE  LoginsInv'
<1> USE LoginsAssumption
<1> DEFINE d == [doing[r] EXCEPT !.at = at, !.actor = None, !.user = user,
                                 !.read = accounts[user], !.password = password]
<1>1. LoginsShape /\ CallFits(doing[r]) /\ doing[r] \in LoginTask
  BY DEF LoginsInv, LoginsShape, CallsFit
<1>2. /\ d \in LoginTask
      /\ d.at = at /\ d.actor = None /\ d.user = user /\ d.read = accounts[user]
      /\ d.password = password /\ d.browser = doing[r].browser /\ d.token = doing[r].token
  BY <1>1 DEF LoginTask, LoginsShape
<1>3. doing' = [doing EXCEPT ![r] = d]
  BY DEF Reads
<1> HIDE DEF d
<1>4. at = "password" => accounts[user] # None /\ TokenOf(d, user)
  BY <1>1, <1>2 DEF CallFits, RequestFits, TokenFits, TokenOf
<1>5. RequestFits(d)
  BY <1>1, <1>2, <1>4 DEF CallFits, RequestFits
<1>6. ReadingFits(d)
  <2>1. accounts[user] # None => accounts[user] \in Account
    BY <1>1 DEF LoginsShape
  <2> QED
    BY <1>2, <2>1 DEF ReadingFits, InStep, Account
<1>7. TokenFits(d)
  BY <1>2, <1>4 DEF TokenFits
<1>8. CallFits(d)
  BY <1>5, <1>6, <1>7 DEF CallFits
<1>9. LoginsShape'
  BY <1>1, <1>2, <1>3, <1>8, TaskStep DEF LoginsShape
<1>10. ChatsFollowLogin'
  BY DEF LoginsInv, ChatsFollowLogin, Resolves
<1> QED
  BY <1>2, <1>3, <1>8, <1>9, <1>10, TaskStep DEF LoginsInv

\* A chat is begun in the name the request came in with.
LEMMA BeginChatStep ==
    ASSUME LoginsInv, NEW r \in Calls, StartChat(r)
    PROVE  LoginsInv'
<1> USE LoginsAssumption
<1> DEFINE d == doing[r]
<1>1. LoginsShape /\ d \in LoginTask /\ RequestFits(d) /\ d.at = "arrived"
  BY DEF LoginsInv, CallsFit, LoginsShape, CallFits, StartChat
<1>2. d.browser \in Browsers /\ d.actor \in Users \cup {None}
  BY <1>1 DEF LoginTask, RequestFits
<1>3. /\ owners' = owners \cup {IF d.actor = None THEN d.browser ELSE d.actor}
      /\ strays' = IF d.actor = None /\ Resolves(cookies[d.browser])
                   THEN strays \cup {d.browser} ELSE strays
      /\ doing' = [doing EXCEPT ![r] = Nothing]
      /\ UNCHANGED <<accounts, logins, cookies, set, crossed>>
  BY DEF StartChat, Responds
<1>4. Nothing \in LoginTask /\ CallFits(Nothing)
  BY DEF Nothing, LoginTask, CallFits, RequestFits, ReadingFits, TokenFits
<1>5. LoginsShape'
  BY <1>1, <1>2, <1>3, <1>4, TaskStep DEF LoginsShape
<1>6. ChatsFollowLogin'
  <2> SUFFICES ASSUME NEW b \in Browsers, Resolves(cookies[b])', b \in owners',
                      (logins[cookies[b]].user \notin crossed)'
               PROVE  b \in strays'
    BY DEF ChatsFollowLogin
  <2>1. Resolves(cookies[b]) /\ logins[cookies[b]].user \notin crossed
    BY <1>3 DEF Resolves
  <2>2. CASE b \in owners
    BY <1>3, <2>1, <2>2 DEF LoginsInv, ChatsFollowLogin
  <2>3. CASE b \notin owners
    BY <1>2, <1>3, <2>1, <2>3
  <2> QED
    BY <2>2, <2>3
<1> QED
  BY <1>3, <1>4, <1>5, <1>6, TaskStep DEF LoginsInv

\* What an account of a later version leaves in step.
LEMMA LaterInStep ==
    ASSUME NEW u \in Users, NEW a \in Account, accounts \in [Users -> Account \cup {None}],
           accounts' = [accounts EXCEPT ![u] = a],
           NEW v \in Users, NEW version \in Nat, NEW password \in Nat,
           v = u => accounts[u] # None /\ a.version > accounts[u].version,
           InStep(accounts[v], version, password)
    PROVE  /\ InStep(accounts'[v], version, password)
           /\ v = u => version < a.version
<1>1. v # u => accounts'[v] = accounts[v]
  OBVIOUS
<1>2. accounts'[u] = a
  OBVIOUS
<1>3. CASE v # u
  BY <1>1, <1>3 DEF InStep
<1>4. CASE v = u
  <2>1. accounts[u] \in Account
    BY <1>4
  <2> QED
    BY <1>2, <1>4, <2>1 DEF InStep, Account
<1> QED
  BY <1>3, <1>4

\* A request changes an account to the next version of what it has read of it, unless
\* the change crosses another.
LEMMA ChangeKeeps ==
    ASSUME LoginsInv, NEW d \in LoginTask, CallFits(d), NEW a \in Account,
           d.user # None, d.read # None,
           accounts' = [accounts EXCEPT ![d.user] = a],
           a.version = d.read.version + 1,
           Crosses(d, TRUE)
    PROVE  /\ accounts' \in [Users -> Account \cup {None}]
           /\ crossed \subseteq crossed'
           /\ d.user \notin crossed' => accounts[d.user] = d.read
           /\ \A v \in Users : accounts[v] # None => accounts'[v] # None
           /\ \A v \in Users, version \in Nat, password \in Nat :
                v \notin crossed' /\ InStep(accounts[v], version, password) =>
                  /\ InStep(accounts'[v], version, password)
                  /\ v = d.user => version < a.version
<1> USE LoginsAssumption
<1>1. d.user \in Users /\ d.read \in Account
  BY DEF LoginTask
<1>2. accounts \in [Users -> Account \cup {None}] /\ accounts[d.user] # None
  BY DEF LoginsInv, LoginsShape, CallFits, ReadingFits
<1>3. crossed \subseteq crossed' /\ (d.user \notin crossed' => accounts[d.user] = d.read)
  BY DEF Crosses
<1>4. ASSUME NEW v \in Users, NEW version \in Nat, NEW password \in Nat,
             v \notin crossed', InStep(accounts[v], version, password)
      PROVE  InStep(accounts'[v], version, password) /\ (v = d.user => version < a.version)
  <2>1. v = d.user => a.version > accounts[d.user].version
    BY <1>1, <1>3, <1>4 DEF Account
  <2> QED
    BY <1>1, <1>2, <1>4, <2>1, LaterInStep
<1> QED
  BY <1>1, <1>2, <1>3, <1>4

\* Requests fit on after a change of accounts and sessions that keeps what they read
\* in step and their sessions with their users.
LEMMA CallsFitOn ==
    ASSUME LoginsInv, NEW r \in Calls, doing' = [doing EXCEPT ![r] = Nothing],
           crossed \subseteq crossed',
           \A v \in Users : accounts[v] # None => accounts'[v] # None,
           \A q \in Calls \ {r} : doing[q].read # None /\ doing[q].user \notin crossed' =>
             (InStep(accounts[doing[q].user], doing[q].read.version, doing[q].read.password) =>
              InStep(accounts'[doing[q].user], doing[q].read.version, doing[q].read.password)),
           \A q \in Calls \ {r}, v \in Users : TokenOf(doing[q], v) => TokenOf(doing[q], v)'
    PROVE  doing' \in [Calls -> LoginTask] /\ CallsFit'
<1> USE LoginsAssumption
<1>1. doing \in [Calls -> LoginTask] /\ Nothing \in LoginTask
  BY DEF LoginsInv, LoginsShape, Nothing, LoginTask
<1>2. ASSUME NEW q \in Calls PROVE CallFits(doing[q])'
  <2>1. CASE q = r
    <3>1. doing'[q] = Nothing
      BY <1>1, <2>1
    <3>2. /\ Nothing.at = "idle" /\ Nothing.actor = None /\ Nothing.read = None
      BY DEF Nothing
    <3> QED
      BY <3>1, <3>2 DEF CallFits, RequestFits, ReadingFits, TokenFits
  <2>2. CASE q # r
    <3> DEFINE d == doing[q]
    <3>1. doing'[q] = d /\ d \in LoginTask /\ CallFits(d)
      BY <1>1, <2>2 DEF LoginsInv, CallsFit
    <3>2. /\ d.user \in Users \cup {None} /\ d.actor \in Users \cup {None}
          /\ d.read \in Account \cup {None}
      BY <3>1 DEF LoginTask
    <3>3. RequestFits(doing[q])'
      BY <3>1, <3>2 DEF CallFits, RequestFits
    <3>4. ReadingFits(doing[q])'
      <4>1. d.read # None /\ d.user \notin crossed' =>
              InStep(accounts'[d.user], d.read.version, d.read.password)
        BY <2>2, <3>1, <3>2 DEF CallFits, ReadingFits
      <4> QED
        BY <3>1, <3>2, <4>1 DEF CallFits, ReadingFits, InStep
    <3>5. TokenFits(doing[q])'
      <4>1. d.at = "arrived" /\ d.actor # None => TokenOf(d, d.actor)'
        BY <2>2, <3>1, <3>2 DEF CallFits, TokenFits
      <4>2. d.at = "password" => TokenOf(d, d.user)'
        BY <2>2, <3>1, <3>2 DEF CallFits, TokenFits, RequestFits
      <4> QED
        BY <3>1, <4>1, <4>2 DEF TokenFits, TokenOf
    <3> QED
      BY <3>3, <3>4, <3>5 DEF CallFits
  <2> QED
    BY <2>1, <2>2
<1> QED
  BY <1>1, <1>2 DEF CallsFit

\* What a login makes of the account keeps sessions and readings in step, and lets no
\* other session resolve.
LEMMA LoginChange ==
    ASSUME LoginsInv, NEW d \in LoginTask, CallFits(d), d.at = "login",
           NEW s, s = [user |-> d.user, alive |-> TRUE, password |-> d.password,
                       version |-> IF d.read # None /\ d.read.password # 0
                                   THEN d.read.version ELSE LoggedIn(d).version],
           ~(d.read = None /\ accounts[d.user] # None),
           accounts' = [accounts EXCEPT ![d.user] = LoggedIn(d)],
           Crosses(d, d.read # None /\ d.read.password = 0)
    PROVE  /\ accounts' \in [Users -> Account \cup {None}]
           /\ crossed \subseteq crossed'
           /\ \A v \in Users : accounts[v] # None => accounts'[v] # None
           /\ \A v \in Users, version \in Nat, password \in Nat :
                v \notin crossed' /\ accounts[v] # None /\ InStep(accounts[v], version, password) =>
                  /\ InStep(accounts'[v], version, password)
                  /\ version = accounts'[v].version => version = accounts[v].version
                  /\ version = accounts[v].version /\ password > 0
                       => version = accounts'[v].version
           /\ s \in Login /\ s.password > 0 /\ s.user = d.user /\ accounts'[d.user] # None
           /\ d.user \notin crossed' => InStep(accounts'[d.user], s.version, s.password)
<1> USE LoginsAssumption
<1>1. /\ d.user \in Users /\ d.read \in Account \cup {None} /\ d.password \in Nat
      /\ d.password > 0
  BY DEF LoginTask, CallFits, RequestFits
<1>2. accounts \in [Users -> Account \cup {None}]
  BY DEF LoginsInv, LoginsShape
<1>3. d.read # None =>
        /\ accounts[d.user] # None
        /\ d.user \notin crossed => InStep(accounts[d.user], d.read.version, d.read.password)
        /\ d.read.password > 0 => d.password = d.read.password
  BY DEF CallFits, ReadingFits
<1>4. s.user = d.user /\ s.password = d.password /\ s.alive = TRUE
  OBVIOUS
<1>5. CASE d.read = None
  <2> DEFINE a == [password |-> d.password, version |-> 1]
  <2>1. LoggedIn(d) = a /\ a \in Account /\ accounts[d.user] = None
    BY <1>1, <1>5 DEF LoggedIn, Account
  <2>2. accounts' = [accounts EXCEPT ![d.user] = a] /\ crossed' = crossed
    BY <1>5, <2>1 DEF Crosses
  <2>3. a.version = 1 /\ a.password = d.password
    OBVIOUS
  <2>4. s = [user |-> d.user, alive |-> TRUE, password |-> d.password, version |-> 1]
    BY <1>5, <2>1
  <2> HIDE DEF a
  <2>5. /\ accounts' \in [Users -> Account \cup {None}]
        /\ accounts'[d.user] = a /\ \A v \in Users \ {d.user} : accounts'[v] = accounts[v]
    BY <1>1, <1>2, <2>1, <2>2
  <2>6. s \in Login
    BY <1>1, <2>4 DEF Login
  <2>7. InStep(accounts'[d.user], s.version, s.password)
    BY <2>3, <2>4, <2>5 DEF InStep
  <2>8. ASSUME NEW v \in Users, accounts[v] # None PROVE accounts'[v] = accounts[v]
    BY <2>1, <2>5, <2>8
  <2>9. a # None
    BY <2>1
  <2> QED
    BY <1>1, <1>4, <2>1, <2>2, <2>5, <2>6, <2>7, <2>8, <2>9 DEF InStep
<1>6. CASE d.read # None /\ d.read.password = 0
  <2> DEFINE a == WithPassword(d)
  <2>1. LoggedIn(d) = a /\ a = [password |-> d.password, version |-> d.read.version + 1]
    BY <1>6 DEF LoggedIn, WithPassword
  <2>2. /\ a \in Account /\ a.version = d.read.version + 1 /\ a.password = d.password
        /\ d.read \in Account
    BY <1>1, <1>6, <2>1 DEF Account
  <2>3. accounts' = [accounts EXCEPT ![d.user] = a] /\ Crosses(d, TRUE)
    BY <1>6, <2>1
  <2>4. s = [user |-> d.user, alive |-> TRUE, password |-> d.password, version |-> a.version]
    BY <1>6, <2>1
  <2> HIDE DEF a
  <2>5. /\ accounts' \in [Users -> Account \cup {None}]
        /\ crossed \subseteq crossed'
        /\ d.user \notin crossed' => accounts[d.user] = d.read
        /\ \A v \in Users : accounts[v] # None => accounts'[v] # None
        /\ \A v \in Users, version \in Nat, password \in Nat :
             v \notin crossed' /\ InStep(accounts[v], version, password) =>
               /\ InStep(accounts'[v], version, password)
               /\ v = d.user => version < a.version
    BY <1>1, <1>6, <2>2, <2>3, ChangeKeeps
  <2>6. accounts'[d.user] = a /\ \A v \in Users \ {d.user} : accounts'[v] = accounts[v]
    BY <1>1, <1>2, <2>3
  <2>7. s \in Login
    BY <1>1, <2>2, <2>4 DEF Login, Account
  <2>8. InStep(accounts'[d.user], s.version, s.password)
    BY <2>2, <2>4, <2>6 DEF InStep, Account
  <2>9. ASSUME NEW v \in Users, NEW version \in Nat, NEW password \in Nat,
               v \notin crossed', accounts[v] # None, InStep(accounts[v], version, password)
        PROVE  /\ InStep(accounts'[v], version, password)
               /\ version = accounts'[v].version => version = accounts[v].version
               /\ version = accounts[v].version /\ password > 0
                    => version = accounts'[v].version
    <3>1. InStep(accounts'[v], version, password) /\ (v = d.user => version < a.version)
      BY <2>5, <2>9
    <3>2. CASE v # d.user
      BY <2>6, <3>1, <3>2
    <3>3. CASE v = d.user
      <4>1. accounts[v].password = 0
        BY <1>6, <2>5, <2>9, <3>3
      <4>2. version # accounts'[v].version
        BY <2>2, <2>6, <3>1, <3>3 DEF Account
      <4>3. ~(version = accounts[v].version /\ password > 0)
        BY <2>9, <4>1 DEF InStep
      <4> QED
        BY <3>1, <4>2, <4>3
    <3> QED
      BY <3>2, <3>3
  <2>10. a # None
    BY <2>2
  <2> QED
    BY <1>1, <1>4, <2>5, <2>6, <2>7, <2>8, <2>9, <2>10
<1>7. CASE d.read # None /\ d.read.password # 0
  <2>1. LoggedIn(d) = accounts[d.user] /\ d.read \in Account
    BY <1>1, <1>7 DEF LoggedIn
  <2>2. accounts' = accounts /\ crossed' = crossed
    BY <1>1, <1>2, <1>7, <2>1 DEF Crosses
  <2>3. s.version = d.read.version /\ d.read.version \in Nat \ {0} /\ d.read.password > 0
    BY <1>7, <2>1 DEF Account
  <2>4. s \in Login
    <3>1. s = [user |-> d.user, alive |-> TRUE, password |-> d.password,
               version |-> d.read.version]
      BY <1>7
    <3> QED
      BY <1>1, <2>3, <3>1 DEF Login
  <2>5. d.user \notin crossed' => InStep(accounts'[d.user], s.version, s.password)
    BY <1>3, <1>4, <1>7, <2>2, <2>3 DEF InStep
  <2> QED
    BY <1>1, <1>2, <1>3, <1>4, <1>7, <2>2, <2>4, <2>5 DEF InStep
<1> QED
  BY <1>5, <1>6, <1>7

\* A login that commits gives the chats of the browser to its user.
LEMMA CommitLoginStep ==
    ASSUME LoginsInv, NEW r \in Calls, CommitLogin(r)
    PROVE  LoginsInv'
<1> USE LoginsAssumption
<1> DEFINE d == doing[r]
<1>1. /\ LoginsShape /\ SessionsFit /\ CallsFit /\ ChatsFollowLogin
      /\ d \in LoginTask /\ CallFits(d) /\ d.at = "login"
      /\ doing' = [doing EXCEPT ![r] = Nothing] /\ set' = set
  BY DEF LoginsInv, LoginsShape, CallsFit, CommitLogin, Responds
<1>2. /\ d.user \in Users /\ d.browser \in Browsers
  BY <1>1 DEF LoginTask, CallFits, RequestFits
<1>3. CASE UNCHANGED <<accounts, owners, logins, cookies, crossed, strays>>
  <2>1. Nothing \in LoginTask /\ CallFits(Nothing)
    BY DEF Nothing, LoginTask, CallFits, RequestFits, ReadingFits, TokenFits
  <2>2. doing' \in [Calls -> LoginTask] /\ SessionsFit' /\ CallsFit'
    BY <1>1, <1>3, <2>1, TaskStep
  <2> QED
    BY <1>1, <1>3, <2>2 DEF LoginsInv, LoginsShape, ChatsFollowLogin, Resolves
<1>4. ASSUME NEW t \in Tokens, logins[t] = None, \A b \in Browsers : cookies[b] # t,
             \A q \in Calls : doing[q].token # t,
             ~(d.read = None /\ accounts[d.user] # None),
             accounts' = [accounts EXCEPT ![d.user] = LoggedIn(d)],
             owners' = Moved(d),
             logins' = [logins EXCEPT ![t] =
                   [user |-> d.user, alive |-> TRUE, password |-> d.password,
                    version |-> IF d.read # None /\ d.read.password # 0
                                THEN d.read.version ELSE LoggedIn(d).version]],
             cookies' = [cookies EXCEPT ![d.browser] = t],
             Crosses(d, d.read # None /\ d.read.password = 0),
             strays' = strays \ {d.browser}
      PROVE  LoginsInv'
  <2> DEFINE s == [user |-> d.user, alive |-> TRUE, password |-> d.password,
                   version |-> IF d.read # None /\ d.read.password # 0
                               THEN d.read.version ELSE LoggedIn(d).version]
  <2>1. /\ accounts' \in [Users -> Account \cup {None}]
        /\ crossed \subseteq crossed'
        /\ \A v \in Users : accounts[v] # None => accounts'[v] # None
        /\ \A v \in Users, version \in Nat, password \in Nat :
             v \notin crossed' /\ accounts[v] # None /\ InStep(accounts[v], version, password) =>
               /\ InStep(accounts'[v], version, password)
               /\ version = accounts'[v].version => version = accounts[v].version
               /\ version = accounts[v].version /\ password > 0
                    => version = accounts'[v].version
        /\ s \in Login /\ s.password > 0 /\ s.user = d.user /\ accounts'[d.user] # None
        /\ d.user \notin crossed' => InStep(accounts'[d.user], s.version, s.password)
    BY <1>1, <1>4, LoginChange
  <2>2. logins' = [logins EXCEPT ![t] = s]
    BY <1>4
  <2> HIDE DEF s
  <2>3. /\ logins' \in [Tokens -> Login \cup {None}]
        /\ logins'[t] = s /\ \A k \in Tokens \ {t} : logins'[k] = logins[k]
    BY <1>1, <2>1, <2>2 DEF LoginsShape
  <2>4. \A k \in Tokens : logins[k] # None =>
          /\ k # t /\ SessionFits(logins[k]) /\ logins[k] \in Login /\ logins[k].user \in Users
          /\ logins[k].version \in Nat /\ logins[k].password \in Nat
    BY <1>1, <1>4 DEF SessionsFit, LoginsShape, Login
  <2>5. SessionsFit'
    <3> SUFFICES ASSUME NEW k \in Tokens, logins'[k] # None PROVE SessionFits(logins[k])'
      BY DEF SessionsFit
    <3>1. CASE k = t
      BY <2>1, <2>3, <3>1 DEF SessionFits, InStep
    <3>2. CASE k # t
      <4>1. logins'[k] = logins[k] /\ logins[k] # None
        BY <2>3, <3>2
      <4> QED
        BY <2>1, <2>4, <4>1 DEF SessionFits, InStep
    <3> QED
      BY <3>1, <3>2
  <2>6. ASSUME NEW q \in Calls \ {r}, doing[q].read # None, doing[q].user \notin crossed',
               InStep(accounts[doing[q].user], doing[q].read.version, doing[q].read.password)
        PROVE  InStep(accounts'[doing[q].user], doing[q].read.version, doing[q].read.password)
    <3> DEFINE e == doing[q]
    <3>1. doing'[q] = e /\ e \in LoginTask /\ CallFits(e)
      BY <1>1 DEF LoginsShape, CallsFit
    <3>2. e.user \in Users /\ accounts[e.user] # None /\ e.read \in Account
      BY <2>6, <3>1 DEF LoginTask, CallFits, ReadingFits
    <3>3. e.read.version \in Nat /\ e.read.password \in Nat
      BY <3>2 DEF Account
    <3>4. InStep(accounts'[e.user], e.read.version, e.read.password)
      BY <2>1, <2>6, <3>2, <3>3
    <3> QED
      BY <3>1, <3>4 DEF InStep
  <2>7. ASSUME NEW q \in Calls \ {r}, NEW v \in Users, TokenOf(doing[q], v)
        PROVE  TokenOf(doing[q], v)'
    <3>1. doing'[q] = doing[q] /\ doing[q].token \in Tokens /\ doing[q].token # t
      BY <1>1, <1>4, <2>7 DEF LoginsShape, LoginTask, TokenOf
    <3>2. logins'[doing[q].token] = logins[doing[q].token]
      BY <2>3, <3>1
    <3> DEFINE l == logins[doing[q].token]
    <3>3. l # None => /\ l.user = v /\ (v \notin crossed => l.version = accounts[v].version)
                      /\ SessionFits(l) /\ l.version \in Nat /\ l.password \in Nat
      BY <2>4, <2>7, <3>1 DEF TokenOf
    <3>4. l # None /\ v \notin crossed' => l.version = accounts'[v].version
      BY <2>1, <3>3 DEF SessionFits
    <3> QED
      BY <3>1, <3>2, <3>3, <3>4 DEF TokenOf
  <2>8. doing' \in [Calls -> LoginTask] /\ CallsFit'
    BY <1>1, <2>1, <2>6, <2>7, CallsFitOn
  <2>9. LoginsShape'
    <3>1. owners' \subseteq Users \cup Browsers
      BY <1>1, <1>2, <1>4 DEF LoginsShape, Moved
    <3>2. cookies' \in [Browsers -> Tokens \cup {None}]
      BY <1>1, <1>2, <1>4 DEF LoginsShape
    <3> QED
      BY <1>1, <2>1, <2>3, <2>8, <3>1, <3>2 DEF LoginsShape
  <2>10. ChatsFollowLogin'
    <3> SUFFICES ASSUME NEW b \in Browsers, Resolves(cookies[b])', b \in owners',
                        (logins[cookies[b]].user \notin crossed)'
                 PROVE  b \in strays'
      BY DEF ChatsFollowLogin
    <3>1. b # d.browser /\ b \in owners
      BY <1>2, <1>4 DEF Moved
    <3>2. cookies'[b] = cookies[b] /\ cookies[b] \in Tokens /\ cookies[b] # t
      BY <1>1, <1>4, <3>1 DEF LoginsShape, Resolves
    <3> DEFINE l == logins[cookies[b]]
    <3>3. logins'[cookies'[b]] = l
      BY <2>3, <3>2
    <3>4. /\ l # None /\ l.alive /\ l.version = accounts'[l.user].version
          /\ l.user \notin crossed'
      BY <3>3 DEF Resolves
    <3>5. l.user \in Users /\ SessionFits(l) /\ l.version \in Nat /\ l.password \in Nat
      BY <2>4, <3>2, <3>4
    <3>6. l.user \notin crossed /\ l.version = accounts[l.user].version
      BY <2>1, <3>4, <3>5 DEF SessionFits
    <3>7. Resolves(cookies[b])
      BY <3>2, <3>4, <3>6 DEF Resolves
    <3> QED
      BY <1>1, <1>4, <3>1, <3>6, <3>7 DEF ChatsFollowLogin
  <2> QED
    BY <2>5, <2>8, <2>9, <2>10 DEF LoginsInv
<1> QED
  BY <1>3, <1>4 DEF CommitLogin

\* Changing a password keeps the session that does it, and no other of the user.
LEMMA CommitPasswordStep ==
    ASSUME LoginsInv, NEW r \in Calls, CommitPassword(r)
    PROVE  LoginsInv'
<1> USE LoginsAssumption
<1> DEFINE d == doing[r]
           a == WithPassword(d)
<1>1. /\ LoginsShape /\ SessionsFit /\ CallsFit /\ ChatsFollowLogin
      /\ d \in LoginTask /\ CallFits(d) /\ d.at = "password"
      /\ doing' = [doing EXCEPT ![r] = Nothing] /\ set' = set
      /\ cookies' = cookies /\ owners' = owners /\ strays' = strays
      /\ accounts' = [accounts EXCEPT ![d.user] = a] /\ logins' = Kept(d) /\ Crosses(d, TRUE)
  BY DEF LoginsInv, LoginsShape, CallsFit, CommitPassword, Responds
<1>2. /\ d.user \in Users /\ d.read \in Account /\ d.password > 0 /\ d.password \in Nat
      /\ TokenOf(d, d.user)
  BY <1>1 DEF LoginTask, CallFits, RequestFits, TokenFits
<1>3. a \in Account /\ a.version = d.read.version + 1 /\ a.password = d.password
  BY <1>2 DEF WithPassword, Account
<1>4. \A k \in Tokens :
        logins'[k] = IF k \notin OfUser(d.user) THEN logins[k]
                     ELSE IF k # d.token THEN None
                     ELSE [logins[k] EXCEPT !.version = a.version, !.password = d.password]
  BY <1>1 DEF Kept
<1> HIDE DEF a
<1>5. /\ accounts' \in [Users -> Account \cup {None}]
      /\ crossed \subseteq crossed'
      /\ d.user \notin crossed' => accounts[d.user] = d.read
      /\ \A v \in Users : accounts[v] # None => accounts'[v] # None
      /\ \A v \in Users, version \in Nat, password \in Nat :
           v \notin crossed' /\ InStep(accounts[v], version, password) =>
             /\ InStep(accounts'[v], version, password)
             /\ v = d.user => version < a.version
  BY <1>1, <1>2, <1>3, ChangeKeeps
<1>6. accounts'[d.user] = a /\ \A v \in Users \ {d.user} : accounts'[v] = accounts[v]
  BY <1>1, <1>2 DEF LoginsShape
<1>7. ASSUME NEW k \in Tokens, logins'[k] # None
      PROVE  /\ logins[k] # None /\ logins'[k] \in Login /\ logins'[k].user = logins[k].user
             /\ logins'[k].alive = logins[k].alive
             /\ logins[k].user # d.user => logins'[k] = logins[k]
             /\ logins[k].user = d.user => /\ k = d.token
                                           /\ logins'[k].version = a.version
                                           /\ logins'[k].password = d.password
  <2>1. logins[k] # None
    BY <1>4, <1>7 DEF OfUser
  <2>2. logins[k] \in Login
    BY <1>1, <2>1 DEF LoginsShape
  <2>3. k \in OfUser(d.user) <=> logins[k].user = d.user
    BY <2>1 DEF OfUser
  <2>4. CASE logins[k].user # d.user
    <3>1. logins'[k] = logins[k]
      BY <1>4, <2>3, <2>4
    <3> QED
      BY <2>1, <2>2, <2>4, <3>1
  <2>5. CASE logins[k].user = d.user
    <3>1. k = d.token
          /\ logins'[k] = [logins[k] EXCEPT !.version = a.version, !.password = d.password]
      BY <1>4, <1>7, <2>3, <2>5
    <3>2. a.version \in Nat \ {0}
      BY <1>3 DEF Account
    <3> QED
      BY <1>2, <2>1, <2>2, <2>5, <3>1, <3>2 DEF Login
  <2> QED
    BY <2>4, <2>5
<1>8. \A k \in Tokens : logins[k] # None =>
        /\ SessionFits(logins[k]) /\ logins[k].user \in Users
        /\ logins[k].version \in Nat /\ logins[k].password \in Nat
  BY <1>1 DEF SessionsFit, LoginsShape, Login
<1>9. SessionsFit'
  <2> SUFFICES ASSUME NEW k \in Tokens, logins'[k] # None PROVE SessionFits(logins[k])'
    BY DEF SessionsFit
  <2>1. CASE logins[k].user # d.user
    <3>1. logins'[k] = logins[k] /\ logins[k] # None
      BY <1>7, <2>1
    <3> QED
      BY <1>5, <1>8, <3>1 DEF SessionFits, InStep
  <2>2. CASE logins[k].user = d.user
    <3>1. /\ logins'[k].user = d.user /\ logins'[k].version = a.version
          /\ logins'[k].password = a.password /\ a.password > 0
      BY <1>2, <1>3, <1>7, <2>2
    <3>2. a # None /\ a.version \in Nat
      BY <1>3 DEF Account
    <3> QED
      BY <1>6, <3>1, <3>2 DEF SessionFits, InStep
  <2> QED
    BY <2>1, <2>2
<1>10. ASSUME NEW q \in Calls \ {r}, doing[q].read # None, doing[q].user \notin crossed',
              InStep(accounts[doing[q].user], doing[q].read.version, doing[q].read.password)
       PROVE  InStep(accounts'[doing[q].user], doing[q].read.version, doing[q].read.password)
  <2> DEFINE e == doing[q]
  <2>1. doing'[q] = e /\ e \in LoginTask /\ CallFits(e)
    BY <1>1 DEF LoginsShape, CallsFit
  <2>2. e.user \in Users /\ e.read \in Account
    BY <1>10, <2>1 DEF LoginTask, CallFits, ReadingFits
  <2>3. e.read.version \in Nat /\ e.read.password \in Nat
    BY <2>2 DEF Account
  <2>4. InStep(accounts'[e.user], e.read.version, e.read.password)
    BY <1>5, <1>10, <2>2, <2>3
  <2> QED
    BY <2>1, <2>4 DEF InStep
<1>11. ASSUME NEW q \in Calls \ {r}, NEW v \in Users, TokenOf(doing[q], v)
       PROVE  TokenOf(doing[q], v)'
  <2>1. doing'[q] = doing[q] /\ doing[q].token \in Tokens
    BY <1>1, <1>11 DEF LoginsShape, LoginTask, TokenOf
  <2> DEFINE k == doing[q].token
  <2>2. ASSUME logins'[k] # None
        PROVE  /\ logins'[k].user = v
               /\ v \notin crossed' => logins'[k].version = accounts'[v].version
    <3>1. logins[k] # None /\ logins[k].user = v
          /\ (v \notin crossed => logins[k].version = accounts[v].version)
      BY <1>7, <1>11, <2>1, <2>2 DEF TokenOf
    <3> QED
      BY <1>5, <1>6, <1>7, <2>1, <2>2, <3>1
  <2> QED
    BY <1>11, <2>1, <2>2 DEF TokenOf
<1>12. doing' \in [Calls -> LoginTask] /\ CallsFit'
  BY <1>1, <1>5, <1>10, <1>11, CallsFitOn
<1>13. LoginsShape'
  <2>1. \A k \in Tokens : logins'[k] \in Login \cup {None}
    BY <1>7
  <2>2. logins' \in [Tokens -> Login \cup {None}]
    BY <1>1, <2>1 DEF Kept
  <2> QED
    BY <1>1, <1>5, <1>12, <2>2 DEF LoginsShape
<1>14. ChatsFollowLogin'
  <2> SUFFICES ASSUME NEW b \in Browsers, Resolves(cookies[b])', b \in owners',
                      (logins[cookies[b]].user \notin crossed)'
               PROVE  b \in strays'
    BY DEF ChatsFollowLogin
  <2> DEFINE k == cookies[b]
  <2>1. /\ k \in Tokens /\ logins'[k] # None /\ logins'[k].alive
        /\ logins'[k].version = accounts'[logins'[k].user].version
        /\ logins'[k].user \notin crossed'
    BY <1>1 DEF LoginsShape, Resolves
  <2>2. /\ logins[k] # None /\ logins[k].user \notin crossed /\ logins[k].alive
    BY <1>5, <1>7, <2>1
  <2>3. logins[k].version = accounts[logins[k].user].version
    <3>1. CASE logins[k].user # d.user
      BY <1>6, <1>7, <1>8, <2>1, <2>2, <3>1
    <3>2. CASE logins[k].user = d.user
      BY <1>2, <1>7, <2>1, <2>2, <3>2 DEF TokenOf
    <3> QED
      BY <3>1, <3>2
  <2>4. Resolves(k)
    BY <2>1, <2>2, <2>3 DEF Resolves
  <2> QED
    BY <1>1, <2>2, <2>4 DEF ChatsFollowLogin
<1> QED
  BY <1>9, <1>12, <1>13, <1>14 DEF LoginsInv

\* Clearing a password ends all sessions of the user.
LEMMA CommitClearStep ==
    ASSUME LoginsInv, NEW r \in Calls, CommitClear(r)
    PROVE  LoginsInv'
<1> USE LoginsAssumption
<1> DEFINE d == doing[r]
           a == WithPassword(d)
<1>1. /\ LoginsShape /\ SessionsFit /\ CallsFit /\ ChatsFollowLogin
      /\ d \in LoginTask /\ CallFits(d) /\ d.at = "clear"
      /\ doing' = [doing EXCEPT ![r] = Nothing] /\ set' = set
      /\ cookies' = cookies /\ owners' = owners /\ strays' = strays
      /\ accounts' = [accounts EXCEPT ![d.user] = a] /\ logins' = Without(OfUser(d.user))
      /\ Crosses(d, TRUE)
  BY DEF LoginsInv, LoginsShape, CallsFit, CommitClear, Responds
<1>2. /\ d.user \in Users /\ d.read \in Account /\ d.password \in Nat
  BY <1>1 DEF LoginTask, CallFits, RequestFits
<1>3. a \in Account /\ a.version = d.read.version + 1
  BY <1>2 DEF WithPassword, Account
<1> HIDE DEF a
<1>4. \A k \in Tokens : logins'[k] # None => logins'[k] = logins[k] /\ logins[k].user # d.user
  BY <1>1 DEF Without, OfUser
<1>5. /\ accounts' \in [Users -> Account \cup {None}]
      /\ crossed \subseteq crossed'
      /\ \A v \in Users : accounts[v] # None => accounts'[v] # None
      /\ \A v \in Users, version \in Nat, password \in Nat :
           v \notin crossed' /\ InStep(accounts[v], version, password) =>
             InStep(accounts'[v], version, password)
  BY <1>1, <1>2, <1>3, ChangeKeeps
<1>6. \A v \in Users \ {d.user} : accounts'[v] = accounts[v]
  BY <1>1, <1>2 DEF LoginsShape
<1>7. \A k \in Tokens : logins'[k] # None =>
        /\ SessionFits(logins[k]) /\ accounts'[logins[k].user] = accounts[logins[k].user]
        /\ logins'[k] \in Login
  BY <1>1, <1>4, <1>6 DEF SessionsFit, LoginsShape, Login
<1>8. SessionsFit'
  BY <1>4, <1>5, <1>7 DEF SessionsFit, SessionFits
<1>9. ASSUME NEW q \in Calls \ {r}, doing[q].read # None, doing[q].user \notin crossed',
             InStep(accounts[doing[q].user], doing[q].read.version, doing[q].read.password)
      PROVE  InStep(accounts'[doing[q].user], doing[q].read.version, doing[q].read.password)
  <2> DEFINE e == doing[q]
  <2>1. e \in LoginTask /\ CallFits(e)
    BY <1>1 DEF LoginsShape, CallsFit
  <2>2. e.user \in Users /\ e.read \in Account
    BY <1>9, <2>1 DEF LoginTask, CallFits, ReadingFits
  <2>3. e.read.version \in Nat /\ e.read.password \in Nat
    BY <2>2 DEF Account
  <2> QED
    BY <1>5, <1>9, <2>2, <2>3
<1>10. ASSUME NEW q \in Calls \ {r}, NEW v \in Users, TokenOf(doing[q], v)
       PROVE  TokenOf(doing[q], v)'
  <2>1. doing'[q] = doing[q] /\ doing[q].token \in Tokens
    BY <1>1, <1>10 DEF LoginsShape, LoginTask, TokenOf
  <2> DEFINE k == doing[q].token
  <2>2. ASSUME logins'[k] # None
        PROVE  /\ logins'[k].user = v
               /\ v \notin crossed' => logins'[k].version = accounts'[v].version
    BY <1>4, <1>5, <1>6, <1>10, <2>1, <2>2 DEF TokenOf
  <2> QED
    BY <1>10, <2>1, <2>2 DEF TokenOf
<1>11. doing' \in [Calls -> LoginTask] /\ CallsFit'
  BY <1>1, <1>5, <1>9, <1>10, CallsFitOn
<1>12. LoginsShape'
  <2>1. \A k \in Tokens : logins'[k] \in Login \cup {None}
    BY <1>7
  <2>2. logins' \in [Tokens -> Login \cup {None}]
    BY <1>1, <2>1 DEF Without
  <2> QED
    BY <1>1, <1>5, <1>11, <2>2 DEF LoginsShape
<1>13. ChatsFollowLogin'
  <2> SUFFICES ASSUME NEW b \in Browsers, Resolves(cookies[b])', b \in owners',
                      (logins[cookies[b]].user \notin crossed)'
               PROVE  b \in strays'
    BY DEF ChatsFollowLogin
  <2>1. cookies[b] \in Tokens /\ Resolves(cookies[b])
        /\ logins'[cookies[b]] = logins[cookies[b]]
    BY <1>1, <1>4, <1>7 DEF LoginsShape, Resolves
  <2> QED
    BY <1>1, <1>5, <2>1 DEF ChatsFollowLogin
<1> QED
  BY <1>8, <1>11, <1>12, <1>13 DEF LoginsInv

\* Sessions that end, or are too old, take nothing along.
LEMMA EndStep ==
    ASSUME LoginsInv, (\E b \in Browsers : LogOut(b)) \/ (\E t \in Tokens : Expire(t))
    PROVE  LoginsInv'
<1> USE LoginsAssumption
<1>1. /\ LoginsShape /\ SessionsFit /\ CallsFit /\ ChatsFollowLogin
      /\ UNCHANGED <<accounts, owners, doing, set, crossed, strays>>
  BY DEF LoginsInv, LogOut, Expire
<1>2. \A k \in Tokens : logins'[k] # None =>
        /\ logins[k] # None /\ logins'[k] \in Login /\ logins'[k].user = logins[k].user
        /\ logins'[k].version = logins[k].version /\ logins'[k].password = logins[k].password
        /\ logins'[k].alive => logins[k].alive
  <2> SUFFICES ASSUME NEW k \in Tokens, logins'[k] # None
               PROVE  /\ logins[k] # None /\ logins'[k] \in Login
                      /\ logins'[k].user = logins[k].user
                      /\ logins'[k].version = logins[k].version
                      /\ logins'[k].password = logins[k].password
                      /\ logins'[k].alive => logins[k].alive
    OBVIOUS
  <2>1. CASE \E b \in Browsers : LogOut(b)
    BY <1>1, <2>1 DEF LogOut, LoginsShape
  <2>2. ASSUME NEW t \in Tokens, Expire(t)
        PROVE  logins[k] # None /\ (logins'[k] = logins[k]
                                    \/ logins'[k] = [logins[k] EXCEPT !.alive = FALSE])
    BY <1>1, <2>2 DEF Expire, LoginsShape
  <2>3. CASE \E t \in Tokens : Expire(t)
    <3>1. logins[k] # None /\ (logins'[k] = logins[k]
                               \/ logins'[k] = [logins[k] EXCEPT !.alive = FALSE])
      BY <2>2, <2>3
    <3>2. logins[k] \in Login
      BY <1>1, <3>1 DEF LoginsShape
    <3> QED
      BY <3>1, <3>2 DEF Login
  <2> QED
    BY <2>1, <2>3
<1>3. /\ logins' \in [Tokens -> Login \cup {None}]
      /\ cookies' \in [Browsers -> Tokens \cup {None}]
      /\ \A b \in Browsers : cookies'[b] # None => cookies'[b] = cookies[b]
  <2>1. DOMAIN logins' = Tokens /\ logins' = [k \in Tokens |-> logins'[k]]
    BY <1>1 DEF LogOut, Expire, LoginsShape
  <2>2. logins' \in [Tokens -> Login \cup {None}]
    BY <1>2, <2>1
  <2> QED
    BY <1>1, <2>2 DEF LogOut, Expire, LoginsShape
<1>4. LoginsShape'
  BY <1>1, <1>3 DEF LoginsShape
<1>5. SessionsFit'
  BY <1>1, <1>2 DEF SessionsFit, SessionFits
<1>6. CallsFit'
  <2> SUFFICES ASSUME NEW q \in Calls PROVE CallFits(doing[q])'
    BY DEF CallsFit
  <2>1. doing'[q] = doing[q] /\ doing[q] \in LoginTask /\ CallFits(doing[q])
    BY <1>1 DEF CallsFit, LoginsShape
  <2>2. RequestFits(doing[q])' /\ ReadingFits(doing[q])'
    BY <1>1, <2>1 DEF CallFits, RequestFits, ReadingFits
  <2>3. \A v : TokenOf(doing[q], v) => TokenOf(doing[q], v)'
    <3>1. doing[q].token # None => doing[q].token \in Tokens
      BY <2>1 DEF LoginTask
    <3> QED
      BY <1>1, <1>2, <2>1, <3>1 DEF TokenOf
  <2>4. TokenFits(doing[q])'
    BY <1>1, <2>1, <2>3 DEF CallFits, TokenFits
  <2> QED
    BY <2>2, <2>4 DEF CallFits
<1>7. ChatsFollowLogin'
  <2> SUFFICES ASSUME NEW b \in Browsers, Resolves(cookies[b])', b \in owners',
                      (logins[cookies[b]].user \notin crossed)'
               PROVE  b \in strays'
    BY DEF ChatsFollowLogin
  <2>1. cookies'[b] = cookies[b] /\ cookies[b] \in Tokens /\ logins'[cookies[b]] # None
    BY <1>1, <1>3 DEF LoginsShape, Resolves
  <2>2. Resolves(cookies[b]) /\ logins[cookies[b]].user \notin crossed
    BY <1>1, <1>2, <2>1 DEF Resolves
  <2> QED
    BY <1>1, <2>2 DEF ChatsFollowLogin
<1> QED
  BY <1>4, <1>5, <1>6, <1>7 DEF LoginsInv

\* Every step of a request, a clearing by the administrator and time keeps the
\* invariant of the logins.
LEMMA LoginsStep == LoginsInv /\ [LoginsNext]_loginVars => LoginsInv'
<1> SUFFICES ASSUME LoginsInv, [LoginsNext]_loginVars PROVE LoginsInv'
  OBVIOUS
<1> USE LoginsAssumption
<1>1. LoginsShape /\ CallsFit
  BY DEF LoginsInv
<1>2. CASE UNCHANGED loginVars
  BY <1>2 DEF LoginsInv, LoginsShape, SessionsFit, SessionFits, CallsFit, CallFits, RequestFits,
              ReadingFits, TokenFits, TokenOf, ChatsFollowLogin, Resolves, loginVars
<1>3. ASSUME NEW r \in Calls, NEW b \in Browsers, Arrive(r, b) PROVE LoginsInv'
  BY <1>3, ArriveStep
<1>4. ASSUME NEW r \in Calls, NEW u \in Users, AskClear(r, u) PROVE LoginsInv'
  <2>1. /\ Reads(r, "clear", u, 0) /\ accounts[u] # None /\ set' \in Nat
        /\ UNCHANGED <<accounts, logins, cookies, owners, crossed, strays>>
    BY <1>1, <1>4 DEF AskClear, LoginsShape
  <2> QED
    BY <2>1, ReadsStep
<1>5. ASSUME NEW r \in Calls, NEW u \in Users, NEW p \in 1..MaxPasswords, AskLogin(r, u, p)
      PROVE  LoginsInv'
  <2>1. /\ Reads(r, "login", u, p) /\ doing[r].at = "arrived" /\ p \in Nat /\ p > 0
        /\ set' \in Nat
        /\ UNCHANGED <<accounts, logins, cookies, owners, crossed, strays>>
    BY <1>1, <1>5 DEF AskLogin, LoginsShape
  <2>2. accounts[u] # None /\ accounts[u].password > 0 => p = accounts[u].password
    <3>1. accounts[u] # None => accounts[u].password \in Nat
      BY <1>1 DEF LoginsShape, Account
    <3> QED
      BY <1>5, <3>1 DEF AskLogin
  <2> QED
    BY <2>1, <2>2, ReadsStep
<1>6. ASSUME NEW r \in Calls, AskPassword(r) PROVE LoginsInv'
  <2>1. /\ Reads(r, "password", doing[r].actor, set + 1) /\ doing[r].at = "arrived"
        /\ doing[r].actor # None /\ set + 1 \in Nat /\ set + 1 > 0 /\ set' \in Nat
        /\ UNCHANGED <<accounts, logins, cookies, owners, crossed, strays>>
    BY <1>1, <1>6 DEF AskPassword, LoginsShape
  <2>2. doing[r].actor \in Users
    BY <1>1, <2>1 DEF LoginsShape, LoginTask
  <2> QED
    BY <2>1, <2>2, ReadsStep
<1> QED
  BY <1>2, <1>3, <1>4, <1>5, <1>6, BeginChatStep, CommitLoginStep, CommitPasswordStep, CommitClearStep,
     EndStep DEF LoginsNext

\* No change of the password ends the session that makes it.
LEMMA OwnSessionStep == LoginsInv /\ [LoginsNext]_loginVars => [OwnSessionStays]_loginVars
<1> SUFFICES ASSUME LoginsInv, LoginsNext, NEW r \in Calls, NEW t \in Tokens,
                    doing[r].at = "password", doing'[r] = Nothing, doing[r].token = t, Resolves(t)
             PROVE  Resolves(t)'
  BY DEF OwnSessionStays
<1> USE LoginsAssumption
<1> DEFINE d == doing[r]
<1>1. /\ LoginsShape /\ CallFits(d) /\ d \in LoginTask /\ Nothing.at = "idle"
  BY DEF LoginsInv, LoginsShape, CallsFit, Nothing
<1>2. CommitPassword(r)
  <2>1. ASSUME NEW q \in Calls, NEW e, doing' = [doing EXCEPT ![q] = e], doing[q].at # "password"
        PROVE  FALSE
    BY <1>1, <2>1 DEF LoginsShape
  <2>2. ASSUME doing' = doing PROVE FALSE
    BY <1>1, <2>2
  <2>3. ASSUME NEW q \in Calls, CommitPassword(q) PROVE q = r
    <3>1. doing' = [doing EXCEPT ![q] = Nothing]
      BY <2>3 DEF CommitPassword, Responds
    <3> QED
      BY <1>1, <3>1 DEF LoginsShape
  <2>4. ASSUME NEW q \in Calls, AskPassword(q) PROVE FALSE
    BY <2>1, <2>4 DEF AskPassword, Reads
  <2>5. ASSUME NEW q \in Calls, \E b \in Browsers : Arrive(q, b) PROVE FALSE
    BY <1>1, <2>1, <2>5 DEF Arrive
  <2>6. ASSUME NEW q \in Calls, NEW u \in Users, AskClear(q, u) PROVE FALSE
    BY <1>1, <2>1, <2>6 DEF AskClear, Reads
  <2>7. ASSUME NEW q \in Calls, NEW u \in Users, \E p \in 1..MaxPasswords : AskLogin(q, u, p)
        PROVE FALSE
    BY <2>1, <2>7 DEF AskLogin, Reads
  <2>8. ASSUME NEW q \in Calls, StartChat(q) \/ CommitLogin(q) \/ CommitClear(q) PROVE FALSE
    BY <2>1, <2>8 DEF StartChat, CommitLogin, CommitClear, Responds
  <2>9. ASSUME (\E b \in Browsers : LogOut(b)) \/ (\E k \in Tokens : Expire(k)) PROVE FALSE
    BY <2>2, <2>9 DEF LogOut, Expire
  <2> QED
    BY <2>3, <2>4, <2>5, <2>6, <2>7, <2>8, <2>9 DEF LoginsNext
<1>3. /\ logins[t] # None /\ logins[t] \in Login /\ logins[t].alive /\ logins[t].user = d.user
  BY <1>1 DEF LoginsShape, Resolves, CallFits, TokenFits, TokenOf
<1>4. d.user \in Users
  BY <1>3 DEF Login
<1>5. /\ logins'[t] = [logins[t] EXCEPT !.version = WithPassword(d).version,
                                       !.password = d.password]
      /\ accounts'[d.user] = WithPassword(d)
  BY <1>1, <1>2, <1>3, <1>4 DEF CommitPassword, Kept, OfUser, LoginsShape
<1>6. /\ logins'[t].alive /\ logins'[t].user = d.user
      /\ logins'[t].version = accounts'[d.user].version
  BY <1>3, <1>5 DEF Login
<1>7. logins'[t] # None
  <2>1. d.read \in Account /\ d.password \in Nat
    BY <1>1 DEF LoginTask, CallFits, RequestFits
  <2>2. WithPassword(d).version \in Nat \ {0}
    BY <2>1 DEF WithPassword, Account
  <2>3. logins'[t] \in Login
    BY <1>3, <1>5, <2>1, <2>2 DEF Login
  <2> QED
    BY <2>3
<1> QED
  BY <1>6, <1>7 DEF Resolves

\* A step of the platform is one of the logins, where they are the part, or none.
LEMMA LoginsPart ==
    ASSUME [PlatformNext]_platform
    PROVE  part' = part /\ (part = "logins" => [LoginsNext]_loginVars)
BY DEF PlatformNext, platform, loginVars

\* A session that resolves is of the present password, no chat stays behind when
\* its browser is logged in, and a change of the password keeps the session that
\* makes it, unless two changes were made from one reading (LoginIsSound;
\* identity.py, api/auth.py and api/users.py).
THEOREM LoginsStaySound == PlatformSpec => LoginIsSound
<1> DEFINE I == part = "logins" => LoginsInv
           S == part = "logins" => SessionIsOfPassword /\ ChatsFollowLogin
           A == part = "logins" => OwnSessionStays
<1>1. PlatformInit => I
  BY LoginsStart DEF PlatformInit
<1>2. I /\ [PlatformNext]_platform => I'
  BY LoginsPart, LoginsStep
<1>3. I => S
  BY SessionsOfPassword DEF LoginsInv
<1>4. I /\ [PlatformNext]_platform => [A]_loginVars
  BY LoginsPart, OwnSessionStep
<1> QED
  BY <1>1, <1>2, <1>3, <1>4, PTL DEF PlatformSpec, LoginIsSound

-----------------------------------------------------------------------------
(* The shape of every part (PlatformTypeOK) *)

\* Every password there is, is given or was read is one that has been set.
WithinBound(d) ==
    /\ d.password <= MaxPasswords
    /\ d.read # None => d.read.password <= MaxPasswords
PasswordsAreSet ==
    /\ set <= MaxPasswords
    /\ \A u \in Users : accounts[u] # None => accounts[u].password <= MaxPasswords
    /\ \A r \in Calls : WithinBound(doing[r])

LEMMA PasswordsStart == LoginsInit => PasswordsAreSet
BY LoginsAssumption DEF LoginsInit, PasswordsAreSet, WithinBound, Nothing

\* A request takes the place of another, accounts stay.
LEMMA BoundedTask ==
    ASSUME LoginsInv, PasswordsAreSet, NEW r \in Calls, NEW d, WithinBound(d),
           doing' = [doing EXCEPT ![r] = d], set' <= MaxPasswords, accounts' = accounts
    PROVE  PasswordsAreSet'
BY DEF PasswordsAreSet, LoginsInv, LoginsShape, WithinBound

\* A request ends, and has given one account its password.
LEMMA BoundedAccount ==
    ASSUME LoginsInv, PasswordsAreSet, NEW r \in Calls, NEW u \in Users, NEW a,
           Responds(r), set' = set, accounts' = [accounts EXCEPT ![u] = a],
           a # None => a.password <= MaxPasswords
    PROVE  PasswordsAreSet'
<1>1. WithinBound(Nothing)
  BY LoginsAssumption DEF WithinBound, Nothing
<1> QED
  BY <1>1 DEF PasswordsAreSet, LoginsInv, LoginsShape, WithinBound, Responds

\* What reads an account has what is in it.
LEMMA BoundedReading ==
    ASSUME LoginsInv, PasswordsAreSet, NEW r \in Calls, NEW u \in Users, NEW at, NEW p \in Nat,
           p <= MaxPasswords, Reads(r, at, u, p), set' <= MaxPasswords, accounts' = accounts
    PROVE  PasswordsAreSet'
<1> DEFINE d == [doing[r] EXCEPT !.at = at, !.actor = None, !.user = u,
                                 !.read = accounts[u], !.password = p]
<1>1. doing[r] \in LoginTask
  BY DEF LoginsInv, LoginsShape
<1>2. doing' = [doing EXCEPT ![r] = d]
  BY DEF Reads
<1>3. d.password = p /\ d.read = accounts[u]
  BY <1>1 DEF LoginTask
<1>4. accounts[u] # None => accounts[u].password <= MaxPasswords
  BY DEF PasswordsAreSet
<1> HIDE DEF d
<1>5. WithinBound(d)
  BY <1>3, <1>4 DEF WithinBound
<1> QED
  BY <1>2, <1>5, BoundedTask

\* A request gives an account the password it was given, which has been set, or 0.
LEMMA PasswordsStep ==
    ASSUME LoginsInv, PasswordsAreSet, [LoginsNext]_loginVars
    PROVE  PasswordsAreSet'
<1>0. /\ set \in Nat /\ set <= MaxPasswords /\ MaxPasswords \in Nat
      /\ accounts \in [Users -> Account \cup {None}]
      /\ \A r \in Calls : /\ doing[r] \in LoginTask /\ WithinBound(doing[r])
                          /\ CallFits(doing[r])
  BY LoginsAssumption DEF LoginsInv, LoginsShape, PasswordsAreSet, CallsFit
<1>1. ASSUME NEW r \in Calls, NEW b \in Browsers, Arrive(r, b) PROVE PasswordsAreSet'
  <2> DEFINE d == [Nothing EXCEPT !.at = "arrived", !.browser = b,
                                  !.token = cookies[b], !.actor = Actor(cookies[b])]
  <2>1. WithinBound(d)
    BY <1>0 DEF WithinBound, Nothing
  <2>2. doing' = [doing EXCEPT ![r] = d] /\ set' = set /\ accounts' = accounts
    BY <1>1 DEF Arrive
  <2> HIDE DEF d
  <2> QED
    BY <2>1, <2>2, <1>0, BoundedTask
<1>2. ASSUME NEW r \in Calls, NEW u \in Users, AskClear(r, u) PROVE PasswordsAreSet'
  <2>1. Reads(r, "clear", u, 0) /\ set' = set /\ accounts' = accounts
    BY <1>2 DEF AskClear
  <2> QED
    BY <2>1, <1>0, BoundedReading
<1>3. ASSUME NEW r \in Calls, NEW u \in Users, NEW p \in 1 .. MaxPasswords, AskLogin(r, u, p)
      PROVE  PasswordsAreSet'
  <2>1. Reads(r, "login", u, p) /\ accounts' = accounts
        /\ (set' = set \/ (set < MaxPasswords /\ set' = set + 1))
    BY <1>3 DEF AskLogin
  <2>2. set' <= MaxPasswords /\ p \in Nat /\ p <= MaxPasswords
    BY <2>1, <1>0
  <2> QED
    BY <2>1, <2>2, BoundedReading
<1>4. ASSUME NEW r \in Calls, StartChat(r) PROVE PasswordsAreSet'
  <2>1. doing' = [doing EXCEPT ![r] = Nothing] /\ set' = set /\ accounts' = accounts
    BY <1>4 DEF StartChat, Responds
  <2>2. WithinBound(Nothing)
    BY <1>0 DEF WithinBound, Nothing
  <2> QED
    BY <2>1, <2>2, <1>0, BoundedTask
<1>5. ASSUME NEW r \in Calls, CommitLogin(r) PROVE PasswordsAreSet'
  <2> DEFINE d == doing[r]
             a == LoggedIn(d)
  <2>1. d.user \in Users /\ WithinBound(d) /\ d.at = "login"
    BY <1>0, <1>5 DEF CommitLogin, CallFits, RequestFits, LoginTask
  <2>2. Responds(r) /\ set' = set
        /\ (accounts' = [accounts EXCEPT ![d.user] = a] \/ accounts' = accounts)
    BY <1>5 DEF CommitLogin
  <2>3. a # None => a.password <= MaxPasswords
    <3>1. accounts[d.user] # None => accounts[d.user].password <= MaxPasswords
      BY <2>1 DEF PasswordsAreSet
    <3>2. a = accounts[d.user] \/ a.password = d.password
      BY DEF LoggedIn, WithPassword
    <3> QED
      BY <3>1, <3>2, <2>1 DEF WithinBound
  <2>4. CASE accounts' = [accounts EXCEPT ![d.user] = a]
    <3> HIDE DEF d, a
    <3> QED
      BY <2>1, <2>2, <2>3, <2>4, BoundedAccount
  <2>5. CASE accounts' = accounts
    <3>1. WithinBound(Nothing)
      BY <1>0 DEF WithinBound, Nothing
    <3> QED
      BY <2>2, <2>5, <3>1, <1>0, BoundedTask DEF Responds
  <2> QED
    BY <2>2, <2>4, <2>5
<1>6. ASSUME NEW r \in Calls, AskPassword(r) PROVE PasswordsAreSet'
  <2>1. Reads(r, "password", doing[r].actor, set + 1) /\ doing[r].actor \in Users
        /\ set < MaxPasswords /\ set' = set + 1 /\ accounts' = accounts
    BY <1>0, <1>6 DEF AskPassword, LoginTask
  <2>2. set + 1 \in Nat /\ set + 1 <= MaxPasswords
    BY <1>0, <2>1
  <2> QED
    BY <2>1, <2>2, BoundedReading
<1>7. ASSUME NEW r \in Calls, CommitPassword(r) \/ CommitClear(r) PROVE PasswordsAreSet'
  <2>1. /\ accounts' = [accounts EXCEPT ![doing[r].user] = WithPassword(doing[r])]
        /\ Responds(r) /\ set' = set /\ doing[r].at \in {"password", "clear"}
    BY <1>7 DEF CommitPassword, CommitClear
  <2>2. doing[r].user \in Users /\ WithinBound(doing[r])
    BY <1>0, <2>1 DEF CallFits, RequestFits, LoginTask
  <2>3. WithPassword(doing[r]).password <= MaxPasswords
    BY <2>2 DEF WithPassword, WithinBound
  <2> QED
    BY <2>1, <2>2, <2>3, BoundedAccount
<1>8. CASE UNCHANGED <<accounts, doing, set>>
  BY <1>8 DEF PasswordsAreSet, WithinBound
<1> QED
  BY <1>1, <1>2, <1>3, <1>4, <1>5, <1>6, <1>7, <1>8
     DEF LoginsNext, loginVars, LogOut, Expire

\* A request for other models that is over holds nothing.
AtRest == \A r \in Switchers : switchers[r].at = "idle" => switchers[r] = NotSwitching
\* The invariant of the part that a behaviour takes.
ChatsKeep == /\ part = "chat" => ChatInv
             /\ part = "stream" => StreamInv
             /\ part = "reports" => ReportsInv
             /\ part = "files" => FilesInv
             /\ part = "drafts" => PrepInv
ServicesKeep == /\ part = "server" => ProcInv
                /\ part = "configs" => ConfigsInv
                /\ part = "opencode" => ServerInv
                /\ part = "tuning" => TuningInv
                /\ part = "models" => ModelsInv /\ AtRest
OthersKeep == /\ part = "repos" => RepoInv
              /\ part = "logins" => LoginsInv /\ PasswordsAreSet
PlatformInv == ChatsKeep /\ ServicesKeep /\ OthersKeep

\* Who asks for other models holds nothing when it is done, whatever the others do.
LEMMA RestStep ==
    ASSUME AtRest, ModelsShape, [ModelsNext]_modelVars
    PROVE  AtRest'
<1>0. switchers \in [Switchers -> Switches]
  BY DEF ModelsShape
<1>1. ASSUME NEW r \in Switchers, NEW s, switchers' = [switchers EXCEPT ![r] = s],
             s = NotSwitching \/ s.at # "idle"
      PROVE  AtRest'
  BY <1>0, <1>1 DEF AtRest
<1>2. ASSUME NEW r \in Switchers, NEW m \in Embeddings, NEW k \in Secrets \cup {None},
             AskSwitch(r, m, k)
      PROVE  AtRest'
  <2> DEFINE s == [at |-> "asked", model |-> m, read |-> None,
                   secret |-> IF k = None THEN Carried(m) ELSE k]
  <2>1. switchers' = [switchers EXCEPT ![r] = s] /\ s.at # "idle"
    BY <1>2 DEF AskSwitch
  <2> HIDE DEF s
  <2> QED
    BY <2>1, <1>1
<1>3. ASSUME NEW r \in Switchers, NotValid(r) \/ Relaunch(r) PROVE AtRest'
  BY <1>3, <1>1 DEF NotValid, Relaunch
<1>4. ASSUME NEW r \in Switchers, CommitSwitch(r) \/ Wipe(r) \/ CommitVision(r) \/ ReadRows(r)
      PROVE  AtRest'
  <2>1. switchers[r] \in Switches
    BY <1>0
  <2>2. ASSUME NEW at \in {"saved", "ready", "read"}, NEW taken,
               switchers' = [switchers EXCEPT ![r].at = at]
               \/ switchers' = [switchers EXCEPT ![r].at = at, ![r].read = taken]
        PROVE  AtRest'
    BY <1>0, <2>1, <2>2 DEF Switches, AtRest
  <2> QED
    BY <1>4, <2>2 DEF CommitSwitch, Wipe, CommitVision, ReadRows
<1>5. ASSUME KeepServing \/ ServerExits \/ MakeVectors \/ StartAgain \/ UNCHANGED modelVars
      PROVE  AtRest'
  BY <1>0, <1>5 DEF AtRest, KeepServing, ServerExits, MakeVectors, StartAgain, modelVars,
                  NotSwitching
<1> QED
  BY <1>2, <1>3, <1>4, <1>5 DEF ModelsNext

\* What each invariant says of the shape of its part is what its types say.
LEMMA StreamIsTyped == ASSUME StreamInv PROVE StreamTypeOK
BY DEF StreamInv, StreamShape, TurnLocals, StreamTypeOK

LEMMA ProcIsTyped == ASSUME ProcInv PROVE ProcTypeOK
BY DEF ProcInv, ProcShape, Listens, Processes, Managers, ProcTypeOK

LEMMA ConfigsAreTyped == ASSUME ConfigsInv PROVE ConfigsTypeOK
<1>1. ConfigsShape /\ (\A a \in Admins : work[a] \in Works) /\ None \notin ConfigRow
  BY ConfigsAssumption DEF ConfigsInv, ConfigsShape
<1> QED
  BY <1>1 DEF ConfigsShape, ConfigRows, Works, ConfigsTypeOK

LEMMA RepoIsTyped == ASSUME RepoInv PROVE RepoTypeOK
BY DEF RepoInv, RepoShape, RepoTypeOK

LEMMA ServerIsTyped == ASSUME ServerInv PROVE ServerTypeOK
BY DEF ServerInv, ServerShape, ServerTypeOK

LEMMA PrepIsTyped == ASSUME PrepInv PROVE PrepTypeOK
<1>1. PrepShape /\ OncePerId /\ CoversInTime /\ Len(answers) <= CacheLimit
  BY DEF PrepInv
<1>2. \A d \in Drafters : drafting[d] # None => drafting[d].key \in Keys
  BY <1>1 DEF PrepShape, DraftTask
<1>3. \A i \in DOMAIN answers : answers[i] \in PrepAnswers
  BY <1>1 DEF PrepShape
<1>4. \A i \in DOMAIN answers : PlaceOf(answers[i].key) = {i}
  BY <1>1 DEF OncePerId, PlaceOf
<1> QED
  BY <1>1, <1>2, <1>3, <1>4 DEF PrepShape, CoversInTime, PrepAnswers, PrepTypeOK

LEMMA TuningIsTyped == ASSUME TuningInv PROVE TuningTypeOK
<1>1. TuningShape
  BY DEF TuningInv
<1>2. \A i \in DOMAIN tuneRows : tuneRows[i] \in TuneRow
  BY <1>1 DEF TuningShape
<1>3. \A r \in Tuners : tuners[r] \in TunerState
  BY <1>1 DEF TuningShape
<1>4. \A r \in Tuners : tuners[r].changed \subseteq TuneKeys
  BY <1>3 DEF TunerState
<1> QED
  BY <1>1, <1>2, <1>4 DEF TuningShape, TuneRow, TuneValues, TuningTypeOK

LEMMA ModelsAreTyped ==
    ASSUME ModelsInv, AtRest
    PROVE  ModelsTypeOK
<1>1. ModelsShape
  BY DEF ModelsInv
<1>2. \A i \in DOMAIN chosen : chosen[i] \in ChosenRow
  BY <1>1 DEF ModelsShape
<1>3. \A c \in RowsThere : c.embedding \in DOMAIN chosen /\ c.vision <= vision
  BY <1>1 DEF ModelsShape, RowsThere
<1> QED
  BY <1>1, <1>2, <1>3 DEF ModelsShape, ChosenRow, AtRest, ModelsTypeOK

LEMMA LoginsAreTyped == ASSUME LoginsInv, PasswordsAreSet PROVE LoginsTypeOK
<1> USE LoginsAssumption
<1>1. LoginsShape /\ SessionsFit
  BY DEF LoginsInv
<1>2. \A u \in Users : accounts[u] # None => accounts[u] \in Account
  BY <1>1 DEF LoginsShape
<1>3. \A t \in Tokens : logins[t] # None => logins[t] \in Login
  BY <1>1 DEF LoginsShape
<1> QED
  BY <1>1, <1>2, <1>3 DEF LoginsShape, SessionsFit, SessionFits, PasswordsAreSet, Account, Login,
                          LoginsTypeOK

\* Whatever part a behaviour takes, that part keeps its shape, with what its types
\* say beyond sets: a request that is over holds nothing, rows do not outlive what
\* they belong to, caches and values stay within their limits (PlatformTypeOK; all
\* the modules of MCPlatform but the gateway, whose type invariant has a theorem of
\* its own).
THEOREM PlatformStaysTyped == PlatformSpec => []PlatformTypeOK
<1>1. PlatformInit => PlatformInv
  <2> SUFFICES ASSUME PlatformInit PROVE PlatformInv
    OBVIOUS
  <2>1. ChatsKeep
    BY ChatStart, StreamStart, ReportsStart, FilesStart, PrepStart DEF PlatformInit, ChatsKeep
  <2>2. ModelsInit => AtRest
    BY DEF ModelsInit, NotSwitching, AtRest
  <2>3. ServicesKeep
    BY <2>2, ProcStart, ConfigsStart, ServerStart, TuningStart, ModelsStart
       DEF PlatformInit, ServicesKeep
  <2>4. OthersKeep
    BY RepoStart, LoginsStart, PasswordsStart DEF PlatformInit, OthersKeep
  <2> QED
    BY <2>1, <2>3, <2>4 DEF PlatformInv
<1>2. PlatformInv /\ [PlatformNext]_platform => PlatformInv'
  <2> SUFFICES ASSUME PlatformInv, [PlatformNext]_platform PROVE PlatformInv'
    OBVIOUS
  <2>1. ChatsKeep'
    BY ChatPart, StreamPart, ReportsPart, FilesPart, DraftsPart,
       ChatStep, StreamStep, ReportsStep, FilesStep, PrepStep DEF PlatformInv, ChatsKeep
  <2>2. ModelsInv /\ AtRest /\ [ModelsNext]_modelVars => AtRest'
    BY RestStep DEF ModelsInv
  <2>3. ServicesKeep'
    BY <2>2, ServerPart, ConfigsPart, OpencodePart, TuningPart, ModelsPart,
       ProcStep, ConfigsStep, ServerStep, TuningStep, ModelsStep DEF PlatformInv, ServicesKeep
  <2>4. OthersKeep'
    BY RepoPart, LoginsPart, RepoStep, LoginsStep, PasswordsStep DEF PlatformInv, OthersKeep
  <2> QED
    BY <2>1, <2>3, <2>4 DEF PlatformInv
<1>3. PlatformInv => PlatformTypeOK
  <2> SUFFICES ASSUME PlatformInv PROVE PlatformTypeOK
    OBVIOUS
  <2>1. ChatInv => ChatTypeOK
    BY DEF ChatInv
  <2>2. ReportsInv => ReportsTypeOK
    BY DEF ReportsInv
  <2>3. FilesInv => FilesTypeOK
    BY DEF FilesInv
  <2> QED
    BY <2>1, <2>2, <2>3, ModelsAreTyped, StreamIsTyped, ProcIsTyped, ConfigsAreTyped, RepoIsTyped,
       LoginsAreTyped, ServerIsTyped, PrepIsTyped, TuningIsTyped
       DEF PlatformInv, ChatsKeep, ServicesKeep, OthersKeep, PlatformTypeOK
<1> QED
  BY <1>1, <1>2, <1>3, PTL DEF PlatformSpec
=============================================================================

------------------------------ MODULE RepoJobs ------------------------------
(***************************************************************************)
(* One repository of the pool: its row, the bare clone that jobs in the    *)
(* scheduler's threads make and renew (code_index/cloner.py), the          *)
(* administrators' requests (api/code_index.py), and the worktrees in which *)
(* a session searches and reads (code_index/worktree.py and cleanup.py).   *)
(* A commit is a location and the number of pushes to it; what a bare      *)
(* clone has is the commit of its HEAD, << >> while it has none.  Nothing  *)
(* keeps two jobs of one repository apart.                                 *)
(***************************************************************************)
EXTENDS Naturals, NoValue

CONSTANTS
    Locations,   \* URLs and local directories
    Pushes,      \* bound: pushes to a location
    JobIds,      \* bound: jobs at a time
    Readers      \* sessions, each with a worktree and one request

AllCommits == Locations \X (0..Pushes)
RepoRow == [location : Locations, status : {"registered", "cloning", "ready", "failed"}]

ASSUME RepoAssumption == Pushes \in Nat /\ None \notin RepoRow \cup AllCommits \cup {<< >>}

VARIABLES
    pushed,      \* location -> pushes so far
    repo,        \* the row, or None
    bare,        \* the commit of the bare clone, or None
    cloning,     \* the jobs: in memory only
    enqueue,     \* a request has committed and is about to add its job
    deletion,    \* how far it is: the row goes, then the files; an id is used once
    trees,       \* session -> its worktree, or None
    asks,        \* session -> its request
    symbols,     \* commit -> the commit whose symbols the cache has for it
    lone,        \* a job, a deletion, a request or the cleanup is alone at its work,
                 \* and no second job waits;
                 \* when not, nobody pushes nor searches,
                 \* and nothing is lost (a bound)
    lost         \* history: a job was lost to a restart or an unexpected error

repoVars == <<pushed, repo, bare, cloning, enqueue, deletion, trees, asks, symbols, lone, lost>>

Tip(location) == <<location, pushed[location]>>
NoJob == [at |-> "none", force |-> FALSE, from |-> None]
NoAsk == [at |-> "idle", commit |-> None, text |-> None]

\* A repository that is not registered yet.
RepoInit ==
    /\ pushed = [l \in Locations |-> 0]
    /\ repo = None /\ bare = None /\ cloning = [j \in JobIds |-> NoJob]
    /\ enqueue = FALSE /\ deletion = "none"
    /\ trees = [r \in Readers |-> None] /\ asks = [r \in Readers |-> NoAsk]
    /\ symbols = [c \in AllCommits |-> None]
    /\ lone \in BOOLEAN /\ lost = FALSE

-----------------------------------------------------------------------------
AtWork(j) == cloning[j].at \notin {"none", "queued"}
NobodyClones == \A j \in JobIds : ~AtWork(j)
\* A search runs git and its tool on the event loop, which does nothing else.
Searching == \E r \in Readers : asks[r].at \in {"prepared", "resolved"}
Served == ~Searching
Calm == lone => NobodyClones /\ deletion # "row"

AddJob(force) ==
    \E j \in JobIds :
        /\ cloning[j] = NoJob /\ (lone => cloning = [k \in JobIds |-> NoJob])
        /\ cloning' = [cloning EXCEPT ![j] = [NoJob EXCEPT !.at = "queued", !.force = force]]

RegisterRepo(location) ==
    /\ repo = None /\ deletion = "none"
    /\ repo' = [location |-> location, status |-> "registered"] /\ enqueue' = TRUE
    /\ UNCHANGED <<pushed, bare, cloning, deletion, trees, asks, symbols, lone, lost>>

\* The job of a registration or a change, added after the commit.
Enqueue ==
    /\ Served /\ enqueue /\ AddJob(FALSE) /\ enqueue' = FALSE
    /\ UNCHANGED <<pushed, repo, bare, deletion, trees, asks, symbols, lone, lost>>

\* update_repo with another location; a change of the name alone changes nothing here.
ChangeLocation(location) ==
    /\ Served /\ Calm /\ ~enqueue
    /\ repo # None /\ repo.location # location
    /\ repo' = [location |-> location, status |-> "registered"]
    /\ enqueue' = TRUE
    /\ UNCHANGED <<pushed, bare, cloning, deletion, trees, asks, symbols, lone, lost>>

RefreshRepo ==
    /\ Served /\ repo # None /\ AddJob(repo.status = "ready")
    /\ UNCHANGED <<pushed, repo, bare, enqueue, deletion, trees, asks, symbols, lone, lost>>

\* The hourly job passes by what is being cloned.
RefreshAll ==
    /\ repo # None /\ repo.status # "cloning" /\ AddJob(TRUE)
    /\ UNCHANGED <<pushed, repo, bare, enqueue, deletion, trees, asks, symbols, lone, lost>>

DeleteRepo ==
    /\ Served /\ Calm /\ repo # None
    /\ repo' = None /\ deletion' = "row"
    /\ UNCHANGED <<pushed, bare, cloning, enqueue, trees, asks, symbols, lone, lost>>
\* Mutant of RemoveFiles: the worktrees stay.
RemoveBare ==
    /\ Served /\ deletion = "row" /\ deletion' = "done"
    /\ bare' = None
    /\ UNCHANGED <<pushed, repo, cloning, enqueue, trees, asks, symbols, lone, lost>>
RemoveFiles ==
    /\ Served /\ deletion = "row" /\ deletion' = "done"
    /\ bare' = None /\ trees' = [r \in Readers |-> None]
    /\ UNCHANGED <<pushed, repo, cloning, enqueue, asks, symbols, lone, lost>>

-----------------------------------------------------------------------------
JobGoesOn(j, at) == cloning' = [cloning EXCEPT ![j].at = at]
JobLeaves == UNCHANGED <<pushed, enqueue, deletion, trees, asks, symbols, lone, lost>>

\* run_clone reads the row ...
LoadRow(j) ==
    /\ cloning[j].at = "queued"
    /\ lone => NobodyClones /\ ~Searching
    /\ cloning' = [cloning EXCEPT ![j] =
         IF repo = None \/ (repo.status = "ready" /\ ~cloning[j].force)
         THEN NoJob ELSE [@ EXCEPT !.at = "loaded", !.from = repo.location]]
    /\ UNCHANGED <<repo, bare>> /\ JobLeaves

\* Mutant of Statused: a row that is gone is written again.
StatusedAnyway(status) ==
    repo' = IF repo = None THEN [location |-> None, status |-> status]
                           ELSE [repo EXCEPT !.status = status]
\* _set_status, of the row if it is still there.
Statused(status) == repo' = IF repo = None THEN None ELSE [repo EXCEPT !.status = status]

MarkCloning(j) ==
    /\ cloning[j].at = "loaded" /\ Statused("cloning") /\ JobGoesOn(j, "marked")
    /\ bare' = bare /\ JobLeaves

\* _is_valid_bare_repo: a directory git began with is one.
LookAtBare(j) ==
    /\ cloning[j].at = "marked"
    /\ JobGoesOn(j, IF bare = None THEN "missing" ELSE "there")
    /\ UNCHANGED <<repo, bare>> /\ JobLeaves

\* Mutant of Fetched: the clone keeps the origin it was made from.
FetchedFromOrigin(j) == IF bare = << >> THEN Tip(cloning[j].from) ELSE Tip(bare[1])
\* _update_existing_bare_repo sets the origin first; a plain directory is committed.
Fetched(j) == Tip(cloning[j].from)

Fetch(j) ==
    /\ cloning[j].at = "there"
    /\ \/ bare # None /\ bare' = Fetched(j) /\ JobGoesOn(j, "done")
       \/ bare' = bare /\ JobGoesOn(j, "failed")
    /\ repo' = repo /\ JobLeaves

\* _exec_clone removes what is there meanwhile, ...
EmptyBare(j) ==
    /\ cloning[j].at = "missing" /\ bare' = None /\ JobGoesOn(j, "emptied")
    /\ repo' = repo /\ JobLeaves
\* ... git makes the directory, unless there is one again, ...
StartClone(j) ==
    /\ cloning[j].at = "emptied"
    /\ \/ bare = None /\ bare' = << >> /\ JobGoesOn(j, "started")
       \/ bare # None /\ bare' = bare /\ JobGoesOn(j, "failed")
    /\ repo' = repo /\ JobLeaves
\* ... and fills it; it removes it when it fails, not when a timeout kills it.
EndClone(j) ==
    /\ cloning[j].at = "started"
    /\ \/ bare # None /\ bare' = Tip(cloning[j].from) /\ JobGoesOn(j, "done")
       \/ bare' \in {None, bare} /\ JobGoesOn(j, "failed")
    /\ repo' = repo /\ JobLeaves

\* Mutant of Outcome: a failure is only raised.
OutcomeOfSuccess(j) == IF cloning[j].at = "done" THEN "ready" ELSE "cloning"
Outcome(j) == IF cloning[j].at = "done" THEN "ready" ELSE "failed"
FinishJob(j) ==
    /\ cloning[j].at \in {"done", "failed"}
    /\ Statused(Outcome(j)) /\ cloning' = [cloning EXCEPT ![j] = NoJob]
    /\ bare' = bare /\ JobLeaves

\* Only CloneError is recorded; a job may come too late to be run at all.
LoseJob(j) ==
    /\ lone /\ cloning[j] # NoJob
    /\ cloning' = [cloning EXCEPT ![j] = NoJob] /\ lost' = TRUE
    /\ UNCHANGED <<pushed, repo, bare, enqueue, deletion, trees, asks, symbols, lone>>

\* The process ends, at any moment, and starts again: no job is added for a row
\* that says registered or cloning.
RestartCodeAsk ==
    /\ lone
    /\ cloning' = [j \in JobIds |-> NoJob] /\ enqueue' = FALSE
    /\ deletion' = IF deletion = "row" THEN "broken off" ELSE deletion
    /\ asks' = [r \in Readers |-> NoAsk] /\ lost' = TRUE
    /\ UNCHANGED <<pushed, repo, bare, trees, symbols, lone>>

Push(location) ==
    /\ lone /\ pushed[location] < Pushes
    /\ pushed' = [pushed EXCEPT ![location] = @ + 1]
    /\ UNCHANGED <<repo, bare, cloning, enqueue, deletion, trees, asks, symbols, lone, lost>>

-----------------------------------------------------------------------------
AskLeaves == UNCHANGED <<pushed, repo, bare, cloning, enqueue, deletion, lone, lost>>

\* A tool or a search reads the row; only what is ready is searched.
AskCode(r) ==
    /\ lone /\ Served /\ asks[r] = NoAsk /\ repo # None /\ repo.status = "ready"
    /\ asks' = [asks EXCEPT ![r].at = "asked"]
    /\ UNCHANGED <<trees, symbols>> /\ AskLeaves

HasHead == bare # None /\ bare # << >>
\* Mutant of Prepared: a worktree that is there is taken as it is.
PreparedOnce(tree) == IF tree # None THEN tree ELSE bare
\* ensure_worktree: the worktree is made anew unless it has the commit.
Prepared(tree) == bare

\* A clone that is missing or has no HEAD is an error; the tool of the agent ends
\* when the worktree is there.
PrepareTree(r) ==
    /\ Served /\ asks[r].at = "asked"
    /\ lone => NobodyClones
    /\ IF HasHead
       THEN /\ trees' = [trees EXCEPT ![r] = Prepared(@)]
            /\ asks' = [asks EXCEPT ![r].at = "prepared"]
       ELSE /\ trees' = trees
            /\ asks' = [asks EXCEPT ![r] = NoAsk]
    /\ symbols' = symbols /\ AskLeaves
\* _ensure_worktree resolves the ref once more, for the answer.
ResolveCommit(r) ==
    /\ asks[r].at = "prepared"
    /\ asks' = [asks EXCEPT ![r] = IF HasHead THEN [@ EXCEPT !.at = "resolved", !.commit = bare]
                                   ELSE NoAsk]
    /\ UNCHANGED <<trees, symbols>> /\ AskLeaves

Answer(r, text) == asks' = [asks EXCEPT ![r].at = "answered", ![r].text = text]
\* code_grep and code_read; without the directory they fail.
Search(r) ==
    /\ asks[r].at = "resolved"
    /\ IF trees[r] # None THEN Answer(r, trees[r])
                          ELSE asks' = [asks EXCEPT ![r] = NoAsk]
    /\ UNCHANGED <<trees, symbols>> /\ AskLeaves
\* code_symbols: from the cache of that commit, else from the worktree into it.
FindSymbols(r) ==
    /\ asks[r].at = "resolved" /\ trees[r] # None
    /\ LET commit == asks[r].commit
           found  == IF symbols[commit] # None THEN symbols[commit] ELSE trees[r]
       IN Answer(r, found) /\ symbols' = [symbols EXCEPT ![commit] = found]
    /\ trees' = trees /\ AskLeaves
EndAsk(r) ==
    /\ asks[r].at \in {"prepared", "answered"}
    /\ asks' = [asks EXCEPT ![r] = NoAsk]
    /\ UNCHANGED <<trees, symbols>> /\ AskLeaves

-----------------------------------------------------------------------------
\* The cleanup job looks for directories that have not changed for a day and then
\* removes them one by one; one may have been made anew meanwhile.
CleanUp(r) ==
    /\ lone => ~Searching
    /\ trees[r] # None /\ trees' = [trees EXCEPT ![r] = None]
    /\ UNCHANGED <<asks, symbols>> /\ AskLeaves

RepoNext ==
    \/ Enqueue \/ RefreshRepo \/ RefreshAll \/ DeleteRepo \/ RemoveFiles \/ RestartCodeAsk
    \/ \E l \in Locations : RegisterRepo(l) \/ ChangeLocation(l) \/ Push(l)
    \/ \E j \in JobIds :
          \/ LoadRow(j) \/ MarkCloning(j) \/ LookAtBare(j) \/ Fetch(j) \/ EmptyBare(j)
          \/ StartClone(j) \/ EndClone(j) \/ FinishJob(j) \/ LoseJob(j)
    \/ \E r \in Readers :
          \/ AskCode(r) \/ PrepareTree(r) \/ ResolveCommit(r) \/ Search(r)
          \/ FindSymbols(r) \/ EndAsk(r) \/ CleanUp(r)

-----------------------------------------------------------------------------
\* Row, clone, jobs and worktrees keep their shape.
RepoTypeOK ==
    /\ repo # None => repo \in RepoRow
    /\ bare \in AllCommits \cup {None, << >>}
    /\ \A j \in JobIds : AtWork(j) => cloning[j].from \in Locations
    /\ \A r \in Readers : trees[r] # None => trees[r] \in AllCommits

\* What is ready has a clone of the location in its row, with a HEAD, whatever
\* was changed, refreshed, failed and restarted before, while no other job, change
\* or deletion comes into a job (cloner.py run_clone).
ReadyIsCloned ==
    lone /\ repo # None /\ repo.status = "ready" => HasHead /\ bare[1] = repo.location

\* A repository that says registered or cloning has a job to come or under way,
\* unless a job was lost: jobs may overlap, fail and undo each other's clones.
UnsettledHasJob ==
    /\ ~lost /\ repo # None /\ repo.status \in {"registered", "cloning"}
    => enqueue \/ \E j \in JobIds : cloning[j] # NoJob

\* Nothing of a deleted repository stays on the disk, while no job is at work
\* during the deletion; a restart in its midst leaves the files.
NothingIsLeft ==
    lone /\ deletion = "done"
    => bare = None /\ \A r \in Readers : trees[r] = None

\* What is read or found, from the cache or not, is of the commit the answer
\* names, while no job fetches and no cleanup runs during the search.
AnswerIsOfCommit ==
    lone => \A r \in Readers : asks[r].at = "answered" => asks[r].text = asks[r].commit
=============================================================================

# CodeAsk: a TLA+ verification project

CodeAsk (`src/src/codeask`, FastAPI and SQLAlchemy, with APScheduler jobs) answers questions about
code and wiki documents. It keeps a wiki in its own database, mirrors it as Markdown on disk and in an
*OpenViking* server (semantic search), and answers chats through an *opencode* server or directly
through a pool of LLM configurations. Almost nothing in it is protected by a lock: request handlers,
interval jobs and background tasks interleave at every `await` and meet in rows of one SQLite database,
in directories, and in what two external servers remember. This directory models that.

All paths below are relative to `src/src/codeask` unless they begin with `docs/` (then `src/docs/`).

1. [Inventory](#1-inventory) 2. [Plan](#2-plan) 3. [Models and the code](#3-models-and-the-code)
4. [Runs](#4-runs) 5. [Bounds](#5-bounds) 6. [Fairness](#6-fairness) 7. [Proofs](#7-proofs)
8. [Disagreements found](#8-disagreements-found) 9. [Not modelled](#9-not-modelled)

## 1. Inventory

| Component (code) | State | Operations | Meets | What makes it correct |
|---|---|---|---|---|
| **OpenViking sync** `rag/openviking/sync.py`, `models.py` | rows of `openviking_sync_jobs`, one per feature: status, operation and "deferred" in `progress`, `task_id`, `source_hash`, `attempts`, `next_retry_at` | `enqueue`, `run_pending_jobs` (refresh, select, call, record), `mark_failed`, the refresh sweep (prune, reconcile, `sweep_all`) | wiki hooks enqueue; interval job and admin endpoint run; OpenViking answers late | what stays published reaches the server; what is archived leaves it; no open job is forgotten; no late answer settles another run |
| **Wiki hooks and projection** `rag/openviking/hooks.py`, `agent/opencode_compat/wiki_workspace.py` | `wiki_workspace/current/<feature>` on disk, a per-session list of events | after the commit: project the document, prune or rebuild the feature, enqueue | reads the wiki database, calls `enqueue` | disk and jobs follow the last commit, also when handlers overlap or fail |
| **OpenViking administration** `api/openviking_status.py`, `api/openviking_admin.py` | the same rows, embedding settings, the server's data directory | enqueue, retry, delete, resync, rebuild index, switch and rebuild embedding | workers, server | a rebuild ends with a full index |
| **OpenViking client and server** `rag/openviking/client.py` | remote resources, task queue (external) | upload, task status, delete, list | workers, sweep | answers are read for what they mean |
| **OpenViking process manager, keepalive** `rag/openviking/process.py`, `health.py` | child process, server URL | `ensure_server`, restart, shutdown | keepalive job, admin, app shutdown | one process; none after shutdown |
| **Application and scheduler** `app.py` | scheduler jobs, startup tasks | lifespan start and stop, backfill, interval jobs | all | order of start and stop |
| **LLM gateway** `llm/gateway.py` | per-configuration usage window, sticky session map, failures, unhealthy set | `_select_config`, `stream` with retry and failover, `record_success`/`record_failure` | concurrent streams share the window | one configuration per visible answer, bounded attempts, no lost health |
| **LLM configurations** `llm/repo.py`, `llm/api_service.py` | rows with `is_default`, `enabled`, scope | create, update, delete, set default | gateway selection | at most one default per scope |
| **LLM clients** `llm/client.py` | none | provider streams | gateway | conversion of payloads |
| **opencode process manager** `agent/opencode_compat/process.py` | one server process per configuration | `ensure_server`, shutdown | turns, cleanup jobs | one server; none left behind |
| **opencode sessions and cleanup** `agent/opencode_compat/sessions.py`, `cleanup.py` | rows of `external_agent_sessions` (active, error, cleaned, expired), workspaces, worktrees, history on the server | `initialize_session`, idle cleanup, expiry, session delete | turns and two scheduler threads | history that was expired is never resumed; a running turn keeps its workspace |
| **opencode backend** `agent/opencode_compat/backend.py`, `events.py` | event stream of a turn | `run_turn`, abort, status poll | server, message service | a turn ends once: done, error, timeout or cancelled |
| **Sessions and messages** `sessions/`, `api/sessions.py`, `wiki/reports.py` | turns, titles, attachments, reports and their drafts | post, stop, retry, delete, upload, generate, verify | backend, gateway | one answer per question, in its place; lists name what is there; one report with its evidence |
| **opencode tools, permissions** `agent/opencode_compat/permissions.py`, `context.py` | none | lookups | backend | - |
| **Wiki imports** `wiki/imports/` | import sessions and items | preflight, upload, retry, finalize, cancel | tree, documents | an item is materialised once |
| **Wiki tree** `wiki/tree/`, `wiki/documents/` | nodes, versions, sibling order | create, move, delete, restore, publish | hooks | no cycle, unique sibling paths |
| **Wiki promotions, sources, sync** `wiki/promotions/`, `wiki/sources/`, `wiki/sync/` | promoted documents, source rows | promote, refresh | documents | - |
| **Wiki index, search, reports** `wiki/index/`, `wiki/chunker.py`, `wiki/reports.py` | chunks | rebuild, query | - | text processing |
| **Code index** `code_index/cloner.py`, `worktree.py`, `api/code_index.py` | repository status, bare clones, worktrees | clone, refresh, delete, worktree per session | scheduler, sessions | status follows the clone |
| **Identity, authentication** `identity.py`, `api/auth.py`, `api/users.py` | accounts with `auth_version`, login sessions, owners of chats | login, logout, change and clear a password | chats | a login is as good as the password behind it |
| **Tuning** `api/openviking_tuning.py`, `rag/openviking/tuning.py` | appended rows, settings in memory, `ov.conf` | apply, preset, rollback | process manager | rows, memory and server agree |
| **Metrics, skills, models, frontend** | rows | CRUD | - | - |

Behaviours that are hard here, and where they bite, are the `hazards` of `PROJECT.json`. The common
patterns: a row read, an `await`, the row written (or a decision applied) as if nothing had happened;
a commit before a call and the result of the call after it, with a restart in between; an answer that
arrives for an earlier run; an interval job that holds back all others; two actors deleting what a
third is using.

## 2. Plan

| Order | Module | About | State |
|---|---|---|---|
| 1 | `OpenVikingSync` | jobs, workers, sweep, hooks, projection, administrators, server | done |
| 2 | `SyncJobLifecycle` | abstract specification of one job; `OpenVikingSync` implements it | done |
| 3 | `OpenVikingSyncProofs` | type correctness, reachability of open jobs, deferred deletes, the limit of running jobs, the lifecycle of a row, no silent staleness | done |
| 4 | `OpencodeSessions`, `OpencodeSessionsProofs` | binding rows, workspace, cached instance, server history; turns against cleanup, expiry, delete and restarts | done |
| 5 | `LLMGateway`, `LLMGatewayProofs` | selection, sticky sessions, health, retry and failover | done |
| 6 | `WikiTree`, `WikiOrdering`, `WikiDocuments`, `WikiImport`, `WikiWorkspace` | the wiki: nodes and paths, order, versions and drafts, imports, the files opencode reads | done |
| 7 | `ChatTurns`, `TurnStream`, `SessionReports`, `SessionAttachments`, `ReportPreparation` | what a chat session stores, and what the user sees of a turn | done |
| 8 | `OpenVikingProcess`, `OpencodeServer` | the two external servers and who starts and ends them | done |
| 9 | `LLMConfigs`, `RepoJobs`, `LoginSessions`, `OpenVikingTuning`, `OpenVikingModels` | the services whose invariants span rows, or rows and memory | done |
| 10 | `ChatPartsProofs`, `ServicePartsProofs`, `RepoLoginProofs`, `WikiProofs`, `WikiTreeProofs` | what the runs `wiki` and `platform` check of each part, for every value of its constants | done |
| 11 | `WikiTreeProofs`, `RepoLoginProofs` | imports (`ImportIsWhole`, `ImportKeepsOff`), then type correctness of the parts of the wiki (`WikiTypeOK`) and of the platform (`PlatformTypeOK`) together | done |

No module declares a RECURSIVE operator, so each of them can be proved about.

## 3. Models and the code

### OpenVikingSync

One module, because its actors share the job rows. A step of the model is the code between two
`await`s that matter, and one database transaction is one step.

| State | Code |
|---|---|
| `active`, `docs` | a feature with status `active` and a current wiki space; its published content in the database. A feature has one document: `Outdated`, the hash and the upload concern the whole feature directory anyway |
| `disk` | `wiki_workspace/current/<feature>`; `None` is a directory that does not exist |
| `request` | what is left of a wiki request after its commit: project then enqueue an upsert, prune then enqueue a delete, or rebuild (`hooks.py:127-260`) |
| `job` | the row of the feature: `status`, `progress["op"]`, `progress["delete_deferred_until_task_done"]`, `task_id`, `source_hash`, `attempts`, and `next_retry_at` seen against the clock (`none`, `later`, `due`) |
| `worker` | the local variables of one `run_pending_jobs` call: what it will poll, what is left of the limit, what it selected, the job it has in hand with operation and hash as read (`sync.py:378-475`) |
| `sweeper` | the sweep's local variables: the list of remote features, the features to delete, the snapshot with its hashes (`sync.py:163-334`) |
| `cooling` | whether a `last_synced_at` is younger than the sweep's `min_interval` |
| `remote`, `task`, `inbox` | what the client sees of OpenViking: content per feature, state per task, unfinished tasks per feature in order |
| `admin` | what an administration endpoint still does after its first step |
| `faults` | failures used up, see Bounds |

`Enqueued`, `Picked`, `Failed`, `Refreshed`, `Recorded` and `Reset` are the six transactions that
rewrite a row; every action that touches a job applies one of them to the row *as it is when re-read*,
as the code does. The worker's action `PickJob` takes a row another worker has made running already,
because the code re-reads the row and tests only for the terminal states (`sync.py:413-415`).

`Next` is `Progress` (requests, workers, sweep, server, clocks), `Disturbance` (users, failures) and
`AdminStep`. `CoreSpec` leaves out administrators; `SerialSpec` also lets nothing run between the
reading and the last enqueue of `sweep_all`, the restriction under which the sweep's promise is true
(finding 1 shows the other side); `CrashSpec` adds a restart of CodeAsk.

### SyncJobLifecycle

What a job promises whoever works on it: asked for, taken, settled exactly once, by failure, index,
requeue or completion. `OpenVikingSync!Lifecycle` instantiates it with the refinement mapping "status of
the row, or none" and `FollowsLifecycle` is its `Spec`: `Safety`, how rows move, and that a taken job is settled.

### OpencodeSessions

A post walks through `initialize_session` and `run_turn` (`agent/opencode_compat/backend.py:158-675`), one
action per stretch between awaits that matter; a failover attempt of `sessions/messages.py` is one more post.

| State | Code |
|---|---|
| `chat` | rows of `sessions` |
| `binding` | row of `external_agent_sessions`: `status`, `external_session_key`, `config_json`'s provider block, whether `server_url` and `pid` are those of the running server, and `updated_at` against TTL and retention |
| `dir` | the session's directory: absent, without `opencode.json`, or the provider block in it; worktrees go with it |
| `loaded` | what the server's cached instance of the directory was made from (external) |
| `history` | which chat session's history the server stores under a key (external) |
| `turn` | local variables of a post: the binding as read (`seen`), what it chose (`config`), the server handle, whether the rest of the file changed (`ambient`), whether the fingerprint may be stored (`persist`), and, while it runs, the configuration it runs under (`ran`) |
| `sweep` | the list and the session in hand of `_run_opencode_idle_cleanup` and `_run_opencode_session_expiry`, each in an event loop and thread of its own |
| `deleting` | `delete_session` between its commit and the removal of the directories |

`Rewritten` stands for what SQLAlchemy does: no changed column, no UPDATE, no new `updated_at`. `RowAges`
makes a row pass the TTL and then the retention, and only while neither a post nor a job is at work on it: both
are longer than a turn (an hour at most) or a sweep, and ageing later in a turn could be moved before it.
`Cancel` is a client that goes away at any await. `abort_turn` is not an action: it asks the server to stop, and
the turn sees its stream end. `force_new_external_session` has no caller, and the data directory does not move.

`CalmSpec` lets cleaning, deletions and restarts happen between turns only; `StuckSpec` has a server that stays
up but fails to dispose of instances; `FairKept` has no deletions, departures and restarts of CodeAsk.

### LLMGateway

The pool of global configurations and the requests that share it. A *stream* is `LLMGateway.stream`
(`llm/gateway.py:148-278`, used for titles and reports); a *chat* is the loop of `stream_opencode_response`
(`sessions/messages.py:310-475`), which selects and records through the same window but has a failover of its own:
no attempts, no retry of the same configuration, and a failure after text is not counted.

| State | Code |
|---|---|
| `pool` | what `list_runtime_global_configs` finds |
| `usage`, `sticky`, `failures`, `cooling` | `GlobalLLMUsageWindow`: sessions counted per configuration, `_sticky_sessions`, `_failures` (a count that saturates at the threshold), `_unhealthy_until` as absent, ahead, or past but not yet looked at |
| `request` | local variables of a request: configuration, `excluded_global_config_ids`, `attempt`, whether something went out (`emitted_real_event`, `emitted_text`), whether the error in hand is retryable |

`SelectConfig` is `_select_config` with its side effects: `is_unhealthy` forgets failures whose cooldown is over,
for the configurations it is asked about and no others (`Looked`), and `record_session` follows. Whether a user has a
configuration of his own can change between two selections, so `Own` is an input of each; a configuration sent with a
request is the same. What counts against health (`_counts_against_config_health`) is the choice between `GivesUp` and
the failing actions. Time is four actions that let entries fall out of their windows; their guards keep the order
the windows have (usage 60 s before stickiness 300 s, failures 300 s before cooldown 600 s, `gateway.py:61-90`).
The window lives in memory, so a restart is `Init` again.

`FailoverAdvances` says that both loops end, as a property of steps: `Advanced` orders attempt, excluded
configurations and stage of the call, each of which is bounded.

### WikiTree

The rows of `wiki_nodes` of one space (`wiki/tree/service.py`, `wiki/cleanup.py`) with what the older documents
API (`wiki/sync/service.py`, `wiki/sources/`) and reports put beside them. A node stores its parent and its whole
path; who belongs to a subtree is decided by the path (`_subtree_nodes`), where it is shown by the parent.

| State | Code |
|---|---|
| `tree` | id to parent, type, name, path (a sequence of leaves), `gone` (0 active, 1 deleted, 2 past the retention of `cleanup_expired_soft_deleted_nodes`), and what it was made for |
| `legacy`, `files` | documents of the older API, and the names under which files are stored for it |
| `report` | titles of reports, projected as nodes below the reports root |

A leaf is a name and the suffix `_unique_child_leaf` gives it. `Next` lets anything be the parent and any row be
restored; `Careful` is what the workbench offers (folders as parents, a subtree restored while its rows hang where
their paths say), and is what the run explores. Section 8 says what happens outside it.

### WikiOrdering, WikiDocuments

`WikiOrdering` is the `sort_order` of siblings (`wiki/tree/ordering.py`, create and PUT): `place` gives each node its
folder, its order and whether it is active; a move renumbers both folders. `WikiDocuments` is one document:
`versions`, `current` and the `drafts` of its users, and in `req` what each open request has read. A request is a
reading action (`Asks`) and a writing one (`Answers`); between them stand only the unique indexes and the reuse of
row ids by SQLite. `OneEachNext` gives every user one request at a time.

### WikiImport

`imp`, `item` and `job` are the rows of `wiki_import_sessions`, its items and `wiki_import_jobs`; `nodes` the active
nodes by path and by whose they are; `inreq` what an open request has read. From its first write to its commit a
request holds the database, so it is one reading and one writing action. `Materialize` folds over the files in their
order, creating folders as it goes, and stops at the first error, with what it has made so far.
`PatientNext` is a dialog that does not overlap two requests for one file.

### WikiWorkspace

`wiki` (database: folder, documents, reports, active), `shelf` (files, reports and manifest of
`wiki_workspace/current/<feature>`) and `told` (per request the event it has committed and not yet projected).
`Commit` is the end of a handler, `Drain` the call of `WikiWorkspaceProjector` under its lock, by kind of event;
`Lose` a crash or an error in the call. `past.seen` notes overlaps, losses, moves that cross another request, and
documents dragged along by a moved folder, and the properties say what each of them still leaves true: without any of
them every file of the workspace is what an export would make (`MirrorsTree`); with overlaps alone no file shows
anything but a live document under its own name and current text, or the text of a call that is still to come
(`FilesAreCurrent`). `OpenVikingSync` has the same projection with
one file and adds the jobs; the two are not composed.

### ChatTurns

One chat session (`sessions/messages.py`, `sessions/title_generation.py`, `delete_session`): `rows` are
`session_turns` (question, kind, index, has text), `ask` the stage of each post, `title` and `titling` the title and the
tasks that generate one. `Number` reads the largest `turn_index`, `WriteQuestion`, `WriteAnswer` and
`WriteStop` write with the number read before. `serial` is a user who waits for the end of a stream before he posts
again: the properties that need it name it.

### TurnStream

One turn in `backend.py` (`_stream_events_with_status_poll`, `_stored_assistant_messages`,
`_reconcile_text_part_update`): the `script` is what opencode will send and at which point it is (`sent`), `link`
when the event stream was opened and whether it broke, `read` how far the backend is, `turn` its local variables
(text per part, popped messages), `out` what went to the user, `how` the way it ended. opencode itself is outside;
its script is chosen from `Scripts` at the start. A script is a turn (`IsTurn`): the user's message, then parts of any
number of messages, each beginning empty, growing by deltas and sent once more when it is whole, ends of messages, and an
end of the turn, after any of these. Text is a sequence of numbered words.

### SessionReports, SessionAttachments, ReportPreparation

`SessionReports`: the rows of `reports` of one session; a request keeps the row it read, and `CommitWrite`
writes the columns that differ (what SQLAlchemy does). `orderly` is one request at a time.
`SessionAttachments`: rows, files and manifest, written one after the other, with a crash between any two; `inTurn` is one
request at a time. `ReportPreparation`: `answers` is `app.state.report_prepare_results` in insertion order, cut to
`CacheLimit` by eviction; `posts` are requests between looking an id up and starting its task, `drafting` the tasks.

### OpenVikingProcess, OpencodeServer

`OpenVikingProcess` follows `rag/openviking/process.py` from the keepalive job, start and stop of CodeAsk
(`app.py`) and the three administration requests. `os` are processes (booting, healthy or sick, with which model, over an
index that has been deleted, launched by this CodeAsk), `port` who listens, `mgr` the manager's fields, `setting` the
active row, `admin` the request. A call under the manager's lock is one step.
`OpencodeServer` follows `agent/opencode_compat/process.py`: `srv` the processes and their ports, `ocm` the
manager's process, handle and next port, `caller` what each call was given and who answered it. A process that finds
its port taken exits; `KeepServer(q)` with `q = None` is a launch that fails at once.

### LLMConfigs, RepoJobs, LoginSessions

`LLMConfigs`: rows with scope, default, test outcome and its opencode adapter; a request reads a row, tests wait for
opencode, and the commit writes what differs; `apart` is a request alone between read and commit.
`RepoJobs`: row, bare clone (as the commit of its HEAD), the jobs in the scheduler's threads, worktrees, readers and
the symbol cache of one repository; `lone` is work that is not overlapped, `lost` a job that a restart or an unexpected
error has dropped. `LoginSessions`: accounts, login sessions, cookies, and who owns chats; a request resolves its
actor (`Arrive`), reads the account (`Ask...`) and commits.

### OpenVikingTuning, OpenVikingModels

Both are tables to which rows are appended and of which the newest counts. `OpenVikingTuning`: `AskTuning` and its
siblings read the newest rows, `CommitTuning` appends, `ReloadTuning` takes the values of CodeAsk to its settings,
`ReadConfig` and `RestartTuned` those of the server to `ov.conf`. `OpenVikingModels`: a switch of the embedding
commits (`CommitSwitch`), removes the vectors (`Wipe`), reads the rows and launches the server (`Relaunch`);
`Carried` is the key that a blank field keeps. `alone` and `smooth` are requests that do not cross; `StartAnew` and
`StartAgain` a restart of CodeAsk at any point.

### MCSync, MCOpencode, MCWiki, MCPlatform and the proofs

`MCSync` holds symmetry sets. `MCOpencode` lets a behaviour live in one of four worlds: `Next`, or one of the
three restrictions under which a promise is made. `MCWiki` and `MCPlatform` hold parts that share no state:
`part` is chosen at the start, the variables of the others are `None` and stay so, and each part is explored
as it would be in a run of its own. Properties of a part are guarded by it and joined to one, so that a
property of these runs is what a reader wants to know of a part: `ServerIsKept`, say, is `OneChild`,
`OwnServerRunsSetting`, `OwnServerIsFresh`, `NoRival` and `StopIsThorough` of `OpenVikingProcess`, each
stated there with the reason it could fail. `NoValue` declares `None`. The `Proofs` modules hold the theorems (section 7).
Definitions whose comment begins "Mutant of" are not part of the model: each is a plausible mistake in the
definition it names and shows that a property would notice it.

## 4. Runs

| Run | Specification | Checks | Shows |
|---|---|---|---|
| `sync_admin` | Spec, 1 worker | `TypeOK`, `OpenJobsReachable`, `IndexedIsUpsert` | with every administration endpoint interleaved, no failed job is without a retry time and no running job without a task is nobody's, and a delete deferred behind an upload is never reported as an indexed upload |
| `sync_core` | FairCore, failures | `ArchivedLeavesRemote`, `FollowsLifecycle` | an archived feature leaves OpenViking in the end, through timeouts, conflicts and cancelled jobs; jobs implement the lifecycle |
| `sync_mirror` | FairSerial | `NoSilentStaleness`, `EventuallyMirrored` | what the sweep will skip is right; what stays published reaches OpenViking and stays |
| `sync_pool` | CoreSpec, 2 features | `RunningWithinLimit` | refresh and selection together keep to the limit |
| `sync_second_publish` | CoreSpec | `NoSilentStaleness` | violated, finding 1 |
| `sync_crash` | FairCrash | `RunningResolves` | violated, finding 2 |
| `opencode` | the worlds of `MCOpencode`, one post at a time | `TypeOK`, `ExpiredHistoryIsGone`, `KeyForever`, `CalmPrompts`, `StuckIsKnown`, `KeptReclaimed` | no interleaving with the jobs, deletion, failures, restarts or departures gives a session a second opencode session, or marks one expired whose history is there; repair after cleaning, restart or a changed choice happens in the right order; the withheld fingerprint keeps row and cached instance together while the server fails to dispose; the two jobs remove what nobody uses |
| `opencode_expiry` | Spec | `ExpiredIsTerminal` | violated, finding 3 |
| `wiki` | the parts of `MCWiki` | `WikiTypeOK`, `TreeIsSound`, `OrderIsKept`, `HistoryInSequence`, `DraftsAreOwn`, `ImportIsWhole`, `ImportKeepsOff`, `WorkspaceFollows` | paths follow parents through moves, deletion, restoration, purging and what the older APIs put in; moves keep the order of others; overlapping publishes number versions without a gap; imports are carried out once and whole and take nothing unasked; the files opencode reads follow the tree |
| `wiki_import` | ImportSpec | `ImportCanFinish` | violated, finding 4 |
| `platform` | the parts of `MCPlatform` | `TypeOK`, `FailedNotTriedAgain`, `OneVoice`, `CoolingIsLastResort`, `FailoverAdvances` (gateway); `PlatformTypeOK`, `HistoryIsTrue`, `AnswerIsTrue`, `ReportIsSound`, `ListsAreTrue`, `DraftIsDelivered`, `ServerIsKept`, `ServerIsOwn`, `ConfigsAreSound`, `RepoIsSound`, `LoginIsSound`, `TuningIsSound`, `ModelsAreSound` | each part keeps its promises while its requests overlap, its jobs run beside them and CodeAsk crashes between their steps |
| `turn_silence` | StreamSpec | `SilentTurnFails` | violated, finding 5 |

Deadlock is checked in the `sync` and `opencode` runs: some interval job or clock can always move. It is not in the
others, because a part really ends there: a turn is over, every question is asked, a bounded number of changes made.

## 5. Bounds

- *Features*: one, and two where the limit is the question. Jobs of different features share the limit,
  the sweep's "any running job" test and nothing else.
- *Workers*: one. Two at a time (the interval job and the admin endpoint) make the state space too large for a
  run with administrators; the theorems `TypeCorrect` and `OpenJobsAlwaysReachable` are about any number of them.
- *Versions*: two where contents are compared, so that old and new content differ.
- *Requests*: one wiki request at a time per run (its steps interleave with everything else); a second
  publish is the next request.
- *Tasks*: ids the server can have in use. `RecycleTask` gives an id back when its task has ended and
  nothing in CodeAsk holds it any more, so behaviours are not cut off after the first ids.
- *Limit* is the code's `limit` scaled down to 1 or 2, *MaxRepeatFailures* its `max_repeat_failures` scaled
  down to 1 or 2. `attempts` saturates there: the code only asks whether it is at least that.
- *MaxFaults* bounds failures of calls, timeouts and restarts together (0 or 1; 0 only where the property
  is about the order of steps that succeed).
- A document is published at least once before it is swept, and its content never becomes `None` again:
  the deletion of a single node is a change of content here.
- *Sessions* (opencode): one; sessions share nothing but the jobs' lists, which are worked off one by one.
- *Turns*: posts under way at a time, one; there is no bound on posts after each other.
- *Keys*: two opencode ids in use at a time. `Fresh` gives an id nothing refers to any more a second life, so
  that sessions are created again and again; ids orphaned by departures use the set up, and then a post can
  only fail or be given up.
- *Configs*: two provider blocks. What else is in `opencode.json` (ports, tokens) is a choice, changed or not, at each
  post.
- *Chats, Streams* (gateway): one of each at a time, of one session, so that they meet in its sticky entry; with two
  sessions, which add different loads, the state space is too large for a run, and the theorems are about any number.
- *MaxRetries* and *Threshold* are the code's 3 and 3 scaled down to 1; two configurations, so that a failover
  has somewhere to go and then nowhere. The theorems are about every value of both.
- *Wiki*: two nodes beside the two roots, two names with two suffixes, one older document and one report: enough for a
  collision, a subtree that moves and one that is restored. Three siblings in two folders for the order. Two users,
  two requests and two versions of a document. An import of three files, one of them an asset, in nested directories, and
  nodes that others make at three of the paths. Two documents, two folders and four changes for the workspace, of two requests that may cross.
- *Questions* two, *Titlers* one: the number of a row is disturbed by one other post. The *Scripts* of a turn are
  `TurnScripts` of `MCPlatform`: at most three parts in two messages (*MaxMessages*), one of which may say nothing, cut off
  at any point.
- *Editors*, *Admins*, *Calls*, *Tuners*, *Switchers*, *Posts*, *JobIds*: two requests or jobs that can cross; ids are
  used again when a request is over, so that there is no bound on requests after each other.
- *Pids* two, *Servers* three processes at a time, *PortCount* two ports: the own server, one launched beside or before
  it, and an orphan. *Callers* is one call of the backend beside the keepalive job.
- *CacheLimit* is the code's 128 scaled down to 1, for two ids. *MaxTalk* two exchanges.
- *MaxRows* = 5 and *MaxModels* = 4 are rows appended (one fewer model where requests cross); *Pushes* = 1,
  *MaxPasswords* = *MaxVersion* = 2, *MaxTexts* = 2, *MaxVersions* = 2 and *MaxChanges* = 4 bound what only grows.
- Where requests cross, `LLMConfigs`, `RepoJobs` and `OpenVikingModels` leave out what the properties then say nothing
  of (tests, searches and pushes, a further switch).
- One database transaction is one step. The SQLite driver starts transactions at the first write, so that two
  of them can read the same row before either writes; the wiki, chat and configuration models split reading from
  writing for that reason, `OpenVikingSync` and `OpencodeSessions` only where an `await` stands between.
- Only one administration request that consists of several steps is under way at a time in `OpenVikingSync` and
  `OpenVikingProcess`.

## 6. Fairness

`Fairness` is weak everywhere. A request runs its remaining steps because nothing cancels the handler
after its commit. A worker and the sweep move because APScheduler calls them again at every interval and
they have no other wait than the calls they make. The server finishes the tasks it has accepted, and
backoff and cooldown expire, because clocks advance. Faults, users, administrators and restarts are never
required to act.

In `OpencodeSessions` the same holds: a post goes on while its client stays, a stream ends by its two timeouts
whatever the server does (`backend.py:1203-1270`), the jobs run at every interval, and rows grow old. Posts,
deletions, departures and failures are not required.

`LLMGateway` and the parts of `MCWiki` and `MCPlatform` state none. That the gateway's loops end is a property of
steps (`FailoverAdvances`). What must happen in the end elsewhere is stated as what must not be lost on the way: a
repository that waits has a job (`UnsettledHasJob`), a draft that is "running" a task (`RunningIsWorkedOn`), an
import whose files are all settled has been carried out (`SettledIsCarriedOut`).

## 7. Proofs

`OpenVikingSyncProofs` proves for every number of features, versions, requests, workers and tasks, every
limit and any number of faults, from the assumptions named in `OpenVikingSync` (finite `Features`, positive
`Limit` and `MaxRepeatFailures`, natural `MaxFaults`, `None` distinct from what it stands in for):

- `TypeCorrect`: `Spec => []TypeOK`. Not inductive by itself: a worker that is inside a call holds a
  feature (`Assigned`), and a task in an inbox is one the server knows with its content (`InFlight`);
  `Sound` is the conjunction, proved one actor at a time (`RequestTypes`, `RefreshTypes`, `UploadTypes`,
  `SweeperTypes`, `AdminTypes`, `EnvTypes`).
- `OpenJobsAlwaysReachable`: `Spec => []OpenJobsReachable`, with `Sound`. The point is that a worker that
  leaves a job leaves it reachable also when another worker took the same job: `Failed`, `Refreshed`,
  `Recorded` and `Reset` all produce a row that needs no owner, and `Enqueued` keeps a running row as it is.
- `IndexedAlwaysUpsert`: under the assumption that there is at most one worker (`\A v, w \in Workers : v = w`,
  the scheduler's `max_instances=1`), `Spec => []IndexedIsUpsert`. The invariant `NoDeleteTask` says that a
  running delete with a task is a deferred one and that a worker that deletes returns without a task;
  without the assumption the answer of one worker can be applied to the run of the other.
- `RunningStaysWithinLimit`: under the same assumption `CoreSpec => []RunningWithinLimit`. What bounds the jobs is
  read several transactions before it is used, so the invariant counts ahead: `Pool` says that what is running, what
  the worker has selected and what its refresh left over do not exceed `Limit` together. `Solo` says that the one
  worker is inside of, polls and applies only running jobs with the task it has, so nobody else starts or ends one.
- `LifecycleIsFollowed`: under the same assumption `CoreSpec => Lifecycle!Safety`, the part of `FollowsLifecycle`
  without fairness. Each transaction writes one row, and `Moves` lists the ways a row can move; every one is a step of
  `SyncJobLifecycle` or leaves status and attempts (`OneRowMoves`). That a late answer is never a forbidden move
  rests on `Solo`, and that a job indexed is no delete on `IndexedIsUpsert`. With two workers, or an
  administrator who resets rows, it is not followed.
- `NothingStaleInSilence`: under the same assumption, with a sweep that is not interleaved (`SerialSpec`) and as long as
  no hook gives up (`[][\A r \in Requests : ~HookFails(r)]_vars`), `[]NoSilentStaleness`. It covers more than the run
  `sync_mirror`: any number of requests on any number of features, and uploads, deletes and polls that fail.
  The invariant `Mirror` follows a document along its way: the row claims what is published (`Projected`), its task
  brings it, being the last the server has for the directory (`Landed`), an indexed row stands for a directory
  that holds it (`InPlace`), and what the worker is about to record or apply is of that kind (`Carries`). A
  hook that gives up before it projects is excluded because it leaves the old directory behind, which the next sweep
  has uploaded under the hash of the new text.

`OpencodeSessionsProofs` proves for every number of sessions, posts, keys, configurations and failures:

- `TypeCorrect`: `Spec => []TypeOK`, for any number of posts at a time. `Sound` adds that a post that has begun
  has a session and a configuration, one that inserts has a key (`GoodTurn`), and a job that marks has a session
  (`GoodSweep`).
- `KeyIsForever`: `Spec /\ []OneTurnEach => KeyForever`, where `OneTurnEach` says that no two posts of one session are
  under way; those of different sessions may interleave as they like. The invariant `FirstTurn` says that a post on its
  way to create a session has no row to overwrite; every other step is a `RowKept` step. Without `OneTurnEach` it is
  false (section 8).
- `ExpiredMeansGone`: `Spec /\ []OneTurnEach => []ExpiredHistoryIsGone`. `AboutToMark` says that what the expiry
  job is about to mark has no history; it needs `Held`, that a session in a job's hands has a row or is deleted,
  so that no new key can slip under the mark.
- `PromptsStayOwn`: `WorldSpec /\ []OneTurnEach => []CalmPrompts`. A prompt runs under the chosen configuration because
  of what a post has established by each await (`CalmAt`): the file is new before the instance goes, and the instance
  is gone before the row is new. It starts from `Settled`: while the server has the history a row names, instance and
  file are as the row says or missing. Without that condition it is not inductive: the probe of a session whose history is
  lost has written the new file and booted the instance from it when it gives up, and the row stays behind
  (harmless, as no prompt can follow).
- `InstancesStayKnown`: `WorldSpec /\ []OneTurnEach => []StuckIsKnown`. The invariant (`StuckAt`) says which of two things
  is true when the row is updated: the disposal failed, so row and instance both stay old, or it did not, and
  the instance will be booted from the file that is already new.

`LLMGatewayProofs` proves everything the run `platform` checks of the gateway for any configurations, sessions and
requests, any `MaxRetries` and positive `Threshold`, from the assumptions that chats and streams, and the names of
configurations, `Own` and `None`, are distinct: `TypeCorrect`, `ChatFailover` (`FailedNotTriedAgain`), `SingleVoice`
(`OneVoice`), `LastResort` (`CoolingIsLastResort`) and `NoCircles` (`FailoverAdvances`). The invariant `Inv` adds to
`TypeOK` what a request's variables say of each other (`Good`): a request under way has a session, something has gone
out only during a call, a chat never waits to ask again, and its call is not with an excluded configuration.
`StepMoves` then lists how one request can move in any step of the system, and the action properties follow from that
list.

The other proofs are about the parts of `MCWiki` and `MCPlatform`, one after the other; a theorem is about the
specification of all parts, so that its statement is the property the run checks. In each, an inductive invariant
is a conjunction of the part's own properties and of what a request carries from its reading to its writing; a step
lemma per action says that the conjuncts it can disturb stay. Constants are sets of any size unless an assumption
says otherwise, and the assumptions say only that `None` is no row, no id and no value, that ids are numbers where
the code compares them, and that a bound is a natural number (positive where the code's limit is: `CacheLimit`,
`MaxModels`, `PortCount`, `TuneLimit`).

`ChatPartsProofs`:

- `ListsStayTrue`: `ListsAreTrue` of the attachments. `FilesInv` adds that while one request works (`OneWorks`) the list
  it will write is that of the rows (`ListIsFresh`), at each of its stages and after a crash at any of them.
- `ReportsStaySound`: `ReportIsSound`. `ReportsInv` adds that requests that do not overlap write over the row they read
  (`ReadInOrder`).
- `DraftsAreDelivered`: `DraftIsDelivered`. `PrepInv` adds that the cache has an id once and keeps to its limit, that a
  task covers what had been said when it was asked for (`CoversInTime`), and that no id is asked for behind its
  own task (`AskedIsNew`).
- `HistoryStaysTrue`: `HistoryIsTrue`. `ChatInv` ties the stage of a post to the rows it has written (`KindOfPhase`,
  `RowsOfPhase`, `LastRow`): the largest index it read is still the largest while posts are serial.
- `AnswersStayTrue`: `AnswerIsTrue`, for any set of turns (`StreamAssumption`: each of them `IsTurn`), any number of
  messages and parts of any length. `StreamInv` says of a turn under way what is known of each message, depending on
  how much of it was heard. Whatever was heard: what is shown of a message has been said, in order, and what was put
  out of it is among that (`TextsFit`, `OutFits`); nothing is known before the first part that is heard (`NothingYet`), and
  of a message that is over nothing more (`PoppedIsOver`); the last message shown is at the end of what was put out
  (`LastIsShown`), so that what a stored message adds can be appended. What was heard from its beginning is known
  word by word: a part (`PartIsKnown`), and the turn (`KnownWhole`, `OutIsWhole`). What a script has said up to an event is
  a recursive function (`SaidIn`, unfolded by `SaidUnfolds`); a part that closes repeats the deltas since it
  began because the script is a turn (`ClosedPart`).

`ServicePartsProofs`:

- `ServerStaysOwn`: `ServerIsOwn`. `ServerInv` follows the ports that were tried (`TriedUpToNext`: those between where the
  search began and the next one, around the end of the range) and whose process answers (`CleanIsOwn`).
- `ServerStaysKept`: `ServerIsKept`. `ProcInv` has what an orderly run knows (`ChildFits`, `DownOwnsNothing`): the one
  process it launched has the active setting and index, or the request that will restart it is under way.
- `ConfigsStaySound`: `ConfigsAreSound`. `ConfigsInv`: what a request read is still so, while readings and writings do not
  cross (`ReadAlone`, `ReadIsOfScope`); a test that was passed is of the present content (`TestedStays`).
- `ModelsStaySound`: `ModelsAreSound`. `ModelsInv` is about the newest rows: what a switch has read, what is in the file
  and what the vectors are made of (`VectorsOfFile`), with a crash between any two of its steps. The key that a blank
  field keeps is the newest one given for the model (`CarriedIsGiven`).

- `TuningStaysSound`: `TuningIsSound`. `TuningInv` says that, with one request at a time, what is not yet in use is in the
  hands of the request that will bring it there (`ServedOrComing`, `LoadedOrComing`), and what it has seen is the newest
  (`SeesNewest`). The loop over a list of changes of any length is a recursive function; that it exists, and keeps
  what each change keeps (`ListIsTaken`), is shown by the least length at which it would fail. `ChangeIsTaken` is the one change:
  the chain goes on, and what the loop sees stays the newest of all rows, old and new.

`RepoLoginProofs`:

- `ReposStaySound`: `RepoIsSound`. `RepoInv` has `WorkOfRow`, `SearchOfClone` and `CacheOfCommit`: a job works on the
  row's location, a search on a clone's commit, a cache entry is of the commit it is filed under.
- `LoginsStaySound`: `LoginIsSound`. `SessionsFit` and `CallsFit` say which version and which owner a session and a
  request between reading and commit can still have.
- `PlatformStaysTyped`: `PlatformTypeOK`, from the invariants of all parts (`PlatformInv`), which say more than the types.
  Two conjuncts have nothing to do with the parts' properties and are added: every password was set (`PasswordsAreSet`), and a
  request for other models that is over holds nothing (`AtRest`).

`WikiProofs`:

- `DocumentsStayInSequence` (`HistoryInSequence`) and `DraftsStayOwn` (`DraftsAreOwn`): what a request has read of versions
  is the next number or less, so that a stale one is refused by the index; a row id that a request holds is its
  user's or free.
- `OrderStaysKept` (`OrderIsKept`): moving renumbers by rank (`RanksFollowOrder`), for any numbers stored before.
- `WorkspaceStaysTrue` (`WorkspaceFollows`), the longest. What the workspace promises is broken in the middle of every
  request, because the commit comes before the projection. `WorkspaceInv` therefore says: what is promised is so, or
  the call that makes it so is under way. `CountSettles` and `ArchiveSettles` say that of the manifest and of an
  archived feature; `FilesSettle` that every file is one that an export would make now, or belongs to the document
  of a call that will rewrite or remove it (for a move, to the old place and the new one, `BelongsAt`);
  `ShownSettles` and `ReportsSettle` the other way round, that every live document and report is shown or has its call;
  `OneAtATime` and `SoleSettles` what more holds while there is at most one call; `MovesAlone` that a move that was not
  crossed is. Documents, directories, labels and requests are any sets (documents finite and numbers, as the
  manifest counts and orders them).

`WikiTreeProofs`:

- `TreeStaysSound`: `TreeIsSound`. Subtrees are read off the paths, and the proof has to bring paths and parents together.
  `SubtreeHangs` does: under the invariant a row lies in the subtree of a node, as its path says, exactly if its
  parent does. So a move replants whole subtrees (`PathsReplant`, `ReplantedApart`), a deletion takes all that hangs
  on what it deletes, and nothing is hung below itself. `Rooted` adds to the property what deleted rows keep, for
  they can come back: their parents are folders, and were not deleted longer ago than they are (`Hangs`), so
  that purging never leaves a child of a purged row behind. That no path goes round is proved by the shortest path
  for active rows (`ShortestIsOut`, by well-foundedness of the numbers), and as an invariant for deleted ones, whose
  paths may be out of date.
- `ImportsStayWhole` (`ImportIsWhole`) and `ImportsKeepOff` (`ImportKeepsOff`), for any files, directories, folders,
  conflicts and number of requests of a patient user. `EnsureFolders` and `PlaceAll` are recursive functions; that they
  exist (`StepsExist`) and what they leave (`FoldersFound`, `RunMakesAll`) is shown from each number to the next
  (`AllOfThem`). Folders have their place where the beginnings of the target are there or have the names of the source
  (`OnTheWay`). `ImportInv` has what waiting gives: a request that has read finds its file open still, no other has
  it, and one about all files has read the rows that are (`RequestsFit`). So the rows it writes are those it
  sees, and the one that settles the last file carries the import out (`RequestIsEnded`, `EndedFits`). That files lie
  where they belong needs the folder that was imported into to stay (`BaseFits`): no target is above it, and
  the theorem assumes that a folder at the top that can be imported into is a system folder (`TopsAreSystem`), which nobody
  can delete. Without it `DirectoryIsKept` does not hold (section 8), and `ImportsStayWholeWherever` states the rest.
  `ImportAssumption` says of the folders and pages that users and the system make that their paths are not empty, so
  that a deletion never takes more than what is below its node.
- `WikiStaysTyped`: `WikiTypeOK`, from the invariants of all five parts.

Two facts about the prover: theorems of its library that take an operator as a parameter cannot be used, so induction
over data is out of reach; but that a set of numbers has a least one can (`LeastNatural`), and serves where a proof on
paper would go by induction, also for the recursive functions that are proved about (`ListIsTaken`, `SaidIn`, `EnsureFolders`, `PlaceAll`).

Only model-checked: everything under fairness (`ArchivedLeavesRemote`, `EventuallyMirrored`, `KeptReclaimed`,
`FollowsLifecycle` with its fairness), which is out of this prover's reach together with `ENABLED`. Every other
property of the passing runs is stated by a theorem.

## 8. Disagreements found

1. *A second publish can be indexed under the first content* (`sync_second_publish`; `sync.py:204`, `519-529`).
   The sweep keys its enqueue on contents and rows read earlier, and a finished task settles the row whatever
   its hash has become. `docs/v1.0.5/plans/acceptance-checklist.md:203` says quick second publishes end up with
   the latest text.
2. *A restart can leave a job running for ever* (`sync_crash`; `sync.py:416`), and with it end every later sweep.
   `docs/v1.0.5/design/openviking-integration.md:664` says the sweep realigns after a restart.
3. *An expired session can become active again* (`opencode_expiry`; `sessions.py:137`). The comment at
   `backend.py:174` calls it terminal. The turn then prompts a session whose history is gone.
4. *A failed import cannot be finished by a retry* (`wiki_import`; `wiki/imports/session_service.py:936`). What was
   made for the other files stays, and each retry conflicts with it.
   `docs/v1.0.1/plans/llm-wiki-workbench.md:454` says failed, retry, completed is verified.
5. *A turn that falls silent ends as done* (`turn_silence`; `backend.py:1252`): any assistant text that is stored, of
   this turn or an earlier one, is taken for the end of the answer.
   `docs/v1.0.5/plans/m7-turn-control-and-multi-repo.md:90` says an error follows 600 s without an event.

The proofs have found what the bounds of the runs had hidden. `FilesAreCurrent` held in the run only because four
changes were too few for two moves to cross with a third document in the way, and `ChatsFollowLogin` only because the
requests were too few for a crossed change of the password to bring back a session in which chats had begun: both are
now about requests that do not cross (`past.seen`, `crossed`). That a login could be given the token of another was a
slip of the model, and so was a `CASE` of a projection's result whose guards overlapped; both are corrected.

The models contain further behaviours that nobody may have intended, and that no run states as a property. Each is
excluded from a property by the condition named with it, or is a reason why a property says no more than it does.

- *Sync*: an upload whose row changed meanwhile drops its task id, so that a delete meets the running task
  (`sync.py:451`); an embedding switch resets the rows before it empties the server, and what a worker uploads in
  between is wiped (`openviking_admin.py:100`); running jobs whose task the server has lost take up the limit in
  every run (`sync.py:381`).
- *opencode sessions*: the cleanup job can take the directory of a running turn that changed no column of its row
  (`cleanup.py:40`, `db/base.py:20`); overlapping first posts both create an opencode session, and the second key
  overwrites the first, although `docs/v1.0.6/plans/opencode-session-resume.md:13` has one id for ever
  (`backend.py:322`, `sessions.py:85`); a first turn given up before its row is stored leaves a cached instance that
  the next first turn does not dispose of (`backend.py:312`); a post beside a deletion makes the session's directories
  anew (`api/sessions.py:328`).
- *Gateway*: a stream whose last attempt failed makes its session stick to a configuration it never calls
  (`gateway.py:220`); a call begun before a cooldown succeeds and ends it (`gateway.py:549`).
- *Wiki tree* (outside `Careful`): restoring a subtree also brings back rows that were deleted earlier, and with their
  old paths, which after moves can make a cycle; nodes can be made below documents; purging followed by the backfill of
  older documents undoes a deletion; a refused upload of the older API unlinks the file it would have replaced;
  `soft_delete_legacy_document` takes only its own node; a renamed report node leaves its descendants' paths.
- *Documents*: a late request can write a draft row whose id has been given to another user (`OneEach`); of two publishes
  that read the same last version the second is refused by the index.
- *Imports*: requests that are not patient turn files around that others have settled; cancelling after an overwrite
  leaves what was overwritten deleted; the scan has no guard on the status; files land in other directories where as
  many names do not stand in front of the root as were dropped, or where the folder at the top that was imported into
  is one a user made and is deleted meanwhile: what is missing is then made again under the outermost name of
  the uploaded directory (`DirectoryIsKept`, `TopsAreSystem`).
- *Workspace*: moving a folder by drag and drop projects nothing (`ordering.py:79-90`), though
  `docs/v1.0.5/plans/m12-wiki-workspace-incremental.md:193` has subtree moves followed; overlapping requests lose or
  leave files: of two moves that cross, the later call can take an old file that the earlier one has left behind and lay
  it on the newer file of another document (`FilesAreCurrent` is about moves that are not crossed); a lost projection is repaired only by a later rebuild (`MirrorsTree` is about `past.seen = {}`); "a"
  and "a.md" are one file.
- *Chat*: the stop of an earlier question that is written late turns the answer to a later one away, two turns
  get one index (both without `serial`); a stop while the turn is being set up stores nothing, although
  `docs/v1.0.5/plans/acceptance-checklist.md:341` has it kept; an applied title can replace one given in the same
  moment (`ManualTitleStays`); a popped message that is read again is put out twice (`SpokenOnceInOrder`), an
  answer is lost if the stream is opened after its part has ended (`NothingIsMissed`).
- *Reports, attachments*: verdicts that overlap write half a row each (`orderly`); the manifest is stale where uploads
  overlap (`inTurn`), and files stay after a crash in the deletion of a session; two POSTs of one id that cross start
  its task again (`calm`), and a task whose feature is deleted under it stays "running" for ever
  (`RunningIsWorkedOn`).
- *Servers*: the keepalive job can run between the shutdown of the servers and that of the scheduler (`app.py:477-479`)
  and launch one that outlives CodeAsk, against `docs/v1.0.4/plans/acceptance-checklist.md:226`; an adopted server is
  not ended by stop or reset; an unhealthy orphan that holds the port makes every launch fail; an orphan of opencode
  answers health on a port that CodeAsk takes for its own (`life.clean`); a launch whose settings could not be read
  runs the default model (`mgr.model = DefaultModel`).
- *Tuning and models*: requests that cross read old newest rows, reload from them and restart with them (`alone`,
  `smooth`); values of CodeAsk are not loaded at a start (`ReloadedIsNewest`) nor are intervals scheduled again, which
  `docs/v1.0.5/plans/m1-dashboard-management.md:82` admits; a crash between the commit of a switch and the removal
  of the vectors leaves those of the old model.
- *LLM configurations*: choosing the default again while another takes it leaves none; the outcome of a test of the old
  content is stored after an update (both without `apart`); other constraint errors are told as a name that is taken.
- *Repositories*: a location changed during a clone, two jobs in one directory, a deletion during a clone (without
  `lone`); a job lost to a restart leaves "cloning", which the hourly refresh skips (`lost`); a worktree that is in use
  is cleaned up by its age.
- *Logins*: of two changes that read one `auth_version` the sessions of the other stay valid, with the chats begun in
  them meanwhile (`crossed`); an anonymous
  chat whose request was under way during the login is left behind (`strays`); the cookie's age is fixed though the
  session is renewed, and expired rows are never removed.

## 9. Not modelled

The table in section 1 and `components` in `PROJECT.json` name every part. A part is left out because it computes
on text (search index and chunking, code search, payloads of LLM clients, parsing of documents, report Markdown),
only reads (metrics, dashboards, listings), holds rows nothing else depends on (skills, feature pages), or is not
part of the program's logic (frontend, migrations).

Within the modelled parts: search and read calls of OpenViking, events and listings that only report, secrets other
than that they are kept, and retention of log files. Of an opencode turn: reasoning tags, tool calls and how the server
works on a prompt; it is assumed that opencode is not reported idle before its turn has begun. What a departed client
or a deletion leaves in the server's storage is not removed by any code; `KeptReclaimed` is checked without them. Of
the wiki: who may write, and the assets inside documents. Of the report draft: how its features are
inferred (any choice is possible). Of LLM configurations: names and `enabled`. Of repositories: the links in a session's
directory. Of logins: grants of feature administrators and the audit log. The parts of `MCWiki` and `MCPlatform`
are not composed with each other: where they meet (a chat's turn calls the gateway, an import makes nodes of the
tree, a tree change makes a projection) the one takes any behaviour of the other.

--------------------------- MODULE OpencodeSessions ---------------------------
(***************************************************************************)
(* How a chat session keeps its opencode session.                          *)
(*                                                                         *)
(* A chat session is bound to one opencode session (a key in the server's  *)
(* storage) and to one workspace directory with an opencode.json.  A turn  *)
(* reads the binding row, repairs directory and configuration, and writes  *)
(* the row again, over a dozen awaits; two scheduler jobs in threads of    *)
(* their own clean the directories of idle sessions and expire the history *)
(* of old ones; users delete sessions.  Nothing locks any of it.           *)
(***************************************************************************)
EXTENDS Naturals, FiniteSets

CONSTANTS
    Sessions,   \* chat session ids
    Turns,      \* posts under way at a time
    Keys,       \* opencode session ids in use at a time
    Configs,    \* provider blocks of opencode.json
    MaxFaults,  \* bound: failed calls, restarts of the server or of CodeAsk
    NoFile,     \* a workspace directory without opencode.json
    None        \* no directory, no row, no instance, no key

ASSUME MaxFaultsAssumption == MaxFaults \in Nat
ASSUME NoneAssumption == None \notin Sessions \cup Keys \cup Configs
ASSUME NoFileAssumption == NoFile \notin Configs \cup {None}

VARIABLES
    chat,      \* sessions with a row in the sessions table
    binding,   \* binding[s]: the row of external_agent_sessions, or None
    dir,       \* dir[s]: None, or what opencode.json holds in the workspace
    loaded,    \* loaded[s]: configuration of the server's cached instance
    history,   \* history[k]: the chat session whose history the server has
    turn,      \* turn[t]: the local state of a post
    sweep,     \* sweep[j]: the local state of a scheduler job
    deleting,  \* sessions whose row is gone and whose directories are not
    faults     \* failures used up so far

vars == <<chat, binding, dir, loaded, history, turn, sweep, deleting, faults>>

-----------------------------------------------------------------------------

Statuses == {"active", "cleaned", "expired"}   \* nothing writes "error"

Row == [status : Statuses,
        key    : Keys,                       \* external_session_key
        config : Configs,                    \* config_json["provider"]
        server : {"current", "stale"},       \* server_url and pid
        age    : {"fresh", "idle", "old"}]   \* updated_at against TTL, retention

ASSUME NoRowAssumption == None \notin Row

Jobs == {"cleanup", "expiry"}

TurnIdle == [pc |-> "idle", s |-> None, config |-> None, seen |-> None,
             key |-> None, server |-> "current", ambient |-> FALSE,
             persist |-> TRUE, ran |-> None]
TurnState ==
    [pc : {"idle", "prepare", "read", "write", "probe", "dispose", "update",
           "create", "insert", "prompt", "running"},
     s : Sessions \cup {None}, config : Configs \cup {None}, seen : Row \cup {None},
     key : Keys \cup {None}, server : {"current", "stale"}, ambient : BOOLEAN,
     persist : BOOLEAN, ran : Configs \cup {NoFile, None}]

SweepIdle == [pc |-> "idle", todo |-> {}, s |-> None]
SweepState ==
    [pc : {"idle", "act", "mark"}, todo : SUBSET Sessions, s : Sessions \cup {None}]

Fault == faults < MaxFaults /\ faults' = faults + 1

TurnAt(t, fields) == turn' = [turn EXCEPT ![t] = fields]
TurnEnds(t) == TurnAt(t, TurnIdle)
Goto(t, pc) == TurnAt(t, [turn[t] EXCEPT !.pc = pc])

\* An UPDATE is issued, and updated_at set, only if some column changes.
Rewritten(b, new, changed) ==
    IF changed \/ new # [b EXCEPT !.age = new.age] THEN [new EXCEPT !.age = "fresh"] ELSE b

-----------------------------------------------------------------------------
(* initialize_session: a turn prepares the workspace and finds its binding. *)

\* Directories are made when something is to be written in them.
Made(s) == [dir EXCEPT ![s] = IF @ = None THEN NoFile ELSE @]

Post(t, s, c) ==
    /\ turn[t].pc = "idle"
    /\ s \in chat
    /\ TurnAt(t, [TurnIdle EXCEPT !.pc = "prepare", !.s = s, !.config = c])
    /\ UNCHANGED <<chat, binding, dir, loaded, history, sweep, deleting, faults>>

\* prepare_workspace and ensure_server; the health check follows.
PrepareWorkspace(t) ==
    /\ turn[t].pc = "prepare"
    /\ dir' = Made(turn[t].s)
    /\ TurnAt(t, [turn[t] EXCEPT !.pc = "read", !.server = "current"])
    /\ UNCHANGED <<chat, binding, loaded, history, sweep, deleting, faults>>

\* Mutant of ReadBinding: only an active binding is resumed.
ReadActiveBinding(t) ==
    /\ turn[t].pc = "read"
    /\ LET b == binding[turn[t].s] IN
       IF b # None /\ b.status = "expired" THEN TurnEnds(t)
       ELSE TurnAt(t, [turn[t] EXCEPT !.pc = "write",
                          !.seen = IF b # None /\ b.status = "active" THEN b ELSE None])
    /\ UNCHANGED <<chat, binding, dir, loaded, history, sweep, deleting, faults>>

\* An expired session is reported, not resumed.
ReadBinding(t) ==
    /\ turn[t].pc = "read"
    /\ LET b == binding[turn[t].s] IN
       IF b # None /\ b.status = "expired" THEN TurnEnds(t)
       ELSE TurnAt(t, [turn[t] EXCEPT !.pc = "write", !.seen = b])
    /\ UNCHANGED <<chat, binding, dir, loaded, history, sweep, deleting, faults>>

ProviderChanged(t) == turn[t].seen = None \/ turn[t].seen.config # turn[t].config

\* Mutant of MustWrite: a file that was cleaned away is not written again.
MustWriteChanged(t) == ProviderChanged(t)

MustWrite(t) == ProviderChanged(t) \/ dir[turn[t].s] = NoFile

NeedsProbe(b) == b.status # "active" \/ b.server # "current"

\* ambient: what else the file holds (ports, tokens) has changed.  Writing
\* into a directory that has been removed meanwhile ends the turn.
WriteConfig(t) ==
    /\ turn[t].pc = "write"
    /\ \E ambient \in BOOLEAN :
         LET s == turn[t].s
             next == CASE turn[t].seen = None -> "create"
                       [] turn[t].seen # None /\ NeedsProbe(turn[t].seen) -> "probe"
                       [] OTHER -> IF ProviderChanged(t) THEN "dispose" ELSE "update"
         IN IF dir[s] = None THEN TurnEnds(t) /\ UNCHANGED dir
            ELSE /\ TurnAt(t, [turn[t] EXCEPT !.pc = next, !.ambient = ambient])
                 /\ dir' = IF ambient \/ MustWrite(t)
                             THEN [dir EXCEPT ![s] = turn[t].config] ELSE dir
    /\ UNCHANGED <<chat, binding, loaded, history, sweep, deleting, faults>>

\* A call to a server that has been restarted meanwhile fails.
Reaches(t) == turn[t].server = "current"

\* A call for a directory without an instance makes one from its file.
Booted(s) ==
    [loaded EXCEPT ![s] = IF @ # None THEN @ ELSE IF dir[s] = None THEN NoFile ELSE dir[s]]

\* A session that cannot be resumed is logged and reported.
Probe(t) ==
    /\ turn[t].pc = "probe"
    /\ loaded' = IF Reaches(t) THEN Booted(turn[t].s) ELSE loaded
    /\ IF Reaches(t) /\ history[turn[t].seen.key] # None
         THEN Goto(t, IF ProviderChanged(t) THEN "dispose" ELSE "update") /\ UNCHANGED dir
         ELSE TurnEnds(t) /\ dir' = Made(turn[t].s)
    /\ UNCHANGED <<chat, binding, history, sweep, deleting, faults>>

Dispose(t) ==
    /\ turn[t].pc = "dispose"
    /\ Reaches(t)
    /\ loaded' = [loaded EXCEPT ![turn[t].s] = None]
    /\ Goto(t, "update")
    /\ UNCHANGED <<chat, binding, dir, history, sweep, deleting, faults>>

\* Mutant of DisposeFails: the new fingerprint is recorded all the same.
DisposeFailsUnnoticed(t) ==
    /\ turn[t].pc = "dispose"
    /\ IF Reaches(t) THEN Fault ELSE UNCHANGED faults
    /\ Goto(t, "update")
    /\ UNCHANGED <<chat, binding, dir, loaded, history, sweep, deleting>>

\* Best effort: the turn goes on, and the new fingerprint is not recorded.
DisposeFails(t) ==
    /\ turn[t].pc = "dispose"
    /\ IF Reaches(t) THEN Fault ELSE UNCHANGED faults
    /\ TurnAt(t, [turn[t] EXCEPT !.pc = "update", !.persist = FALSE])
    /\ UNCHANGED <<chat, binding, dir, loaded, history, sweep, deleting>>

\* The reuse is logged; then update_server_binding, whatever the status of the
\* row is by now.
UpdateBinding(t) ==
    /\ turn[t].pc = "update"
    /\ dir' = Made(turn[t].s)
    /\ LET s   == turn[t].s
           b   == binding[s]
           new == [b EXCEPT !.status = "active", !.server = turn[t].server,
                            !.config = IF turn[t].persist THEN turn[t].config ELSE @]
           row == Rewritten(b, new, turn[t].ambient /\ turn[t].persist)
       IN IF b = None THEN TurnEnds(t) /\ UNCHANGED binding
          ELSE /\ binding' = [binding EXCEPT ![s] = row]
               /\ TurnAt(t, [turn[t] EXCEPT !.pc = "prompt", !.key = b.key])
    /\ UNCHANGED <<chat, loaded, history, sweep, deleting, faults>>

\* A key nothing refers to stands for one never handed out.
KeyOf(b) == IF b = None THEN None ELSE b.key
Fresh(k) ==
    /\ history[k] = None
    /\ \A s \in Sessions : KeyOf(binding[s]) # k
    /\ \A t \in Turns : turn[t].key # k /\ KeyOf(turn[t].seen) # k

CreateSession(t, k) ==
    /\ turn[t].pc = "create"
    /\ Reaches(t)
    /\ Fresh(k)
    /\ history' = [history EXCEPT ![k] = turn[t].s]
    /\ loaded' = Booted(turn[t].s)
    /\ TurnAt(t, [turn[t] EXCEPT !.pc = "insert", !.key = k])
    /\ UNCHANGED <<chat, binding, dir, sweep, deleting, faults>>

CreateFails(t) ==
    /\ turn[t].pc = "create"
    /\ IF Reaches(t) THEN Fault ELSE UNCHANGED faults
    /\ TurnEnds(t)
    /\ UNCHANGED <<chat, binding, dir, loaded, history, sweep, deleting>>

\* upsert: inserts, overwrites a row that came in between, or fails because
\* the session has been deleted.
InsertBinding(t) ==
    /\ turn[t].pc = "insert"
    /\ LET s == turn[t].s IN
       IF s \notin chat THEN TurnEnds(t) /\ UNCHANGED binding
       ELSE /\ binding' = [binding EXCEPT ![s] =
                  [status |-> "active", key |-> turn[t].key, config |-> turn[t].config,
                   server |-> turn[t].server, age |-> "fresh"]]
            /\ Goto(t, "prompt")
    /\ UNCHANGED <<chat, dir, loaded, history, sweep, deleting, faults>>

-----------------------------------------------------------------------------
(* run_turn: prompt the server, then follow its events. *)

\* The context file is written first, into a directory made anew if need be.
\* The server is asked for again, so a restart since does not matter.
Prompt(t) ==
    /\ turn[t].pc = "prompt"
    /\ dir' = Made(turn[t].s)
    /\ loaded' = Booted(turn[t].s)
    /\ IF history[turn[t].key] = None THEN TurnEnds(t)
       ELSE TurnAt(t, [turn[t] EXCEPT !.pc = "running", !.ran = loaded'[turn[t].s]])
    /\ UNCHANGED <<chat, binding, history, sweep, deleting, faults>>

\* An event is appended to the session's log, whose directory is made anew.
StreamEvent(t) ==
    /\ turn[t].pc = "running"
    /\ dir[turn[t].s] = None
    /\ dir' = Made(turn[t].s)
    /\ UNCHANGED <<chat, binding, loaded, history, turn, sweep, deleting, faults>>

\* Done, error, or one of the two timeouts.
StreamEnds(t) ==
    /\ turn[t].pc = "running"
    /\ TurnEnds(t)
    /\ UNCHANGED <<chat, binding, dir, loaded, history, sweep, deleting, faults>>

TurnStep(t) ==
    \/ PrepareWorkspace(t) \/ ReadBinding(t) \/ WriteConfig(t) \/ Probe(t)
    \/ Dispose(t) \/ UpdateBinding(t) \/ InsertBinding(t) \/ Prompt(t)
    \/ StreamEvent(t) \/ StreamEnds(t)
    \/ \E k \in Keys : CreateSession(t, k)

\* The client goes away at one of the awaits.
Cancel(t) ==
    /\ turn[t].pc # "idle"
    /\ TurnEnds(t)
    /\ UNCHANGED <<chat, binding, dir, loaded, history, sweep, deleting, faults>>

-----------------------------------------------------------------------------
(* The scheduler's jobs: list once, then act and mark session by session. *)

SweepAt(j, fields) == sweep' = [sweep EXCEPT ![j] = fields]
NextSession(j) == SweepAt(j, [sweep[j] EXCEPT !.pc = "act", !.s = None])

\* Mutant of Listed: cleaned sessions never expire.
ListedActive(j) ==
    {s \in Sessions : /\ binding[s] # None
                      /\ binding[s].status = "active"
                      /\ binding[s].age \in IF j = "cleanup" THEN {"idle", "old"} ELSE {"old"}}

Listed(j) ==
    IF j = "cleanup"
      THEN {s \in Sessions : /\ binding[s] # None
                             /\ binding[s].status = "active"
                             /\ binding[s].age # "fresh"}
      ELSE {s \in Sessions : /\ binding[s] # None
                             /\ binding[s].status \in {"active", "cleaned"}
                             /\ binding[s].age = "old"}

StartSweep(j) ==
    /\ sweep[j].pc = "idle"
    /\ SweepAt(j, [pc |-> "act", todo |-> Listed(j), s |-> None])
    /\ UNCHANGED <<chat, binding, dir, loaded, history, turn, deleting, faults>>

CleanSession(s) ==
    /\ sweep["cleanup"].pc = "act"
    /\ s \in sweep["cleanup"].todo
    /\ dir' = [dir EXCEPT ![s] = None]
    /\ SweepAt("cleanup", [pc |-> "mark", todo |-> sweep["cleanup"].todo \ {s}, s |-> s])
    /\ UNCHANGED <<chat, binding, loaded, history, turn, deleting, faults>>

\* expire_session reads the binding again and removes the history of its key.
ExpireSession(s) ==
    /\ sweep["expiry"].pc = "act"
    /\ s \in sweep["expiry"].todo
    /\ history' = IF binding[s] = None THEN history
                  ELSE [history EXCEPT ![binding[s].key] = None]
    /\ SweepAt("expiry", [pc |-> "mark", todo |-> sweep["expiry"].todo \ {s}, s |-> s])
    /\ UNCHANGED <<chat, binding, dir, loaded, turn, deleting, faults>>

\* Mutant of ExpireFails: what could not be removed is marked all the same.
ExpireFailsSilently(s) ==
    /\ sweep["expiry"].pc = "act"
    /\ s \in sweep["expiry"].todo
    /\ Fault
    /\ SweepAt("expiry", [pc |-> "mark", todo |-> sweep["expiry"].todo \ {s}, s |-> s])
    /\ UNCHANGED <<chat, binding, dir, loaded, history, turn, deleting>>

\* Mutant of ExpireFails: what could not be removed is marked as an error.
ExpireFailsAsError(s) ==
    /\ sweep["expiry"].pc = "act"
    /\ s \in sweep["expiry"].todo
    /\ Fault
    /\ binding' = [r \in Sessions |-> IF r = s /\ binding[s] # None
                     THEN [binding[s] EXCEPT !.status = "error"] ELSE binding[r]]
    /\ SweepAt("expiry", [sweep["expiry"] EXCEPT !.todo = @ \ {s}])
    /\ UNCHANGED <<chat, dir, loaded, history, turn, deleting>>

\* Not marked: the next sweep tries again.
ExpireFails(s) ==
    /\ sweep["expiry"].pc = "act"
    /\ s \in sweep["expiry"].todo
    /\ Fault
    /\ SweepAt("expiry", [sweep["expiry"] EXCEPT !.todo = @ \ {s}])
    /\ UNCHANGED <<chat, binding, dir, loaded, history, turn, deleting>>

\* mark_cleaned and mark_expired do not ask what the status is by now.
Mark(j) ==
    /\ sweep[j].pc = "mark"
    /\ LET s == sweep[j].s
           b == binding[s]
           new == [b EXCEPT !.status = IF j = "cleanup" THEN "cleaned" ELSE "expired",
                            !.server = "stale"]
       IN binding' = IF b = None THEN binding
                     ELSE [binding EXCEPT ![s] = Rewritten(b, new, FALSE)]
    /\ NextSession(j)
    /\ UNCHANGED <<chat, dir, loaded, history, turn, deleting, faults>>

EndSweep(j) ==
    /\ sweep[j].pc = "act"
    /\ sweep[j].todo = {}
    /\ SweepAt(j, SweepIdle)
    /\ UNCHANGED <<chat, binding, dir, loaded, history, turn, deleting, faults>>

SweepStep(j) == StartSweep(j) \/ Mark(j) \/ EndSweep(j)

SweepsStep ==
    \/ \E j \in Jobs : SweepStep(j)
    \/ \E s \in Sessions : CleanSession(s) \/ ExpireSession(s)

-----------------------------------------------------------------------------
(* Deletion, clocks and restarts. *)

\* The binding row goes with the session's row; the turn is not aborted.
DeleteSession(s) ==
    /\ s \in chat
    /\ chat' = chat \ {s}
    /\ binding' = [binding EXCEPT ![s] = None]
    /\ deleting' = deleting \cup {s}
    /\ UNCHANGED <<dir, loaded, history, turn, sweep, faults>>

RemoveDirs(s) ==
    /\ s \in deleting
    /\ dir' = [dir EXCEPT ![s] = None]
    /\ deleting' = deleting \ {s}
    /\ UNCHANGED <<chat, binding, loaded, history, turn, sweep, faults>>

NoTurn(s) == \A t \in Turns : turn[t].s # s
NoJob(s)  == \A j \in Jobs : s \notin sweep[j].todo \cup {sweep[j].s}

\* TTL and retention are longer than a turn or a sweep, so hours and days pass
\* while neither is at work on s; retention is longer than the cleanup job needs
\* to find an idle row.
RowAges(s) ==
    /\ binding[s] # None
    /\ NoTurn(s) /\ NoJob(s)
    /\ \/ /\ binding[s].age = "fresh"
          /\ binding' = [binding EXCEPT ![s].age = "idle"]
       \/ /\ binding[s].age = "idle" /\ binding[s].status # "active"
          /\ binding' = [binding EXCEPT ![s].age = "old"]
    /\ UNCHANGED <<chat, dir, loaded, history, turn, sweep, deleting, faults>>

Stale(b) == IF b = None THEN None ELSE [b EXCEPT !.server = "stale"]

\* The opencode process is replaced: rows and handles name the old one.
ServerRestarts ==
    /\ Fault
    /\ loaded' = [s \in Sessions |-> None]
    /\ binding' = [s \in Sessions |-> Stale(binding[s])]
    /\ turn' = [t \in Turns |-> [turn[t] EXCEPT !.server = "stale", !.seen = Stale(@)]]
    /\ UNCHANGED <<chat, dir, history, sweep, deleting>>

\* CodeAsk goes down and takes the server with it.
Crash ==
    /\ Fault
    /\ loaded' = [s \in Sessions |-> None]
    /\ binding' = [s \in Sessions |-> Stale(binding[s])]
    /\ turn' = [t \in Turns |-> TurnIdle]
    /\ sweep' = [j \in Jobs |-> SweepIdle]
    /\ deleting' = {}
    /\ UNCHANGED <<chat, dir, history>>

-----------------------------------------------------------------------------

Init ==
    /\ chat = Sessions
    /\ binding = [s \in Sessions |-> None]
    /\ dir = [s \in Sessions |-> None]
    /\ loaded = [s \in Sessions |-> None]
    /\ history = [k \in Keys |-> None]
    /\ turn = [t \in Turns |-> TurnIdle]
    /\ sweep = [j \in Jobs |-> SweepIdle]
    /\ deleting = {}
    /\ faults = 0

Posts == \E t \in Turns, s \in Sessions, c \in Configs : Post(t, s, c)

\* What goes on without failures, departures and deletions.
Normal ==
    \/ Posts
    \/ \E t \in Turns : TurnStep(t)
    \/ SweepsStep
    \/ \E s \in Sessions : RowAges(s)

Deletions == \E s \in Sessions : DeleteSession(s) \/ RemoveDirs(s)

CallsFail ==
    \/ \E t \in Turns : DisposeFails(t) \/ CreateFails(t)
    \/ \E s \in Sessions : ExpireFails(s)

Next ==
    \/ Normal \/ Deletions \/ CallsFail \/ ServerRestarts \/ Crash
    \/ \E t \in Turns : Cancel(t)

Spec == Init /\ [][Next]_vars

-----------------------------------------------------------------------------
(* Restrictions under which a promise is true, and fairness. *)

NoJobs == deleting = {} /\ \A j \in Jobs : sweep[j].pc = "idle"
NoTurns == \A t \in Turns : turn[t].pc = "idle"

Turning == \/ Posts
           \/ \E t \in Turns : TurnStep(t)
           \/ \E s \in Sessions : RowAges(s)
Cleaning == \/ SweepsStep \/ Deletions
            \/ \E s \in Sessions : ExpireFails(s)

\* Whatever disturbs a turn happens between turns, and no turn is given up.
Calm == \/ NoJobs /\ Turning
        \/ NoTurns /\ (Cleaning \/ ServerRestarts \/ Crash)
CalmSpec == Init /\ [][Calm]_vars

\* The server stays up, but fails to dispose of instances.
Stuck == \/ NoJobs /\ (Turning \/ \E t \in Turns : DisposeFails(t))
         \/ NoTurns /\ Cleaning
StuckSpec == Init /\ [][Stuck]_vars

\* Nobody deletes a session or walks away from a turn, and CodeAsk stays up.
Kept == Normal \/ CallsFail \/ ServerRestarts

\* Awaits return, streams end by their timeouts, jobs run at every interval,
\* and rows grow old.
Fairness ==
    /\ \A t \in Turns : WF_vars(TurnStep(t)) /\ WF_vars(StreamEnds(t))
    /\ \A j \in Jobs : WF_vars(SweepStep(j))
    /\ \A s \in Sessions :
          /\ WF_vars(CleanSession(s)) /\ WF_vars(ExpireSession(s))
          /\ WF_vars(RowAges(s))

FairKept == Init /\ [][Kept]_vars /\ Fairness

-----------------------------------------------------------------------------
(* Properties. *)

\* Rows, files and the actors' local variables keep their shape; no row is ever
\* marked as an error, which expiry would never pick up.
TypeOK ==
    /\ chat \subseteq Sessions
    /\ binding \in [Sessions -> Row \cup {None}]
    /\ dir \in [Sessions -> Configs \cup {NoFile, None}]
    /\ loaded \in [Sessions -> Configs \cup {NoFile, None}]
    /\ history \in [Keys -> Sessions \cup {None}]
    /\ turn \in [Turns -> TurnState]
    /\ sweep \in [Jobs -> SweepState]
    /\ deleting \subseteq Sessions
    /\ faults \in 0 .. MaxFaults

\* "Created once and resumed forever": as long as a chat session exists its
\* binding names the same opencode session, through cleaning, expiry, restarts
\* and changes of configuration (initialize_session, upsert).
KeyForever ==
    [][\A s \in Sessions :
         binding[s] # None /\ binding'[s] # None => binding'[s].key = binding[s].key]_vars

\* A row says expired only when the history it names is gone from the server:
\* a failed removal is not marked (expire_idle_sessions).
ExpiredHistoryIsGone ==
    \A s \in Sessions :
      binding[s] # None /\ binding[s].status = "expired" => history[binding[s].key] = None

\* A prompt is answered under the configuration its turn has chosen: neither an
\* instance cached for an earlier one nor an old or missing file is in the way
\* (the write, probe and dispose of initialize_session).
PromptUnderOwnConfig ==
    \A t \in Turns : turn[t].pc = "running" => turn[t].ran = turn[t].config

\* Between turns the row of a session names the configuration that its cached
\* instance has, so that the next turn sees whether it must be disposed of, also
\* when an earlier attempt failed (the withheld fingerprint of initialize_session).
InstanceIsKnown ==
    \A s \in Sessions :
      NoTurn(s) /\ binding[s] # None => loaded[s] \in {None, binding[s].config}

\* The server does not keep the history of chat sessions nobody uses: once there
\* are no more turns, idle cleanup and expiry remove all of it (cleanup.py).
HistoryReclaimed ==
    \A s \in Sessions : <>[]NoTurn(s) => <>[](\A k \in Keys : history[k] # s)

\* Expired is terminal: the row never leaves it, except with its session
\* (initialize_session, update_server_binding, mark_cleaned).
ExpiredIsTerminal ==
    [][\A s \in Sessions :
         /\ binding[s] # None /\ binding[s].status = "expired"
         /\ binding'[s] # None
         => binding'[s].status = "expired"]_vars

=============================================================================

-------------------------- MODULE OpenVikingTuning --------------------------
(***************************************************************************)
(* The tuning parameters of OpenViking and of its synchronisation          *)
(* (api/openviking_tuning.py, rag/openviking/tuning.py).  Rows are only    *)
(* appended, and the newest of a parameter counts.  A request reads the    *)
(* newest rows, commits its changes, and then takes what it has changed    *)
(* to where it is used: the parameters of CodeAsk to the settings in       *)
(* memory, those of the server to ov.conf and a restart.                   *)
(***************************************************************************)
EXTENDS NoValue, Naturals, Sequences, FiniteSets, SequencesExt

CONSTANTS
    ServerKeys,  \* parameters of scope "openviking"
    AppKeys,     \* parameters of scope "codeask"
    TuneLimit,       \* the values 1 .. TuneLimit are in range
    EnvValue,    \* what the environment gives CodeAsk for its parameters
    Wishes,      \* the lists of changes that are asked for
    Tuners,      \* requests that can be open at a time
    MaxRows      \* bound: rows after which no request is made

ASSUME TuningAssumption ==
    /\ TuneLimit \in Nat \ {0} /\ EnvValue \in 1 .. TuneLimit
    /\ IsFiniteSet(ServerKeys) /\ IsFiniteSet(AppKeys)
    /\ Wishes \subseteq Seq([key : ServerKeys \cup AppKeys, value : Nat])

TuneKeys == ServerKeys \cup AppKeys
\* validate_tuning_value
\* Mutant of InRange: one more is let in.
InRangeNext(v) == v \in 1 .. TuneLimit + 1
InRange(v) == v \in 1 .. TuneLimit
TuneDefault == 1

VARIABLES
    tuneRows,   \* the rows of openviking_tuning_settings, in the order of their ids
    inMemory,   \* app.state.settings
    served,     \* ov.conf, with which the server was launched last
    tuners,     \* the requests
    reloaded,   \* history: this process has taken a row to its settings
    alone       \* one request is over before the next begins

tuningVars == <<tuneRows, inMemory, served, tuners, reloaded, alone>>

NotTuning == [at |-> "idle", wishes |-> <<>>, seen |-> <<>>, changed |-> {}]

\* latest_tuning_rows: of each parameter the row with the greatest id.
NewestRow(rows, k) == rows[CHOOSE i \in DOMAIN rows :
    rows[i].key = k /\ \A j \in DOMAIN rows : rows[j].key = k => j <= i]
LatestTuning == [k \in TuneKeys |-> NewestRow(tuneRows, k).value]

TuningInit ==
    /\ tuneRows = [i \in DOMAIN SetToSeq(TuneKeys) |->
         [key |-> SetToSeq(TuneKeys)[i], value |-> TuneDefault, previous |-> None]]
    /\ inMemory = [k \in AppKeys |-> EnvValue]
    /\ served = [k \in ServerKeys |-> TuneDefault]
    /\ tuners = [r \in Tuners |-> NotTuning]
    /\ reloaded = FALSE /\ alone \in BOOLEAN

-----------------------------------------------------------------------------
TunerOpens(r) ==
    /\ tuners[r].at = "idle" /\ Len(tuneRows) < MaxRows
    /\ alone => \A other \in Tuners : tuners[other].at = "idle"

AskTuning(r, wishes) ==
    /\ TunerOpens(r)
    /\ tuners' = [tuners EXCEPT ![r] =
         [at |-> "read", wishes |-> wishes, seen |-> LatestTuning, changed |-> {}]]
    /\ UNCHANGED <<tuneRows, inMemory, served, reloaded, alone>>

\* apply_openviking_tuning_preset: a value for each parameter of both scopes.
AskPreset(r, v) ==
    AskTuning(r, SetToSeq({[key |-> k, value |-> v] : k \in TuneKeys}))

\* A rollback wishes for the value before, as it reads it first.
AskRollback(r, k) ==
    LET previous == NewestRow(tuneRows, k).previous IN
    /\ TunerOpens(r) /\ previous # None
    /\ tuners' = [tuners EXCEPT ![r] =
         [at |-> "back", wishes |-> <<[key |-> k, value |-> previous]>>,
          seen |-> <<>>, changed |-> {}]]
    /\ UNCHANGED <<tuneRows, inMemory, served, reloaded, alone>>
ReadAgain(r) ==
    /\ tuners[r].at = "back"
    /\ tuners' = [tuners EXCEPT ![r].at = "read", ![r].seen = LatestTuning]
    /\ UNCHANGED <<tuneRows, inMemory, served, reloaded, alone>>

\* The loop over the changes: one that is out of range is rejected, one that
\* changes nothing is passed over, and the others are seen by those after them.
\* Mutant of TakeChange: what changes nothing is stored too.
TakeEveryChange(done, wish) ==
    IF ~InRange(wish.value) THEN done
    ELSE [rows |-> Append(done.rows, [key |-> wish.key, value |-> wish.value,
                                      previous |-> done.seen[wish.key]]),
          seen |-> [done.seen EXCEPT ![wish.key] = wish.value]]
TakeChange(done, wish) ==
    IF ~InRange(wish.value) \/ done.seen[wish.key] = wish.value THEN done
    ELSE [rows |-> Append(done.rows, [key |-> wish.key, value |-> wish.value,
                                      previous |-> done.seen[wish.key]]),
          seen |-> [done.seen EXCEPT ![wish.key] = wish.value]]

TakenChanges(r) ==
    LET wishes == tuners[r].wishes
        done[n \in 0 .. Len(wishes)] ==
          IF n = 0 THEN [rows |-> <<>>, seen |-> tuners[r].seen]
          ELSE TakeChange(done[n - 1], wishes[n])
    IN done[Len(wishes)]

CommitTuning(r) ==
    LET done == TakenChanges(r) IN
    /\ tuners[r].at = "read"
    /\ tuneRows' = tuneRows \o done.rows
    /\ tuners' = [tuners EXCEPT ![r] =
         IF done.rows = <<>> THEN NotTuning
         ELSE [at |-> "saved", wishes |-> <<>>, seen |-> done.seen,
               changed |-> {done.rows[i].key : i \in DOMAIN done.rows}]]
    /\ UNCHANGED <<inMemory, served, reloaded, alone>>

\* _reload_codeask_tuning takes all parameters of CodeAsk from what the request
\* has seen, if it has changed one of them.
\* Mutant of ReloadTuning: it takes those that were changed.
ReloadTaken(r) ==
    /\ tuners[r].at = "saved"
    /\ inMemory' = [k \in AppKeys |-> IF k \in tuners[r].changed THEN tuners[r].seen[k]
                                      ELSE inMemory[k]]
    /\ reloaded' = (reloaded \/ tuners[r].changed \cap AppKeys # {})
    /\ tuners' = [tuners EXCEPT ![r] =
         IF @.changed \cap ServerKeys = {} THEN NotTuning ELSE [@ EXCEPT !.at = "reloaded"]]
    /\ UNCHANGED <<tuneRows, served, alone>>
ReloadTuning(r) ==
    /\ tuners[r].at = "saved"
    /\ IF tuners[r].changed \cap AppKeys = {} THEN UNCHANGED <<inMemory, reloaded>>
       ELSE inMemory' = [k \in AppKeys |-> tuners[r].seen[k]] /\ reloaded' = TRUE
    /\ tuners' = [tuners EXCEPT ![r] =
         IF @.changed \cap ServerKeys = {} THEN NotTuning ELSE [@ EXCEPT !.at = "reloaded"]]
    /\ UNCHANGED <<tuneRows, served, alone>>

\* runtime_config_from_active_settings reads the rows anew.
ReadConfig(r) ==
    /\ tuners[r].at = "reloaded"
    /\ tuners' = [tuners EXCEPT ![r].at = "configured", ![r].seen = LatestTuning]
    /\ UNCHANGED <<tuneRows, inMemory, served, reloaded, alone>>

\* regenerate_ov_conf and restart_openviking, with no await in between.
\* Mutant of RestartTuned: the server restarts with the file that is there.
RestartOnly(r) ==
    /\ tuners[r].at = "configured"
    /\ tuners' = [tuners EXCEPT ![r] = NotTuning]
    /\ UNCHANGED <<tuneRows, inMemory, served, reloaded, alone>>
RestartTuned(r) ==
    /\ tuners[r].at = "configured"
    /\ served' = [k \in ServerKeys |-> tuners[r].seen[k]]
    /\ tuners' = [tuners EXCEPT ![r] = NotTuning]
    /\ UNCHANGED <<tuneRows, inMemory, reloaded, alone>>

\* CodeAsk starts anew: the file is made from the rows, its own settings come
\* from the environment again.
StartAnew ==
    /\ tuners' = [r \in Tuners |-> NotTuning]
    /\ inMemory' = [k \in AppKeys |-> EnvValue]
    /\ served' = [k \in ServerKeys |-> LatestTuning[k]]
    /\ reloaded' = FALSE
    /\ UNCHANGED <<tuneRows, alone>>

TuningNext ==
    \/ \E r \in Tuners :
          \/ \E wishes \in Wishes : AskTuning(r, wishes)
          \/ \E v \in 1 .. TuneLimit : AskPreset(r, v)
          \/ \E k \in TuneKeys : AskRollback(r, k)
          \/ ReadAgain(r) \/ CommitTuning(r) \/ ReloadTuning(r) \/ ReadConfig(r) \/ RestartTuned(r)
    \/ StartAnew

-----------------------------------------------------------------------------
\* Every value that is stored or used is one that was in range.
TuningTypeOK ==
    /\ \A i \in DOMAIN tuneRows :
          tuneRows[i].key \in TuneKeys /\ tuneRows[i].value \in 1 .. TuneLimit
    /\ inMemory \in [AppKeys -> 1 .. TuneLimit] /\ served \in [ServerKeys -> 1 .. TuneLimit]
    /\ reloaded \in BOOLEAN /\ alone \in BOOLEAN
    /\ \A r \in Tuners : tuners[r].changed \subseteq TuneKeys

\* The history of a parameter is a chain: each row names the value of the row
\* before it and changes it, whatever one request asks for twice; a rollback
\* relies on it (rollback_openviking_tuning).
HistoryIsChain ==
    alone => \A i, j \in DOMAIN tuneRows :
       /\ i < j /\ tuneRows[i].key = tuneRows[j].key
       /\ \A m \in i + 1 .. j - 1 : tuneRows[m].key # tuneRows[i].key
       => tuneRows[j].previous = tuneRows[i].value /\ tuneRows[j].value # tuneRows[i].value

\* When nobody is at it the server runs with the newest rows, also after CodeAsk
\* went down between the commit and the restart of the server.
ServerRunsNewest ==
    alone /\ (\A r \in Tuners : tuners[r].at = "idle")
       => \A k \in ServerKeys : served[k] = LatestTuning[k]

\* Once a parameter of CodeAsk was changed in this process, all of them are those
\* of the newest rows (_reload_codeask_tuning); before that they are those of the
\* environment, whatever the rows say.
ReloadedIsNewest ==
    alone /\ (\A r \in Tuners : tuners[r].at = "idle")
       => \A k \in AppKeys : inMemory[k] = IF reloaded THEN LatestTuning[k] ELSE EnvValue
=============================================================================

----------------------------- MODULE LLMConfigs -----------------------------
(***************************************************************************)
(* The LLM configurations (llm/repo.py, llm/api_service.py and             *)
(* api/llm_configs.py): per scope, the global one or a user's, one default *)
(* at most; per configuration the outcome of its last test, kept in its    *)
(* row and in its opencode adapter.  A request reads the row, and its      *)
(* commit writes the columns that differ from what it read; a test waits   *)
(* for opencode in between.  "content" is what the model is called with:   *)
(* mode, provider, URL, key, headers, model and reasoning profile.         *)
(***************************************************************************)
EXTENDS NoValue

CONSTANTS
    ConfigIds,   \* bound: rows at a time
    Scopes,      \* the global scope and the users with one of their own
    Contents,
    Admins       \* requests that can be open at a time

VARIABLES
    configs,     \* id -> its row, or None
    work,        \* per request what it is doing
    apart        \* from its first read to its commit a request is alone, and what
                 \* is being tested is left alone; when not, nothing is tested (a bound)

configVars == <<configs, work, apart>>

Verdicts == {"ok", "failed"}
\* default: is_default; on: the content of the last test; adapter: what the adapter
\* of opencode was told of it.
ConfigRow == [scope : Scopes, content : Contents, default : BOOLEAN,
              status : Verdicts \cup {"unknown"}, on : Contents \cup {None},
              adapter : Verdicts \cup {"unknown"}]
ASSUME ConfigsAssumption == None \notin BOOLEAN /\ None \notin ConfigRow

\* content, default: what a request changes them to; on: what is tested; row: what was read.
NoWork == [at |-> "idle", id |-> None, content |-> None, default |-> None, on |-> None,
           outcome |-> None, row |-> None]

Given(value, otherwise) == IF value = None THEN otherwise ELSE value
InScope(rows, scope) == {i \in ConfigIds : rows[i] # None /\ rows[i].scope = scope}
OneDefault(rows) ==
    \A scope \in Scopes : \A i, j \in InScope(rows, scope) :
        rows[i].default /\ rows[j].default => i = j

ConfigsInit ==
    /\ configs = [i \in ConfigIds |-> None]
    /\ work = [a \in Admins |-> NoWork] /\ apart \in BOOLEAN

-----------------------------------------------------------------------------
\* A commit is refused for a name that is taken, or for a second default.
Commits(rows) == configs' = configs \/ (OneDefault(rows) /\ configs' = rows)

\* Mutant of Unset: the row itself is not left out.
UnsetAll(rows, scope, id) ==
    [i \in ConfigIds |-> IF i \in InScope(rows, scope)
                         THEN [rows[i] EXCEPT !.default = FALSE] ELSE rows[i]]
\* Mutant of Unset: only the global scope has one.
UnsetOne(rows, scope, id) ==
    [i \in ConfigIds |-> IF i \in InScope(rows, scope) \ {id} /\ scope = CHOOSE s \in Scopes : TRUE
                         THEN [rows[i] EXCEPT !.default = FALSE] ELSE rows[i]]
\* The other defaults of the scope make way.
Unset(rows, scope, id) ==
    [i \in ConfigIds |-> IF i \in InScope(rows, scope) \ {id}
                         THEN [rows[i] EXCEPT !.default = FALSE] ELSE rows[i]]

\* LLMConfigRepo.create, of a draft that may have been tested; an id is never
\* used again, here while a request knows it.
CreateConfig(id, scope, content, default, status) ==
    /\ status # "unknown" => apart
    /\ configs[id] = None /\ \A a \in Admins : work[a].id # id
    /\ Commits([(IF default THEN Unset(configs, scope, id) ELSE configs) EXCEPT ![id] =
                  [scope |-> scope, content |-> content, default |-> default,
                   status |-> status, on |-> IF status = "unknown" THEN None ELSE content,
                   adapter |-> status]])
    /\ UNCHANGED <<work, apart>>

DeleteConfig(id) ==
    /\ configs[id] # None /\ configs' = [configs EXCEPT ![id] = None]
    /\ UNCHANGED <<work, apart>>

-----------------------------------------------------------------------------
Mid(b) == work[b].at = "loaded"
Alone == apart => \A b \in Admins : ~Mid(b)

\* Nobody works on what is being tested for another content, nor changes the
\* content of what is being tested.
Undisturbed(id, content) ==
    apart => \A b \in Admins : work[b].at = "testing" /\ work[b].id = id =>
                content = None /\ work[b].content = None

\* A draft is what would be saved: the fields that are given over the row.
Drafted(content, row) == Given(content, row.content)
Tests(a, id, content) ==
    /\ apart /\ Alone /\ work[a].at = "idle" /\ configs[id] # None
    /\ Undisturbed(id, content)
    /\ work' = [work EXCEPT ![a] =
         [NoWork EXCEPT !.at = "testing", !.id = id, !.content = content,
                        !.on = Drafted(content, configs[id])]]
    /\ UNCHANGED <<configs, apart>>
TestStored(a, id) == Tests(a, id, None)
TestDraft(a, id, content) == Tests(a, id, content)

\* Mutant of Loads: a row that is missing is not noticed.
LoadsAny(a, w) ==
    /\ Alone
    /\ work' = [work EXCEPT ![a] = [w EXCEPT !.at = "loaded", !.row = configs[w.id]]]
    /\ UNCHANGED <<configs, apart>>
\* The row is read, by an update at once or when a test is over; without one the
\* request ends.
Loads(a, w) ==
    /\ Alone
    /\ work' = [work EXCEPT ![a] = IF configs[w.id] = None THEN NoWork
                                   ELSE [w EXCEPT !.at = "loaded", !.row = configs[w.id]]]
    /\ UNCHANGED <<configs, apart>>
AskUpdateConfig(a, id, content, default) ==
    /\ work[a].at = "idle" /\ Undisturbed(id, content)
    /\ Loads(a, [NoWork EXCEPT !.id = id, !.content = content, !.default = default])
\* mark_opencode_provider_test_success and _failure
MarkOutcome(a, outcome) ==
    /\ work[a].at = "testing" /\ work[a].content = None
    /\ Loads(a, [work[a] EXCEPT !.outcome = outcome])
\* The draft is saved with the outcome of its test.
SaveDraft(a, outcome, default) ==
    /\ work[a].at = "testing" /\ work[a].content # None
    /\ Loads(a, [work[a] EXCEPT !.outcome = outcome, !.default = default])

\* Mutant of Reset: what is called may change under its outcome.
ResetNever(row, w) == FALSE
\* Another content has not been tested.
Reset(row, w) == Given(w.content, row.content) # row.content

\* The row as the request makes it.
Assigned(row, w) ==
    [row EXCEPT !.content = Given(w.content, @), !.default = Given(w.default, @),
                !.status = Given(w.outcome, IF Reset(row, w) THEN "unknown" ELSE @),
                !.on = IF w.outcome # None THEN w.on ELSE IF Reset(row, w) THEN None ELSE @]

\* The columns that were changed are written into the row as it is now.
Flushed(stored, read, row) ==
    [f \in DOMAIN stored |-> IF row[f] # read[f] THEN row[f] ELSE stored[f]]

\* Mutant of WithAdapter: one that exists is left alone.
WithAdapterKept(row, status) == row
\* upsert_runtime_adapter
WithAdapter(row, status) == [row EXCEPT !.adapter = status]

\* The rows after the commit of a.
Written(a) ==
    LET w    == work[a]
        made == Assigned(w.row, w)
        rest == IF w.default = TRUE THEN Unset(configs, w.row.scope, w.id) ELSE configs
    IN [rest EXCEPT ![w.id] = WithAdapter(Flushed(rest[w.id], w.row, made), made.status)]

\* A row that has gone meanwhile fails the request.
WriteRow(a) ==
    /\ Mid(a)
    /\ IF configs[work[a].id] = None
       THEN configs' = configs ELSE Commits(Written(a))
    /\ work' = [work EXCEPT ![a] = NoWork]
    /\ apart' = apart

ConfigsNext ==
    \/ \E id \in ConfigIds, scope \in Scopes, content \in Contents, default \in BOOLEAN,
         status \in Verdicts \cup {"unknown"} :
            Alone /\ CreateConfig(id, scope, content, default, status)
    \/ \E id \in ConfigIds : Alone /\ DeleteConfig(id)
    \/ \E a \in Admins, id \in ConfigIds :
          \/ TestStored(a, id)
          \/ \E content \in Contents : TestDraft(a, id, content)
          \/ \E content \in Contents \cup {None}, default \in BOOLEAN \cup {None} :
                AskUpdateConfig(a, id, content, default)
    \/ \E a \in Admins, outcome \in Verdicts :
          \/ MarkOutcome(a, outcome)
          \/ \E default \in BOOLEAN \cup {None} : SaveDraft(a, outcome, default)
    \/ \E a \in Admins : WriteRow(a)

-----------------------------------------------------------------------------
\* Rows and requests keep their shape.
ConfigsTypeOK ==
    /\ \A i \in ConfigIds : configs[i] # None => configs[i] \in ConfigRow
    /\ \A a \in Admins :
         /\ work[a].at \in {"idle", "testing", "loaded"}
         /\ work[a].at # "idle" => work[a].id \in ConfigIds
         /\ Mid(a) => work[a].row # None

\* No commit is refused for the index of defaults, whose error would be told as
\* a name that is taken: whatever requests overlap, the other defaults of the
\* scope make way in the same transaction.
DefaultsMakeWay ==
    /\ OneDefault(configs)
    /\ \A a \in Admins : Mid(a) /\ configs[work[a].id] # None => OneDefault(Written(a))

\* Row and adapter tell the same outcome, as the list shows the one and an update
\* answers with the other, while reads and writes of requests do not cross.
AdapterAgrees ==
    apart => \A i \in ConfigIds : configs[i] # None => configs[i].adapter = configs[i].status

\* An outcome is that of the present content, whatever was changed, tested and
\* saved before, while nobody changes what is being tested.
OutcomeIsOfContent ==
    apart => \A i \in ConfigIds : configs[i] # None /\ configs[i].status # "unknown" =>
                configs[i].on = configs[i].content

HasDefault(rows, scope) == \E i \in InScope(rows, scope) : rows[i].default
\* A scope loses its default only to a request that says so or deletes it, while
\* reads and writes do not cross: choosing the default again keeps it.
DefaultStays ==
    apart => \A scope \in Scopes :
      HasDefault(configs, scope) /\ ~HasDefault(configs', scope)
        => \/ \E a \in Admins : Mid(a) /\ work[a].default = FALSE
           \/ \E i \in ConfigIds : configs[i] # None /\ configs'[i] = None
=============================================================================

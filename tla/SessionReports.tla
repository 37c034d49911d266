--------------------------- MODULE SessionReports ---------------------------
(***************************************************************************)
(* The reports of one session (wiki/reports.py, api/reports.py and the     *)
(* report endpoints of api/sessions.py).  A request reads a row, and its   *)
(* commit writes the columns that differ from what it read and no others,  *)
(* so that two requests may each write half of a row.                      *)
(***************************************************************************)
EXTENDS NoValue, Integers, FiniteSets

CONSTANTS
    Editors,    \* requests that can be open at a time
    ReportIds   \* bound: ids of reports, counted from 1

ASSUME ReportsAssumption ==
    IsFiniteSet(ReportIds) /\ ReportIds = 1 .. Cardinality(ReportIds)

VARIABLES
    reports,    \* id -> its row, or None
    editing,    \* per request what it will do, and the row it has read
    orderly     \* requests come one after the other

reportVars == <<reports, editing, orderly>>

Statuses == {"draft", "verified", "rejected"}
Metas == {"bare", "backed"}    \* does the metadata pass _check_gate
ReportRows == [status : Statuses, verified : BOOLEAN, by : BOOLEAN, meta : Metas]
Draft(meta) == [status |-> "draft", verified |-> FALSE, by |-> FALSE, meta |-> meta]
NotEditing == [op |-> "none", id |-> 0, seen |-> None, row |-> None]

Present == {i \in ReportIds : reports[i] # None}
Newest == CHOOSE i \in Present : \A j \in Present : j <= i
NextId == IF Present = {} THEN 1 ELSE Newest + 1

ReportsInit ==
    /\ reports = [i \in ReportIds |-> None]
    /\ editing = [r \in Editors |-> NotEditing]
    /\ orderly \in BOOLEAN

-----------------------------------------------------------------------------
\* A request has read the row of id and intends to make it row.
Intend(r, op, id, row) ==
    /\ editing[r].op = "none"
    /\ orderly => \A other \in Editors : editing[other].op = "none"
    /\ editing' = [editing EXCEPT ![r] =
         [op |-> op, id |-> id, seen |-> IF id = 0 THEN None ELSE reports[id],
          row |-> row]]
    /\ UNCHANGED <<reports, orderly>>

\* merge_session_report_metadata: what the turns of the session can add.
Merged(meta) == {meta, "backed"}

\* update_draft: only a draft or a rejected report can be edited.
\* Mutant of AskUpdate: so can a verified one.
AskAnyUpdate(r, id, meta) ==
    Intend(r, "write", id, [reports[id] EXCEPT !.meta = meta])
AskUpdate(r, id, meta) ==
    /\ reports[id].status \in {"draft", "rejected"}
    /\ Intend(r, "write", id, [reports[id] EXCEPT !.meta = meta])

AskVerify(r, id) ==
    /\ "backed" \in Merged(reports[id].meta)
    /\ Intend(r, "write", id,
              [reports[id] EXCEPT !.meta = "backed", !.verified = TRUE,
                                  !.status = "verified", !.by = TRUE])

\* verified_by stays.
AskUnverify(r, id) ==
    Intend(r, "write", id, [reports[id] EXCEPT !.verified = FALSE, !.status = "draft"])

\* Mutant of AskReject: the flag is left as it is.
AskRejectStatus(r, id) ==
    Intend(r, "write", id, [reports[id] EXCEPT !.status = "rejected", !.by = FALSE])
AskReject(r, id) ==
    Intend(r, "write", id,
           [reports[id] EXCEPT !.verified = FALSE, !.status = "rejected", !.by = FALSE])

AskRemove(r, id) == Intend(r, "delete", id, None)

\* upsert_session_draft takes the newest report of the session back to a draft
\* and keeps its evidence; with none there it will make one.
AskGenerate(r) ==
    IF Present = {}
    THEN \E meta \in Merged("bare") : Intend(r, "generate", 0, Draft(meta))
    ELSE \E meta \in Merged(reports[Newest].meta) :
            Intend(r, "generate", Newest, Draft(meta))

-----------------------------------------------------------------------------
\* Mutant of Closes: what has been read stays in the session of the request.
ClosesUncleared(r) == editing' = [editing EXCEPT ![r].op = "none"]
Closes(r) == editing' = [editing EXCEPT ![r] = NotEditing]
\* What a commit makes of a row: the columns that the request has changed.
Changed(old, seen, row) == [c \in DOMAIN row |-> IF row[c] = seen[c] THEN old[c] ELSE row[c]]

\* A row that is gone fails the request.
CommitWrite(r) ==
    LET e == editing[r] IN
    /\ e.op = "write"
    /\ reports' = IF reports[e.id] = None THEN reports
                  ELSE [reports EXCEPT ![e.id] = Changed(@, e.seen, e.row)]
    /\ Closes(r) /\ UNCHANGED orderly

CommitRemove(r) ==
    LET e == editing[r] IN
    /\ e.op = "delete"
    /\ reports' = [reports EXCEPT ![e.id] = None]
    /\ Closes(r) /\ UNCHANGED orderly

\* The duplicates are listed after the flush, when the database has let no one
\* else write any more, and go in the same transaction.
\* Mutant of CommitGenerate: the row is stored and nothing else.
CommitGenerateOnly(r) ==
    LET e == editing[r] IN
    /\ e.op = "generate"
    /\ IF e.seen = None
       THEN /\ NextId \in ReportIds
            /\ reports' = [reports EXCEPT ![NextId] = e.row]
       ELSE reports' = IF reports[e.id] = None THEN reports
                       ELSE [reports EXCEPT ![e.id] = Changed(@, e.seen, e.row)]
    /\ Closes(r) /\ UNCHANGED orderly
CommitGenerate(r) ==
    LET e == editing[r] IN
    /\ e.op = "generate"
    /\ IF e.seen = None
       THEN /\ NextId \in ReportIds
            /\ reports' = [i \in ReportIds |-> IF i = NextId THEN e.row ELSE None]
       ELSE reports' = IF reports[e.id] = None THEN reports
                       ELSE [i \in ReportIds |-> IF i = e.id
                                                 THEN Changed(reports[i], e.seen, e.row)
                                                 ELSE None]
    /\ Closes(r) /\ UNCHANGED orderly

ReportsNext ==
    \E r \in Editors :
       \/ AskGenerate(r)
       \/ \E id \in Present :
             \/ \E meta \in Metas : AskUpdate(r, id, meta)
             \/ AskVerify(r, id) \/ AskUnverify(r, id)
             \/ AskReject(r, id) \/ AskRemove(r, id)
       \/ CommitWrite(r) \/ CommitRemove(r) \/ CommitGenerate(r)

-----------------------------------------------------------------------------
\* Reports and requests keep their shape, and a request that is over holds
\* nothing it has read.
ReportsTypeOK ==
    /\ reports \in [ReportIds -> ReportRows \cup {None}]
    /\ orderly \in BOOLEAN
    /\ \A r \in Editors :
          /\ editing[r].op \in {"none", "write", "delete", "generate"}
          /\ editing[r].op = "none" => editing[r] = NotEditing
          /\ editing[r].id \in ReportIds \cup {0}
          /\ editing[r].seen \in ReportRows \cup {None}
          /\ editing[r].row \in ReportRows \cup {None}

\* A session has one report, however many are generated at once
\* (generate_session_report removes what others stored before it could write).
OneReportPerSession == Cardinality(Present) <= 1

\* A verified report has the evidence the gate asks for, and its flag says the
\* same as its status, after any sequence of edits, verdicts and generations
\* that do not overlap (_check_gate is asked once, when it is verified).
VerifiedMeetsGate ==
    orderly => \A i \in Present :
       /\ reports[i].status = "verified" => reports[i].meta = "backed" /\ reports[i].by
       /\ reports[i].verified <=> reports[i].status = "verified"
=============================================================================

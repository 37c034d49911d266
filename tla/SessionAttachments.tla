------------------------- MODULE SessionAttachments -------------------------
(***************************************************************************)
(* The attachments of one session: their rows, their files and the         *)
(* manifest the model reads (upload, update, deletion and the deletion of  *)
(* the session in api/sessions.py; sessions/attachments.py).  They are     *)
(* written one after the other, and a crash may fall between any two.      *)
(***************************************************************************)
EXTENDS Integers, FiniteSets

CONSTANTS Attachments

VARIABLES
    folder,     \* the session: "kept", "deleted", or "removed" with its folder
    stored,     \* rows of session_attachments
    files,      \* attachments whose file is in the folder
    manifest,   \* attachments the manifest lists
    task,       \* per attachment the request that works on it
    inTurn      \* requests come one after the other

fileVars == <<folder, stored, files, manifest, task, inTurn>>

\* "new", "there" and "over" are the times between requests.
Resting == {"new", "there", "over"}
Working == {"loaded", "saved", "listing", "writing", "unlisting", "unwriting", "unlinking"}
Sets(u, s) == task' = [task EXCEPT ![u].at = s]
Turn(u, s) ==
    /\ inTurn => \A other \in Attachments : task[other].at \in Resting
    /\ Sets(u, s)

FilesInit ==
    /\ folder = "kept" /\ stored = {} /\ files = {} /\ manifest = {}
    /\ task = [u \in Attachments |-> [at |-> "new", list |-> {}]]
    /\ inTurn \in BOOLEAN

-----------------------------------------------------------------------------
(* upload_attachment: the file, the row, the manifest. *)

\* The session is there and its attachments are allowed.
Admit(u) ==
    /\ task[u].at = "new" /\ folder = "kept" /\ Turn(u, "loaded")
    /\ UNCHANGED <<folder, stored, files, manifest, inTurn>>

\* Mutant of SaveFile: the row comes before the file.
RowFirst(u) ==
    /\ task[u].at = "loaded" /\ Sets(u, "saved")
    /\ stored' = stored \cup {u}
    /\ UNCHANGED <<folder, files, manifest, inTurn>>
SaveFile(u) ==
    /\ task[u].at = "loaded" /\ Sets(u, "saved")
    /\ files' = files \cup {u}
    /\ UNCHANGED <<folder, stored, manifest, inTurn>>

\* The foreign key refuses the row of a deleted session; the file stays.
\* Mutant of SaveRow: there is no such key.
SaveAnyRow(u) ==
    /\ task[u].at = "saved"
    /\ stored' = stored \cup {u} /\ Sets(u, "listing")
    /\ UNCHANGED <<folder, files, manifest, inTurn>>
SaveRow(u) ==
    /\ task[u].at = "saved"
    /\ IF folder = "kept" THEN stored' = stored \cup {u} /\ Sets(u, "listing")
                          ELSE UNCHANGED stored /\ Sets(u, "over")
    /\ UNCHANGED <<folder, files, manifest, inTurn>>

\* write_session_manifest reads the rows, and then writes the file.
ListRows(u) ==
    /\ task[u].at \in {"listing", "unlisting"}
    /\ task' = [task EXCEPT ![u] =
          [at |-> IF @.at = "listing" THEN "writing" ELSE "unwriting", list |-> stored]]
    /\ UNCHANGED <<folder, stored, files, manifest, inTurn>>

WriteManifest(u) ==
    /\ task[u].at \in {"writing", "unwriting"}
    /\ manifest' = task[u].list
    /\ task' = [task EXCEPT ![u] =
          [at |-> IF @.at = "writing" THEN "there" ELSE "unlinking", list |-> {}]]
    /\ UNCHANGED <<folder, stored, files, inTurn>>

\* update_attachment: the row keeps its file, the manifest is written again.
Describe(u) ==
    /\ task[u].at = "there" /\ u \in stored /\ Turn(u, "listing")
    /\ UNCHANGED <<folder, stored, files, manifest, inTurn>>

\* delete_attachment: the row, the manifest, the file.
\* Mutant of DeleteRow: the file goes with the row.
DeleteRowAndFile(u) ==
    /\ task[u].at = "there" /\ u \in stored /\ Turn(u, "unlisting")
    /\ stored' = stored \ {u} /\ files' = files \ {u}
    /\ UNCHANGED <<folder, manifest, inTurn>>
DeleteRow(u) ==
    /\ task[u].at = "there" /\ u \in stored /\ Turn(u, "unlisting")
    /\ stored' = stored \ {u}
    /\ UNCHANGED <<folder, files, manifest, inTurn>>

Unlink(u) ==
    /\ task[u].at = "unlinking" /\ Sets(u, "over")
    /\ files' = files \ {u}
    /\ UNCHANGED <<folder, stored, manifest, inTurn>>

\* delete_session: the rows go with the session, the folder after them.
DropSession ==
    /\ folder = "kept" /\ folder' = "deleted" /\ stored' = {}
    /\ UNCHANGED <<files, manifest, task, inTurn>>
RemoveFolder ==
    /\ folder = "deleted" /\ folder' = "removed" /\ files' = {} /\ manifest' = {}
    /\ UNCHANGED <<stored, task, inTurn>>

Crash ==
    /\ task' = [u \in Attachments |->
         [at |-> IF u \in stored THEN "there"
                 ELSE IF task[u].at = "new" THEN "new" ELSE "over", list |-> {}]]
    /\ UNCHANGED <<folder, stored, files, manifest, inTurn>>

FilesNext ==
    \/ \E u \in Attachments :
          \/ Admit(u) \/ SaveFile(u) \/ SaveRow(u) \/ ListRows(u) \/ WriteManifest(u)
          \/ Describe(u) \/ DeleteRow(u) \/ Unlink(u)
    \/ DropSession \/ RemoveFolder \/ Crash

-----------------------------------------------------------------------------
\* Rows, files, manifest and requests keep their shape, and no row outlives its
\* session.
FilesTypeOK ==
    /\ folder # "kept" => stored = {}
    /\ folder \in {"kept", "deleted", "removed"} /\ inTurn \in BOOLEAN
    /\ stored \subseteq Attachments /\ files \subseteq Attachments
    /\ manifest \subseteq Attachments
    /\ task \in [Attachments -> [at : Resting \cup Working, list : SUBSET Attachments]]

\* Wherever it crashes and whatever runs beside it, a row never outlives its
\* file: what the session lists can be opened (upload_attachment writes the file
\* before the row, delete_attachment unlinks it after).
RowHasFile == folder = "kept" => stored \subseteq files

\* What the manifest tells the model to read is there, with one request at a
\* time and a crash between any two of its steps.
ListedIsThere == inTurn /\ folder = "kept" => manifest \subseteq files
=============================================================================

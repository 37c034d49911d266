------------------------------ MODULE ChatTurns ------------------------------
(***************************************************************************)
(* One chat session: the turns its posts store (sessions/messages.py), what *)
(* a stop, an error, a lost client, a restart or the deletion of the       *)
(* session (api/sessions.py) leaves of them, and its generated title       *)
(* (sessions/title_generation.py).  Rows are numbered by max + 1, which    *)
(* is read before the row is written, by requests that hold no lock and    *)
(* no transaction between the two.                                         *)
(***************************************************************************)
EXTENDS Integers, FiniteSets

CONSTANTS
    Questions,  \* client turn ids, each posted once
    Titlers     \* tasks that generate a title

VARIABLES
    alive,     \* the session has not been deleted
    rows,      \* session_turns
    ask,       \* per question its stream (_stream_post_message_response)
    serial,    \* the user waits for the end of a stream before the next post
    title,     \* title_source
    titling    \* the tasks of maybe_generate_session_title

chatVars == <<alive, rows, ask, serial, title, titling>>

Open == {"loading", "numbering", "writing", "choosing", "streaming", "checking"}
Outcomes == {"refused", "answered", "stopped", "dropped", "failed", "cut"}
Kinds == {"user", "agent", "stopped"}

IsOpen(q) == ask[q].phase \in Open
Turns(phase, kinds) == {q \in Questions : ask[q].phase = phase /\ ask[q].kind \in kinds}
To(q, phase) == ask' = [ask EXCEPT ![q].phase = phase]
Storing(q, phase, kind) ==
    ask' = [ask EXCEPT ![q].phase = phase, ![q].kind = kind]

ChatInit ==
    /\ alive = TRUE /\ rows = {} /\ serial \in BOOLEAN
    /\ ask = [q \in Questions |->
                 [phase |-> "new", kind |-> "user", index |-> 0, text |-> FALSE]]
    /\ title = "default" /\ titling = [g \in Titlers |-> "idle"]

-----------------------------------------------------------------------------
(* What reads and writes session_turns. *)

\* Mutant of NextIndex: the number of the last row is taken again.
LastIndex == LET used == {r.index : r \in rows}
             IN IF used = {} THEN 0 ELSE CHOOSE i \in used : \A j \in used : j <= i
NextIndex == IF rows = {} THEN 0 ELSE LastIndex + 1

Question(q) == {r \in rows : r.q = q /\ r.kind = "user"}

\* Mutant of StoppedAfter: a stop anywhere in the session counts.
StoppedAnywhere(row) == \E r \in rows : r.kind = "stopped"
StoppedAfter(row) == \E r \in rows : r.kind = "stopped" /\ r.index > row.index

Number(q) ==
    /\ ask[q].phase = "numbering"
    /\ ask' = [ask EXCEPT ![q].phase = "writing", ![q].index = NextIndex]
    /\ UNCHANGED <<alive, rows, serial, title, titling>>

\* An answer that is stored starts a task for the title, if one is free here.
Entitle ==
    \/ \E g \in Titlers :
          titling[g] = "idle" /\ titling' = [titling EXCEPT ![g] = "loading"]
    \/ (\A g \in Titlers : titling[g] # "idle") /\ UNCHANGED titling

\* The foreign key refuses the row of a session that is gone.
\* Mutant of StoreRow: there is no such key.
StoreAnyRow(q) ==
    rows' = rows \cup {[q |-> q, kind |-> ask[q].kind,
                        index |-> ask[q].index, text |-> ask[q].text]}
StoreRow(q) ==
    IF alive
    THEN rows' = rows \cup {[q |-> q, kind |-> ask[q].kind,
                             index |-> ask[q].index, text |-> ask[q].text]}
    ELSE UNCHANGED rows

WriteQuestion(q) ==
    /\ q \in Turns("writing", {"user"})
    /\ StoreRow(q)
    /\ To(q, IF alive THEN "choosing" ELSE "failed")
    /\ UNCHANGED <<alive, serial, title, titling>>

WriteAnswer(q) ==
    /\ q \in Turns("writing", {"agent"})
    /\ StoreRow(q)
    /\ IF alive THEN To(q, "answered") /\ Entitle
                ELSE To(q, "failed") /\ UNCHANGED titling
    /\ UNCHANGED <<alive, serial, title>>

WriteStop(q) ==
    /\ q \in Turns("writing", {"stopped"})
    /\ StoreRow(q)
    /\ To(q, IF alive THEN "stopped" ELSE "cut")
    /\ UNCHANGED <<alive, serial, title, titling>>

\* persist_agent_turn and persist_stopped_agent_turn before they number.
Check(q) ==
    /\ ask[q].phase = "checking"
    /\ To(q, IF \E row \in Question(q) : ~StoppedAfter(row) THEN "numbering"
                                                           ELSE "dropped")
    /\ UNCHANGED <<alive, rows, serial, title, titling>>

-----------------------------------------------------------------------------
(* The stream of one question. *)

Post(q) ==
    /\ ask[q].phase = "new"
    /\ serial => \A other \in Questions : ~IsOpen(other)
    /\ To(q, "loading")
    /\ UNCHANGED <<alive, rows, serial, title, titling>>

Load(q) ==
    /\ ask[q].phase = "loading"
    /\ To(q, IF alive THEN "numbering" ELSE "refused")
    /\ UNCHANGED <<alive, rows, serial, title, titling>>

\* A repository of the post is missing, not ready or has no such ref.
Refuse(q) ==
    /\ q \in Turns("writing", {"user"})
    /\ To(q, "refused")
    /\ UNCHANGED <<alive, rows, serial, title, titling>>

\* A configuration is selected; from here on a stop is caught.
Choose(q) ==
    /\ ask[q].phase = "choosing"
    /\ To(q, "streaming")
    /\ UNCHANGED <<alive, rows, serial, title, titling>>

Emit(q) ==
    /\ ask[q].phase = "streaming" /\ ~ask[q].text
    /\ ask' = [ask EXCEPT ![q].text = TRUE]
    /\ UNCHANGED <<alive, rows, serial, title, titling>>

\* _retry_next_opencode_global_config: only while nothing has been put out.
Retry(q) ==
    /\ ask[q].phase = "streaming" /\ ~ask[q].text
    /\ To(q, "choosing")
    /\ UNCHANGED <<alive, rows, serial, title, titling>>

\* An answer without text is not stored.
Done(q) ==
    /\ ask[q].phase = "streaming"
    /\ IF ask[q].text THEN Storing(q, "checking", "agent") ELSE To(q, "answered")
    /\ UNCHANGED <<alive, rows, serial, title, titling>>

Fail(q) ==
    /\ ask[q].phase \in {"choosing", "streaming"}
    /\ To(q, "failed")
    /\ UNCHANGED <<alive, rows, serial, title, titling>>

\* The client goes: it stops the turn, or is lost.  A cancellation that meets
\* the stream at an await inside the try stores the turn as stopped.  One that
\* finds it outside the try, one that repeats itself in the handler, and a
\* stream closed at a yield store nothing.
Caught(q) == ask[q].phase = "streaming" /\ Storing(q, "checking", "stopped")
Disconnect(q) ==
    /\ IsOpen(q) /\ (Caught(q) \/ To(q, "cut"))
    /\ UNCHANGED <<alive, rows, serial, title, titling>>

Restart ==
    /\ ask' = [q \in Questions |->
                  [ask[q] EXCEPT !.phase = IF IsOpen(q) THEN "cut" ELSE @]]
    /\ titling' = [g \in Titlers |-> "idle"]
    /\ UNCHANGED <<alive, rows, serial, title>>

DeleteSession ==
    /\ alive /\ alive' = FALSE /\ rows' = {}
    /\ UNCHANGED <<ask, serial, title, titling>>

-----------------------------------------------------------------------------
(* The title. *)

\* The two rows that come first; equal numbers come in either order.
FirstExchange ==
    \E a, b \in rows :
       /\ a # b /\ a.index <= b.index
       /\ \A r \in rows \ {a, b} : b.index <= r.index
       /\ a.kind = "user" /\ b.kind # "user" /\ b.text

AskForTitle(g) ==
    /\ alive /\ titling[g] = "idle"
    /\ titling' = [titling EXCEPT ![g] = "loading"]
    /\ UNCHANGED <<alive, rows, ask, serial, title>>

LoadExchange(g) ==
    /\ titling[g] = "loading"
    /\ titling' = [titling EXCEPT ![g] =
                      IF alive /\ title = "default" /\ FirstExchange
                      THEN "generating" ELSE "idle"]
    /\ UNCHANGED <<alive, rows, ask, serial, title>>

NoTitle(g) ==
    /\ titling[g] = "generating"
    /\ titling' = [titling EXCEPT ![g] = "idle"]
    /\ UNCHANGED <<alive, rows, ask, serial, title>>

\* Mutant of Recheck: the answer of the model is applied as it comes.
RecheckNothing(g) ==
    /\ titling[g] = "generating"
    /\ titling' = [titling EXCEPT ![g] = "applying"]
    /\ UNCHANGED <<alive, rows, ask, serial, title>>
Recheck(g) ==
    /\ titling[g] = "generating"
    /\ titling' = [titling EXCEPT ![g] =
                      IF alive /\ title = "default" THEN "applying" ELSE "idle"]
    /\ UNCHANGED <<alive, rows, ask, serial, title>>

Apply(g) ==
    /\ titling[g] = "applying"
    /\ title' = IF alive THEN "auto" ELSE title
    /\ titling' = [titling EXCEPT ![g] = "idle"]
    /\ UNCHANGED <<alive, rows, ask, serial>>

Rename ==
    /\ alive /\ title' = "manual"
    /\ UNCHANGED <<alive, rows, ask, serial, titling>>

-----------------------------------------------------------------------------
ChatNext ==
    \/ \E q \in Questions :
          \/ Post(q) \/ Load(q) \/ Refuse(q) \/ Number(q) \/ Check(q)
          \/ WriteQuestion(q) \/ WriteAnswer(q) \/ WriteStop(q)
          \/ Choose(q) \/ Emit(q) \/ Retry(q) \/ Done(q) \/ Fail(q) \/ Disconnect(q)
    \/ \E g \in Titlers : AskForTitle(g) \/ LoadExchange(g) \/ NoTitle(g)
                          \/ Recheck(g) \/ Apply(g)
    \/ Rename \/ DeleteSession \/ Restart

-----------------------------------------------------------------------------
\* The rows, the streams and the title keep their shape, and no row outlives
\* its session.
ChatTypeOK ==
    /\ alive \in BOOLEAN /\ serial \in BOOLEAN /\ (~alive => rows = {})
    /\ title \in {"default", "auto", "manual"}
    /\ titling \in [Titlers -> {"idle", "loading", "generating", "applying"}]
    /\ ask \in [Questions -> [phase : Open \cup Outcomes \cup {"new"}, kind : Kinds,
                              index : Nat, text : BOOLEAN]]
    /\ \A r \in rows : /\ r.q \in Questions /\ r.kind \in Kinds
                       /\ r.index \in Nat /\ r.text \in BOOLEAN

\* Whatever is posted, stopped and stored at the same time, an answer or a stop
\* stands after its question in the history, and a question has one at most: a
\* reader of the history, and the next turn, see what was said in reply to what
\* (persist_agent_turn, persist_stopped_agent_turn).
RepliesFollow ==
    \A r \in rows : r.kind # "user" =>
       /\ \E p \in rows : p.q = r.q /\ p.kind = "user" /\ p.index < r.index
       /\ \A s \in rows : s.q = r.q /\ s.kind # "user" => s = r

\* While the user waits for each stream to end, the history loses nothing: a
\* finished answer is never turned away, however earlier turns were stopped, and
\* no two rows share a number
\* (_has_stopped_agent_turn_after_parent looks only behind the question).
SerialHistoryIsWhole ==
    serial /\ alive => /\ \A q \in Questions : ask[q].phase # "dropped"
                       /\ \A r, s \in rows : r.index = s.index => r = s

\* A title the user gives while one is being generated stays
\* (_apply_generated_title_if_still_default): only a task that was about to
\* commit when it was given can still replace it, and no other joins it.
ManualTitleStays ==
    title = "manual" =>
      LET late == {g \in Titlers : titling[g] = "applying"}
      IN /\ late = {} => title' = "manual"
         /\ \A g \in Titlers \ late : titling'[g] # "applying"
=============================================================================

----------------------------- MODULE TurnStream -----------------------------
(***************************************************************************)
(* One turn as the chat backend follows it (opencode_compat/backend.py):   *)
(* the prompt is sent, then the event stream of opencode is opened, so the *)
(* events before that are lost, and so are those after the stream breaks.  *)
(* What is missed is made up for from part updates, the polled status and  *)
(* the stored messages.  opencode itself is outside: its turn is a script  *)
(* of events, chosen at the start and sent at its own pace.                *)
(*                                                                         *)
(* A token is a number that counts through the turn; a part of a message   *)
(* is a sequence of tokens.  Reasoning tags and tools are left out.        *)
(***************************************************************************)
EXTENDS Integers, Sequences, SequencesExt, Functions

CONSTANTS
    Scripts,      \* the turns opencode may take, as the events it sends
    MaxMessages,  \* bound: messages of a turn
    Asked,        \* the token of the user's message
    Before        \* the token of the answer of the turn before this one

VARIABLES
    script,    \* the events opencode will send
    sent,      \* how many it has sent
    link,      \* the event stream: when it was opened, whether it has broken
    read,      \* how many of the events have been dealt with, lost ones included
    turn,      \* the local variables of run_turn
    out,       \* the text put out, as tokens
    how        \* how the turn has ended

streamVars == <<script, sent, link, read, turn, out, how>>

UserMessage == 0
OldMessage == -1
Event(type, m, p, text) == [type |-> type, m |-> m, p |-> p, text |-> text]

MessageIds == 1 .. MaxMessages
Events == [type : {"user", "part", "delta", "toolcalls", "finish", "idle", "error"},
           m : Int, p : Nat, text : Seq(Nat)]

\* A part begins empty and grows by deltas; at its end it is sent once more, as a whole.
OfPart(e, m, p) == e = Event("part", m, p, <<>>) \/ e = Event("delta", m, p, e.text)
GrowsPart(s, j) == /\ Len(s[j].text) = 1 /\ s[j].text[1] \notin {Asked, Before}
                   /\ OfPart(s[j - 1], s[j].m, s[j].p)
ClosesPart(s, j) ==
    LET start == j - Len(s[j].text) - 1
    IN /\ start > 2 /\ s[start] = Event("part", s[j].m, s[j].p, <<>>)
       /\ \A i \in DOMAIN s[j].text :
             s[start + i] = Event("delta", s[j].m, s[j].p, <<s[j].text[i]>>)

\* A turn is the user's message, parts and ends of messages, and an end: it is
\* through, is aborted, or fails on the way.
IsTurn(s) ==
    /\ s \in Seq(Events) /\ Len(s) > 2
    /\ s[1] = Event("user", UserMessage, 0, <<>>)
    /\ s[2] = Event("part", UserMessage, 1, <<Asked>>)
    /\ \A j \in 3 .. Len(s) - 1 :
          /\ s[j].m \in MessageIds
          /\ \/ s[j].type = "part" /\ (s[j].text = <<>> \/ ClosesPart(s, j))
             \/ s[j].type = "delta" /\ GrowsPart(s, j)
             \/ s[j].type = "toolcalls"
             \/ s[j].type = "finish" /\ j = Len(s) - 1
    /\ s[Len(s)].type \in {"idle", "error"}
    /\ \A i, j \in 3 .. Len(s) - 1 : i < j =>
          /\ s[i].m <= s[j].m /\ (s[i].type = "toolcalls" => s[i].m < s[j].m)
          /\ s[i].type = "delta" /\ s[j].type = "delta" => s[i].text[1] < s[j].text[1]

ASSUME StreamAssumption ==
    /\ MaxMessages \in Nat /\ Asked \in Nat /\ Before \in Nat
    /\ \A s \in Scripts : IsTurn(s)

\* The tokens of some messages among the first n events.
SaidOf(messages, n) ==
    LET said[i \in 0 .. Len(script)] ==
          IF i = 0 THEN <<>>
          ELSE said[i - 1] \o (IF script[i].type = "delta" /\ script[i].m \in messages
                               THEN script[i].text ELSE <<>>)
    IN said[n]
Said(m, n) == SaidOf({m}, n)

NoTexts == [m \in MessageIds \cup {UserMessage, OldMessage} |-> <<>>]

StreamInit ==
    /\ script \in Scripts /\ sent = 0 /\ read = 0
    /\ link = [state |-> "none", from |-> 0, upto |-> 0]
    /\ turn = [asked |-> FALSE, parts |-> {}, raw |-> NoTexts, visible |-> NoTexts,
               popped |-> {}]
    /\ out = <<>> /\ how = "under way"

-----------------------------------------------------------------------------
(* opencode and the connection. *)

Serve ==
    /\ sent < Len(script) /\ sent' = sent + 1
    /\ UNCHANGED <<script, link, read, turn, out, how>>

\* Mutant of OpenLink: the events of the turn are replayed.
OpenLinkReplayed ==
    /\ link.state = "none" /\ how = "under way"
    /\ link' = [state |-> "up", from |-> sent, upto |-> 0]
    /\ UNCHANGED <<script, sent, read, turn, out, how>>
OpenLink ==
    /\ link.state = "none" /\ how = "under way"
    /\ link' = [state |-> "up", from |-> sent, upto |-> 0]
    /\ read' = sent
    /\ UNCHANGED <<script, sent, turn, out, how>>

\* The stream is closed or fails; what it has brought is still in the queue.
Break ==
    /\ link.state = "up" /\ how = "under way"
    /\ \E s \in {"closed", "failed"} : link' = [link EXCEPT !.state = s, !.upto = sent]
    /\ UNCHANGED <<script, sent, read, turn, out, how>>

Arrived == IF link.state = "up" THEN sent ELSE link.upto
Following == link.state # "none" /\ how = "under way"

-----------------------------------------------------------------------------
(* run_turn: what an event does. *)

EndTurn(as) == how' = as
Drop(s, n) == SubSeq(s, n + 1, Len(s))

\* _reconcile_text_part_update
\* Mutant of Reconcile: a text that does not continue the last one starts anew.
ReconcileAnew(m, text, parts) ==
    LET known == turn.visible[m]
        more == IF IsPrefix(known, text) THEN Drop(text, Len(known)) ELSE text
    IN /\ out' = out \o more
       /\ turn' = [turn EXCEPT !.parts = parts, !.raw[m] = text,
                               !.visible[m] = known \o more]
Reconcile(m, text, parts) ==
    LET before == turn.raw[m]
        known == turn.visible[m]
        continues == before # <<>> /\ IsPrefix(before, text)
        more == IF continues THEN Drop(text, Len(before))
                ELSE IF IsPrefix(known, text) THEN Drop(text, Len(known))
                ELSE <<>>
    IN /\ out' = out \o more
       /\ turn' = [turn EXCEPT !.parts = parts, !.raw[m] = text,
                               !.visible[m] = known \o more]

\* Mutant of Hears: nobody asks whose text it is.
HearsAll(m) == TRUE
Hears(m) == ~(m = UserMessage /\ turn.asked)

Updated(e) ==
    LET parts == turn.parts \cup {<<e.m, e.p>>}
    IN IF Hears(e.m) THEN Reconcile(e.m, e.text, parts)
       ELSE turn' = [turn EXCEPT !.parts = parts] /\ UNCHANGED out

\* A delta of a part that was not announced as text is not put out.
Delta(e) ==
    IF <<e.m, e.p>> \in turn.parts
    THEN /\ out' = out \o e.text
         /\ turn' = [turn EXCEPT !.raw[e.m] = @ \o e.text, !.visible[e.m] = @ \o e.text]
    ELSE UNCHANGED <<turn, out>>

Finished(e) ==
    turn' = [turn EXCEPT !.raw[e.m] = <<>>, !.visible[e.m] = <<>>,
                         !.popped = @ \cup {e.m}]

Handle ==
    /\ Following /\ read < Arrived /\ read' = read + 1
    /\ LET e == script[read + 1]
       IN \/ /\ e.type = "user" /\ turn' = [turn EXCEPT !.asked = TRUE]
             /\ UNCHANGED <<out, how>>
          \/ e.type = "part" /\ Updated(e) /\ UNCHANGED how
          \/ e.type = "delta" /\ Delta(e) /\ UNCHANGED how
          \/ e.type = "toolcalls" /\ Finished(e) /\ UNCHANGED <<out, how>>
          \/ e.type = "finish" /\ Finished(e) /\ EndTurn("finished") /\ UNCHANGED out
          \/ e.type \in {"idle", "error"} /\ EndTurn(e.type) /\ UNCHANGED <<turn, out>>
    /\ UNCHANGED <<script, sent, link>>

-----------------------------------------------------------------------------
(* _stream_events_with_status_poll: what it does when no event is there. *)

Waiting == Following /\ read = Arrived

\* _latest_assistant_text_snapshot: of all messages of the session.
Latest ==
    LET spoken == {m \in MessageIds : Said(m, sent) # <<>>}
    IN IF spoken = {} THEN [m |-> OldMessage, text |-> <<Before>>]
       ELSE LET m == CHOOSE m \in spoken : \A k \in spoken : k <= m
            IN [m |-> m, text |-> Said(m, sent)]

\* Mutant of TakeSnapshot: it is taken only when nothing has come at all.
TakeSnapshotIfSilent ==
    IF out = <<>> THEN Reconcile(Latest.m, Latest.text, turn.parts)
                  ELSE UNCHANGED <<turn, out>>
TakeSnapshot ==
    Reconcile(Latest.m, Latest.text, turn.parts \cup {<<Latest.m, 0>>})

\* opencode says that it is idle: the messages are asked for, which may fail.
PollIdle ==
    /\ Waiting /\ link.state # "failed" /\ sent = Len(script)
    /\ \/ TakeSnapshot /\ EndTurn("polled")
       \/ EndTurn("polled empty") /\ UNCHANGED <<turn, out>>
    /\ UNCHANGED <<script, sent, link, read>>

\* For _TURN_NO_PROGRESS_TIMEOUT_SECONDS no event has come, and no status names
\* the session as busy.
NoProgress ==
    /\ Waiting /\ link.state # "failed"
    /\ \/ TakeSnapshot /\ EndTurn("silent")
       \/ EndTurn("stalled") /\ UNCHANGED <<turn, out>>
    /\ UNCHANGED <<script, sent, link, read>>

LinkFailed ==
    /\ Waiting /\ link.state = "failed" /\ EndTurn("error")
    /\ UNCHANGED <<script, sent, link, read, turn, out>>

\* _TURN_WAIT_TIMEOUT_SECONDS are over.
TimeIsUp ==
    /\ Following /\ EndTurn("time out")
    /\ UNCHANGED <<script, sent, link, read, turn, out>>

StreamNext ==
    Serve \/ OpenLink \/ Break \/ Handle \/ PollIdle \/ NoProgress \/ LinkFailed \/ TimeIsUp

-----------------------------------------------------------------------------
TurnEnds == {"under way", "finished", "idle", "error", "polled", "polled empty",
             "silent", "stalled", "time out"}
Recovered == how \in {"polled", "silent"}

\* The turn keeps its shape, and reads only what has come.
StreamTypeOK ==
    /\ sent \in 0 .. Len(script) /\ read \in 0 .. sent /\ how \in TurnEnds
    /\ link.state \in {"none", "up", "closed", "failed"}
    /\ link.from <= read /\ turn.popped \subseteq MessageIds
    /\ turn.asked \in BOOLEAN

\* Each word of a message is put out once and in its place, wherever the stream
\* was opened or broke, and however deltas, part updates and the stored message
\* overlap (_reconcile_text_part_update).  A stored message that is read again
\* after its tool calls were seen is the exception: run_turn has forgotten it.
SpokenOnceInOrder ==
    \A m \in MessageIds :
       \/ m \in turn.popped /\ Recovered
       \/ LET own == Range(Said(m, sent))
          IN \A i, j \in DOMAIN out :
                i < j /\ out[i] \in own /\ out[j] \in own => out[i] < out[j]

\* A turn whose stream was open before its answer began, and that ends by an
\* event, has put out all that opencode said, and nothing else.
NothingIsMissed ==
    how \in {"finished", "idle"} /\ link.from \in {0, 2}
       => out = SaidOf(MessageIds, sent)

\* A turn that ends because opencode is polled idle has put out its last message
\* to the end: "a missed event cannot leave the frontend" behind
\* (_stream_events_with_status_poll), if the stream was open before the answer.
PolledIsWhole ==
    how = "polled" /\ link.from <= 2 /\ Latest.m # OldMessage
       => IsSuffix(Latest.text, out)

\* A silent turn fails: "text for 100 s, then 700 s without any event: the
\* no-progress guard fires with an error"
\* (docs/v1.0.5/plans/m7-turn-control-and-multi-repo.md:90).
SilentTurnFails ==
    how = "silent" => \A i \in link.from + 1 .. read : script[i].type # "delta"
=============================================================================

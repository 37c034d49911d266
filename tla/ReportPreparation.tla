------------------------- MODULE ReportPreparation -------------------------
(***************************************************************************)
(* The drafting of a report in the background (the prepare endpoints of    *)
(* api/sessions.py and sessions/report_generation.py).  A POST starts a    *)
(* task under the id of the request and answers at once; the client asks   *)
(* for the status, which is kept in the memory of the process, for the     *)
(* last CacheLimit ids only.  With its session an id cannot be asked for   *)
(* any more, and what its task still does is seen by nobody.               *)
(***************************************************************************)
EXTENDS NoValue, Integers, Sequences

CONSTANTS
    Posts,       \* POST requests that can be open at a time
    Drafters,    \* bound: tasks that can be alive at a time
    Keys,        \* <<session_id, request_id>> pairs, all of one session
    Topics,      \* features
    CacheLimit,  \* _REPORT_PREPARE_CACHE_LIMIT
    MaxTalk      \* bound: exchanges of the session

ASSUME PreparationAssumption == CacheLimit \in Nat \ {0} /\ MaxTalk \in Nat

\* A task: the id it drafts for, the exchanges when it was asked for and when it
\* read them, and the feature.
DraftTask == [key : Keys, since : 0 .. MaxTalk, topic : Topics \cup {None}, seen : 0 .. MaxTalk]
ASSUME NoDraftAssumption == None \notin DraftTask

VARIABLES
    talk,      \* exchanges the session has
    topics,    \* the features that exist
    posts,     \* requests that have not found their id in the cache
    drafting,  \* the tasks
    answers,   \* app.state.report_prepare_results, a dict in insertion order
    calm       \* an id is not asked for again while it is being worked on

prepVars == <<talk, topics, posts, drafting, answers, calm>>

NoPost == [key |-> None, since |-> 0]
PrepStatus(k, status, since, seen) == [key |-> k, status |-> status, since |-> since, seen |-> seen]
PlaceOf(k) == {i \in DOMAIN answers : answers[i].key = k}

PrepInit ==
    /\ talk = 0 /\ topics = Topics
    /\ posts = [p \in Posts |-> NoPost]
    /\ drafting = [d \in Drafters |-> None]
    /\ answers = <<>>
    /\ calm \in BOOLEAN

\* An id that is there keeps its place; otherwise the oldest makes room.
\* Mutant of Stored: nothing makes room.
StoredAll(e) ==
    answers' = IF PlaceOf(e.key) = {} THEN Append(answers, e)
               ELSE [i \in DOMAIN answers |-> IF i \in PlaceOf(e.key) THEN e ELSE answers[i]]
Stored(e) ==
    answers' = IF PlaceOf(e.key) # {}
               THEN [i \in DOMAIN answers |-> IF i \in PlaceOf(e.key) THEN e ELSE answers[i]]
               ELSE LET all == Append(answers, e) IN
                    IF Len(all) > CacheLimit THEN Tail(all) ELSE all

-----------------------------------------------------------------------------
TalkGoesOn ==
    /\ talk < MaxTalk
    /\ talk' = talk + 1
    /\ UNCHANGED <<topics, posts, drafting, answers, calm>>

DeleteTopic(f) ==
    /\ topics' = topics \ {f}
    /\ UNCHANGED <<talk, posts, drafting, answers, calm>>

-----------------------------------------------------------------------------
\* A POST whose id is cached is answered from there and does nothing more.
\* Mutant of Unknown: whatever has settled may be asked for again.
UnknownOrSettled(k) == \A i \in PlaceOf(k) : answers[i].status # "running"
Unknown(k) == PlaceOf(k) = {}

AskDraft(p, k) ==
    /\ posts[p].key = None /\ Unknown(k)
    /\ calm => /\ \A other \in Posts : posts[other].key # k
               /\ \A d \in Drafters : drafting[d] # None => drafting[d].key # k
    /\ posts' = [posts EXCEPT ![p] = [key |-> k, since |-> talk]]
    /\ UNCHANGED <<talk, topics, drafting, answers, calm>>

\* After its reads the handler stores "running" and creates the task at once.
\* f is the feature that the caller names, or the one the session speaks for.
StartDraft(p, d, f) ==
    LET k == posts[p].key IN
    /\ k # None /\ drafting[d] = None
    /\ talk >= 1
    /\ Stored(PrepStatus(k, "running", posts[p].since, 0))
    /\ drafting' = [drafting EXCEPT ![d] =
         [key |-> k, since |-> posts[p].since, topic |-> f, seen |-> 0]]
    /\ posts' = [posts EXCEPT ![p] = NoPost]
    /\ UNCHANGED <<talk, topics, calm>>

\* Without an answered question: 400.  With a feature that is gone: 404.
RefuseDraft(p) ==
    /\ posts[p].key # None
    /\ talk < 1 \/ topics # Topics
    /\ posts' = [posts EXCEPT ![p] = NoPost]
    /\ UNCHANGED <<talk, topics, drafting, answers, calm>>

\* The task reads the conversation itself.
\* Mutant of ReadTalk: it drafts from the first exchange only.
ReadTalkEarly(d) ==
    /\ drafting[d] # None /\ drafting[d].seen = 0
    /\ drafting[d].topic \in topics \cup {None}
    /\ drafting' = [drafting EXCEPT ![d].seen = 1]
    /\ UNCHANGED <<talk, topics, posts, answers, calm>>
ReadTalk(d) ==
    /\ drafting[d] # None /\ drafting[d].seen = 0
    /\ drafting[d].topic \in topics \cup {None}
    /\ drafting' = [drafting EXCEPT ![d].seen = talk]
    /\ UNCHANGED <<talk, topics, posts, answers, calm>>

\* A feature that is gone by now ends the task before its try block: nobody
\* stores that it has failed.
ReadTalkFails(d) ==
    /\ drafting[d] # None /\ drafting[d].seen = 0
    /\ drafting[d].topic \notin topics \cup {None}
    /\ drafting' = [drafting EXCEPT ![d] = None]
    /\ UNCHANGED <<talk, topics, posts, answers, calm>>

\* Whatever text the model gives makes a draft; an error event of the gateway
\* raises.
PreparedDraft(t) == PrepStatus(t.key, "succeeded", t.since, t.seen)
FailedDraft(t) == PrepStatus(t.key, "failed", t.since, 0)

DraftDone(d) ==
    LET t == drafting[d] IN
    /\ t # None /\ t.seen # 0
    /\ Stored(PreparedDraft(t))
    /\ drafting' = [drafting EXCEPT ![d] = None]
    /\ UNCHANGED <<talk, topics, posts, calm>>

\* Mutant of DraftFails: the error is logged and nothing else.
DraftFailsUnsaid(d) ==
    /\ drafting[d] # None /\ drafting[d].seen # 0
    /\ drafting' = [drafting EXCEPT ![d] = None]
    /\ UNCHANGED <<talk, topics, posts, answers, calm>>
DraftFails(d) ==
    LET t == drafting[d] IN
    /\ t # None /\ t.seen # 0
    /\ Stored(FailedDraft(t))
    /\ drafting' = [drafting EXCEPT ![d] = None]
    /\ UNCHANGED <<talk, topics, posts, calm>>

\* The process restarts: statuses and tasks were in memory only.
ForgetDrafts ==
    /\ posts' = [p \in Posts |-> NoPost]
    /\ drafting' = [d \in Drafters |-> None]
    /\ answers' = <<>>
    /\ UNCHANGED <<talk, topics, calm>>

PrepNext ==
    \/ TalkGoesOn
    \/ \E f \in topics : DeleteTopic(f)
    \/ \E p \in Posts :
          \/ \E k \in Keys : AskDraft(p, k)
          \/ \E d \in Drafters, f \in topics \cup {None} : StartDraft(p, d, f)
          \/ RefuseDraft(p)
    \/ \E d \in Drafters : ReadTalk(d) \/ ReadTalkFails(d) \/ DraftDone(d) \/ DraftFails(d)
    \/ ForgetDrafts

-----------------------------------------------------------------------------
\* What GET answers for an id: its status, or None for a 404.
StatusOf(k) ==
    IF PlaceOf(k) # {} THEN answers[CHOOSE i \in PlaceOf(k) : TRUE] ELSE None

\* The statuses keep their shape, each id has one, and there are never more
\* than the cache may hold.
PrepTypeOK ==
    /\ talk \in 0 .. MaxTalk /\ topics \subseteq Topics /\ calm \in BOOLEAN
    /\ \A p \in Posts : posts[p].key \in Keys \cup {None}
    /\ \A d \in Drafters : drafting[d] # None => drafting[d].key \in Keys
    /\ Len(answers) <= CacheLimit
    /\ \A i \in DOMAIN answers :
          /\ answers[i].status \in {"running", "succeeded", "failed"}
          /\ PlaceOf(answers[i].key) = {i}
          /\ answers[i].status = "succeeded" <=> answers[i].seen # 0

\* A draft covers every exchange that was there when the report was asked for,
\* though the same id may be asked for twice, be evicted and come back.
DraftCoversRequest ==
    \A k \in Keys :
       LET a == StatusOf(k) IN
       a # None /\ a.status = "succeeded" => a.seen >= a.since

\* While no feature has been deleted, an id is "running" only as long as a task
\* works on it, however requests of that id and others cross: no client polls
\* for ten minutes what nobody will finish (_run_session_report_prepare_task
\* stores how it ended).
RunningIsWorkedOn ==
    topics = Topics => \A k \in Keys :
       StatusOf(k) # None /\ StatusOf(k).status = "running"
          => \E d \in Drafters : drafting[d] # None /\ drafting[d].key = k

\* An answer that has settled is not taken back for a second task as long as it
\* is cached, where an id is not asked for again while it is worked on
\* (prepare_session_report answers a repeated POST with what is cached).
SettledStays ==
    \A k \in Keys :
       /\ calm /\ StatusOf(k) # None /\ StatusOf(k).status # "running"
       => \A i \in DOMAIN answers' : answers'[i].key = k => answers'[i].status # "running"
=============================================================================

----------------------------- MODULE LLMGateway -----------------------------
(***************************************************************************)
(* The pool of global LLM configurations (llm/gateway.py): which one a     *)
(* request is given, how sessions stick to one, how failing ones cool      *)
(* down, and how requests fail over.  A "stream" is a call of              *)
(* LLMGateway.stream (titles and reports); a "chat" is the loop of         *)
(* stream_opencode_response (sessions/messages.py), which selects through  *)
(* the same window and keeps a failover of its own.                        *)
(***************************************************************************)
EXTENDS NoValue, Integers, FiniteSets

CONSTANTS
    Configs,     \* global configurations
    Sessions,
    Chats,       \* requests under way at a time, of either kind
    Streams,
    MaxRetries,  \* max_retries
    Threshold,   \* unhealthy_failure_threshold
    Own          \* a user's or guest's own configuration

ASSUME BoundsAssumption == MaxRetries \in Nat /\ Threshold \in Nat \ {0}
ASSUME KindsAssumption == Chats \cap Streams = {}
ASSUME NamesAssumption ==
    Own \notin Configs /\ None \notin Configs \cup Sessions \cup {Own}

VARIABLES
    pool,      \* the global configurations that are enabled
    usage,     \* config -> sessions it has served within the usage window
    sticky,    \* session -> the config it sticks to, or None
    failures,  \* config -> failures within the failure window
    cooling,   \* config -> is its unhealthy_until ahead, absent, or past
    request    \* local variables of the requests

window == <<usage, sticky, failures, cooling>>
vars == <<pool, window, request>>

Requests == Chats \cup Streams
Pcs == {"idle", "select", "call", "again"}
Requested == [pc : Pcs, s : Sessions \cup {None},
              config : Configs \cup {Own, None}, excluded : SUBSET Configs,
              attempt : 0 .. MaxRetries, emitted : BOOLEAN, retryable : BOOLEAN]

Idle == [pc |-> "idle", s |-> None, config |-> None, excluded |-> {},
         attempt |-> 0, emitted |-> FALSE, retryable |-> FALSE]

Go(r, fields) == request' = [request EXCEPT ![r] = fields]
Ends(r) == Go(r, Idle)
Pooled(r) == request[r].config \in Configs

-----------------------------------------------------------------------------
(* GlobalLLMUsageWindow. *)

Unhealthy(c) == cooling[c] = "yes"

\* is_unhealthy forgets the failures of a config whose cooldown is over.
Looked(S) ==
    LET over == {c \in S : cooling[c] = "over"}
    IN /\ cooling' = [c \in Configs |-> IF c \in over THEN "no" ELSE cooling[c]]
       /\ failures' = [c \in Configs |-> IF c \in over THEN 0 ELSE failures[c]]

RecordSession(s, c) ==
    /\ usage' = [d \in Configs |-> IF d = c THEN usage[d] \cup {s} ELSE usage[d]]
    /\ sticky' = IF c \in Configs THEN [sticky EXCEPT ![s] = c] ELSE sticky

\* Above the threshold the count no longer matters.
RecordFailure(c) ==
    LET n == IF failures[c] = Threshold THEN Threshold ELSE failures[c] + 1
    IN /\ failures' = [failures EXCEPT ![c] = n]
       /\ cooling' = IF n = Threshold THEN [cooling EXCEPT ![c] = "yes"] ELSE cooling

RecordSuccess(c) ==
    /\ failures' = [failures EXCEPT ![c] = 0]
    /\ cooling' = [cooling EXCEPT ![c] = "no"]

ClearSticky(s, c) ==
    sticky' = IF sticky[s] = c THEN [sticky EXCEPT ![s] = None] ELSE sticky

-----------------------------------------------------------------------------
(* _select_config.  Whether a user has a configuration is an input: Own may *)
(* be there at one selection and not at the next.                          *)

\* Mutant of Sticks: a config that failed this request is taken again.
SticksAnyway(s, excluded) ==
    sticky[s] \in pool /\ ~Unhealthy(sticky[s])

Sticks(s, excluded) ==
    sticky[s] \in pool \ excluded /\ ~Unhealthy(sticky[s])

\* Mutant of Candidates: cooling configs stay in the pool.
CandidatesAll(eligible) == eligible

Candidates(eligible) ==
    LET healthy == {c \in eligible : ~Unhealthy(c)}
    IN IF healthy = {} THEN eligible ELSE healthy

LeastBusy(S) ==
    {c \in S : \A d \in S : Cardinality(usage[c]) <= Cardinality(usage[d])}

SelectPooled(s, excluded, c) ==
    LET eligible == pool \ excluded
    IN IF Sticks(s, excluded)
         THEN c = sticky[s] /\ Looked({c}) /\ RecordSession(s, c)
         ELSE /\ IF eligible = {} THEN c = None
                 ELSE c \in LeastBusy(Candidates(eligible))
              /\ Looked(eligible)
              /\ RecordSession(s, c)

\* None: nothing is left, "resource_busy".
SelectConfig(s, excluded, c) ==
    \/ c = Own /\ UNCHANGED window
    \/ c # Own /\ SelectPooled(s, excluded, c)

-----------------------------------------------------------------------------
(* Requests. *)

Start(r, s) ==
    /\ request[r].pc = "idle"
    /\ Go(r, [Idle EXCEPT !.pc = "select", !.s = s])
    /\ UNCHANGED <<pool, window>>

\* The first selection, and every one of a chat.
Select(r, c) ==
    /\ request[r].pc = "select"
    /\ SelectConfig(request[r].s, request[r].excluded, c)
    /\ IF c = None THEN Ends(r)
       ELSE Go(r, [request[r] EXCEPT !.pc = "call", !.config = c])
    /\ UNCHANGED pool

\* A stream that has failed before its first event asks for another config;
\* with none left it waits and calls the same one again.
Reselect(r, c) ==
    LET q == request[r]
        more == q.attempt < MaxRetries
    IN /\ q.pc = "again"
       /\ SelectConfig(q.s, q.excluded, c)
       /\ CASE c # None /\ more ->
                 Go(r, [q EXCEPT !.pc = "call", !.config = c, !.attempt = @ + 1,
                             !.retryable = FALSE])
            [] c = None /\ q.retryable /\ more ->
                 Go(r, [q EXCEPT !.pc = "call", !.attempt = @ + 1, !.retryable = FALSE])
            [] OTHER -> Ends(r)
       /\ UNCHANGED pool

\* Any event of a stream, text of a chat.
Output(r) ==
    /\ request[r].pc = "call"
    /\ ~request[r].emitted
    /\ Go(r, [request[r] EXCEPT !.emitted = TRUE])
    /\ UNCHANGED <<pool, window>>

Succeeds(r) ==
    /\ request[r].pc = "call"
    /\ IF Pooled(r) THEN RecordSuccess(request[r].config) ELSE UNCHANGED <<failures, cooling>>
    /\ Ends(r)
    /\ UNCHANGED <<pool, usage, sticky>>

\* An error of the request itself, a stream that stops short, an exception or
\* a client that has gone: nothing is recorded.
GivesUp(r) ==
    /\ request[r].pc = "call"
    /\ Ends(r)
    /\ UNCHANGED <<pool, window>>

\* Mutant of FailsEarly: output does not stop the failover.
FailsEarlyOrLate(r, retryable) ==
    LET q == request[r]
    IN /\ q.pc = "call" /\ Pooled(r)
       /\ RecordFailure(q.config)
       /\ ClearSticky(q.s, q.config)
       /\ Go(r, [q EXCEPT !.pc = IF r \in Chats THEN "select" ELSE "again",
                          !.excluded = @ \cup {q.config}, !.retryable = retryable /\ r \in Streams])
       /\ UNCHANGED <<pool, usage>>

\* Mutant of FailsEarly: the config is not excluded.
FailsEarlyUnmarked(r, retryable) ==
    LET q == request[r]
    IN /\ q.pc = "call" /\ ~q.emitted /\ Pooled(r)
       /\ RecordFailure(q.config)
       /\ ClearSticky(q.s, q.config)
       /\ Go(r, [q EXCEPT !.pc = IF r \in Chats THEN "select" ELSE "again",
                          !.retryable = retryable /\ r \in Streams])
       /\ UNCHANGED <<pool, usage>>

FailsEarly(r, retryable) ==
    LET q == request[r]
    IN /\ q.pc = "call" /\ ~q.emitted /\ Pooled(r)
       /\ RecordFailure(q.config)
       /\ ClearSticky(q.s, q.config)
       /\ Go(r, [q EXCEPT !.pc = IF r \in Chats THEN "select" ELSE "again",
                          !.excluded = @ \cup {q.config}, !.retryable = retryable /\ r \in Streams])
       /\ UNCHANGED <<pool, usage>>

\* Only streams count a failure after output.
FailsLate(r) ==
    LET q == request[r]
    IN /\ q.pc = "call" /\ q.emitted /\ Pooled(r)
       /\ IF r \in Streams THEN RecordFailure(q.config) ELSE UNCHANGED <<failures, cooling>>
       /\ Ends(r)
       /\ UNCHANGED <<pool, usage, sticky>>

\* Mutant of OwnFails: one retry too many.
OwnFailsOnceMore(r, retryable) ==
    LET q == request[r]
    IN /\ q.pc = "call" /\ ~Pooled(r)
       /\ IF r \in Streams /\ ~q.emitted /\ retryable /\ q.attempt <= MaxRetries
            THEN Go(r, [q EXCEPT !.attempt = @ + 1])
            ELSE Ends(r)
       /\ UNCHANGED <<pool, window>>

\* An own configuration has no substitute; streams try it again.
OwnFails(r, retryable) ==
    LET q == request[r]
    IN /\ q.pc = "call" /\ ~Pooled(r)
       /\ IF r \in Streams /\ ~q.emitted /\ retryable /\ q.attempt < MaxRetries
            THEN Go(r, [q EXCEPT !.attempt = @ + 1])
            ELSE Ends(r)
       /\ UNCHANGED <<pool, window>>

ProviderError(r) ==
    \/ FailsLate(r)
    \/ \E retryable \in BOOLEAN : FailsEarly(r, retryable) \/ OwnFails(r, retryable)

Selects(r) == \E c \in Configs \cup {Own, None} : Select(r, c) \/ Reselect(r, c)
CallEnds(r) == Succeeds(r) \/ GivesUp(r) \/ ProviderError(r)

-----------------------------------------------------------------------------
(* Time passes: entries fall out of their windows. *)

UsageExpires(c, s) ==
    /\ s \in usage[c]
    /\ usage' = [usage EXCEPT ![c] = @ \ {s}]
    /\ UNCHANGED <<pool, sticky, failures, cooling, request>>

\* A session sticks longer than it is counted, and both start together.
StickyExpires(s) ==
    /\ sticky[s] # None
    /\ \A c \in Configs : s \notin usage[c]
    /\ sticky' = [sticky EXCEPT ![s] = None]
    /\ UNCHANGED <<pool, usage, failures, cooling, request>>

FailureAges(c) ==
    /\ failures[c] > 0
    /\ failures' = [failures EXCEPT ![c] = @ - 1]
    /\ UNCHANGED <<pool, usage, sticky, cooling, request>>

\* The cooldown is longer than the failure window, and each failure at the
\* threshold starts it anew.
CooldownEnds(c) ==
    /\ cooling[c] = "yes" /\ failures[c] < Threshold
    /\ cooling' = [cooling EXCEPT ![c] = "over"]
    /\ UNCHANGED <<pool, usage, sticky, failures, request>>

Clock ==
    \/ \E c \in Configs, s \in Sessions : UsageExpires(c, s)
    \/ \E s \in Sessions : StickyExpires(s)
    \/ \E c \in Configs : FailureAges(c) \/ CooldownEnds(c)

\* Administrators enable, disable, add and delete configurations.
Administer(c) ==
    /\ pool' = IF c \in pool THEN pool \ {c} ELSE pool \cup {c}
    /\ UNCHANGED <<window, request>>

-----------------------------------------------------------------------------

Init ==
    /\ pool = Configs
    /\ usage = [c \in Configs |-> {}]
    /\ sticky = [s \in Sessions |-> None]
    /\ failures = [c \in Configs |-> 0]
    /\ cooling = [c \in Configs |-> "no"]
    /\ request = [r \in Requests |-> Idle]

RequestStep(r) ==
    \/ \E s \in Sessions : Start(r, s)
    \/ Selects(r) \/ Output(r) \/ CallEnds(r)

Next ==
    \/ \E r \in Requests : RequestStep(r)
    \/ Clock
    \/ \E c \in Configs : Administer(c)

Spec == Init /\ [][Next]_vars

-----------------------------------------------------------------------------

\* The window and the requests keep their shape; no stream retries more often
\* than max_retries.
TypeOK ==
    /\ pool \subseteq Configs
    /\ usage \in [Configs -> SUBSET Sessions]
    /\ sticky \in [Sessions -> Configs \cup {None}]
    /\ failures \in [Configs -> 0 .. Threshold]
    /\ cooling \in [Configs -> {"no", "yes", "over"}]
    /\ request \in [Requests -> Requested]

\* A chat is never sent to a config that has failed it already, although other
\* requests of its session may have made the session stick to that config
\* again (excluded_global_config_ids).
FailedNotTriedAgain ==
    \A r \in Chats :
      request[r].pc = "call" => request[r].config \notin request[r].excluded

\* What the consumer sees comes from one config: once a request has put
\* something out it either ends or goes on with the same call
\* (emitted_real_event, emitted_text).
OneVoice ==
    [][\A r \in Requests :
         request[r].emitted =>
           \/ request'[r].pc = "idle"
           \/ request'[r] = request[r]]_vars

\* A request is given a cooling config only when everything the pool has left
\* for it is cooling: neither stickiness nor a light load makes up for failures
\* (the healthy candidates of _select_config).
CoolingIsLastResort ==
    [][\A r \in Requests : LET c == request'[r].config IN
         /\ request[r].pc \in {"select", "again"} /\ request'[r].pc = "call"
         /\ c \in Configs /\ cooling[c] = "yes"
         => \A d \in pool \ request[r].excluded : cooling[d] = "yes"]_vars

\* No request fails over in circles, however calls fail, whatever is listed and
\* whatever other requests do to the window: all it does until it ends uses up
\* a retry, rules out one more config, or brings the call it is at forward (the
\* two loops have no other bound).
Stage(q) == CASE q.pc = "select" -> 0
              [] q.pc = "call" -> IF q.emitted THEN 2 ELSE 1
              [] OTHER -> 3

Advanced(p, q) ==
    \/ q.attempt > p.attempt /\ p.excluded \subseteq q.excluded
    \/ q.attempt = p.attempt /\ p.excluded \subseteq q.excluded /\ q.excluded # p.excluded
    \/ q.attempt = p.attempt /\ q.excluded = p.excluded /\ Stage(q) > Stage(p)

FailoverAdvances ==
    [][\A r \in Requests :
         "idle" \notin {request[r].pc, request'[r].pc} /\ request'[r] # request[r]
         => Advanced(request[r], request'[r])]_vars
=============================================================================

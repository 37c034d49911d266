-------------------------- MODULE LLMGatewayProofs --------------------------
(***************************************************************************)
(* Proofs about LLMGateway, for any configurations, sessions and requests, *)
(* any max_retries and any threshold.                                      *)
(***************************************************************************)
EXTENDS LLMGateway, TLAPS

\* Go changes one request only.
LEMMA GoOnly ==
  ASSUME NEW r \in Requests, NEW q, TypeOK, Go(r, q)
  PROVE  /\ request'[r] = q
         /\ \A p \in Requests \ {r} : request'[p] = request[p]
         /\ q \in Requested => request' \in [Requests -> Requested]
BY DEF Go, TypeOK

LEMMA IdleType == Idle \in Requested
BY BoundsAssumption DEF Idle, Requested, Pcs

LEMMA RecordSessionType ==
  ASSUME TypeOK, NEW s \in Sessions, NEW c, RecordSession(s, c)
  PROVE  /\ usage' \in [Configs -> SUBSET Sessions]
         /\ sticky' \in [Sessions -> Configs \cup {None}]
BY DEF RecordSession, TypeOK

LEMMA LookedType ==
  ASSUME TypeOK, NEW S, Looked(S)
  PROVE  /\ failures' \in [Configs -> 0 .. Threshold]
         /\ cooling' \in [Configs -> {"no", "yes", "over"}]
BY BoundsAssumption DEF Looked, TypeOK

LEMMA RecordFailureType ==
  ASSUME TypeOK, NEW c \in Configs, RecordFailure(c)
  PROVE  /\ failures' \in [Configs -> 0 .. Threshold]
         /\ cooling' \in [Configs -> {"no", "yes", "over"}]
<1>1. failures[c] \in 0 .. Threshold
  BY DEF TypeOK
<1>2. (IF failures[c] = Threshold THEN Threshold ELSE failures[c] + 1) \in 0 .. Threshold
  BY <1>1, BoundsAssumption
<1> QED
  BY <1>2 DEF RecordFailure, TypeOK

LEMMA RecordSuccessType ==
  ASSUME TypeOK, NEW c \in Configs, RecordSuccess(c)
  PROVE  /\ failures' \in [Configs -> 0 .. Threshold]
         /\ cooling' \in [Configs -> {"no", "yes", "over"}]
BY BoundsAssumption DEF RecordSuccess, TypeOK

LEMMA ClearStickyType ==
  ASSUME TypeOK, NEW s \in Sessions, NEW c, ClearSticky(s, c)
  PROVE  sticky' \in [Sessions -> Configs \cup {None}]
BY DEF ClearSticky, TypeOK

\* A selection keeps the window's type, and what it finds is a configuration of
\* the pool that is not excluded, the own one, or none.
LEMMA SelectType ==
  ASSUME TypeOK, NEW s \in Sessions, NEW excluded \in SUBSET Configs,
         NEW c \in Configs \cup {Own, None}, SelectConfig(s, excluded, c)
  PROVE  /\ usage' \in [Configs -> SUBSET Sessions]
         /\ sticky' \in [Sessions -> Configs \cup {None}]
         /\ failures' \in [Configs -> 0 .. Threshold]
         /\ cooling' \in [Configs -> {"no", "yes", "over"}]
<1>1. CASE c = Own /\ UNCHANGED window
  BY <1>1 DEF window, TypeOK
<1>2. CASE SelectPooled(s, excluded, c)
  <2>1. CASE Sticks(s, excluded)
    <3>1. Looked({c}) /\ RecordSession(s, c)
      BY <1>2, <2>1 DEF SelectPooled
    <3> QED BY <3>1, LookedType, RecordSessionType
  <2>2. CASE ~Sticks(s, excluded)
    <3>1. Looked(pool \ excluded) /\ RecordSession(s, c)
      BY <1>2, <2>2 DEF SelectPooled
    <3> QED BY <3>1, LookedType, RecordSessionType
  <2> QED BY <2>1, <2>2
<1> QED BY <1>1, <1>2 DEF SelectConfig

LEMMA SelectNotExcluded ==
  ASSUME NEW s, NEW excluded, NEW c \in Configs, SelectConfig(s, excluded, c)
  PROVE  c \notin excluded
<1>1. SelectPooled(s, excluded, c)
  BY NamesAssumption DEF SelectConfig
<1>2. CASE Sticks(s, excluded)
  BY <1>1, <1>2 DEF SelectPooled, Sticks
<1>3. CASE ~Sticks(s, excluded)
  <2>1. c \in LeastBusy(Candidates(pool \ excluded))
    BY <1>1, <1>3, NamesAssumption DEF SelectPooled
  <2>2. c \in pool \ excluded
    BY <2>1 DEF LeastBusy, Candidates
  <2> QED BY <2>2
<1> QED BY <1>2, <1>3

-----------------------------------------------------------------------------
(* The invariant: what a request's local variables say about each other.   *)

Good(r, q) ==
    /\ q.pc # "idle" => q.s \in Sessions
    /\ q.emitted => q.pc = "call"
    /\ r \in Chats => /\ q.pc # "again"
                      /\ q.pc = "call" => q.config \notin q.excluded

WindowType ==
    /\ usage \in [Configs -> SUBSET Sessions]
    /\ sticky \in [Sessions -> Configs \cup {None}]
    /\ failures \in [Configs -> 0 .. Threshold]
    /\ cooling \in [Configs -> {"no", "yes", "over"}]

Inv == TypeOK /\ \A r \in Requests : Good(r, request[r])

LEMMA InvInit == Init => Inv
<1> SUFFICES ASSUME Init PROVE Inv
  OBVIOUS
<1>1. TypeOK
  BY IdleType, BoundsAssumption DEF Init, TypeOK
<1>2. \A r \in Requests : Good(r, request[r])
  BY DEF Init, Good, Idle
<1> QED BY <1>1, <1>2 DEF Inv

\* What is left to show of a step of request r.
LEMMA RequestMoves ==
  ASSUME Inv, NEW r \in Requests, NEW q \in Requested, Go(r, q), Good(r, q),
         WindowType', UNCHANGED pool
  PROVE  Inv'
<1>1. TypeOK
  BY DEF Inv
<1>2. TypeOK'
  BY <1>1, GoOnly DEF TypeOK, WindowType
<1>3. ASSUME NEW p \in Requests PROVE Good(p, request'[p])
  BY <1>1, GoOnly DEF Inv
<1> QED BY <1>2, <1>3 DEF Inv

LEMMA EndGood == ASSUME NEW r PROVE Idle \in Requested /\ Good(r, Idle)
BY IdleType DEF Idle, Good

LEMMA StartInv ==
  ASSUME Inv, NEW r \in Requests, NEW s \in Sessions, Start(r, s) PROVE Inv'
<1> DEFINE q == [Idle EXCEPT !.pc = "select", !.s = s]
<1>1. q \in Requested
  BY IdleType DEF Requested, Pcs
<1>2. Good(r, q)
  BY DEF Idle, Good
<1>3. WindowType' /\ UNCHANGED pool /\ Go(r, q)
  BY DEF Start, window, WindowType, Inv, TypeOK
<1> QED BY <1>1, <1>2, <1>3, RequestMoves

LEMMA SelectInv ==
  ASSUME Inv, NEW r \in Requests, NEW c \in Configs \cup {Own, None}, Select(r, c)
  PROVE  Inv'
<1> DEFINE q == request[r]
<1>1. q \in Requested /\ Good(r, q) /\ q.pc = "select" /\ TypeOK
  BY DEF Inv, TypeOK, Select
<1>2. q.s \in Sessions /\ q.excluded \in SUBSET Configs /\ SelectConfig(q.s, q.excluded, c)
  BY <1>1 DEF Good, Requested, Select
<1>3. WindowType' /\ UNCHANGED pool
  BY <1>1, <1>2, SelectType DEF WindowType, Select
<1>4. CASE c = None
  <2>1. Go(r, Idle)
    BY <1>4 DEF Select, Ends
  <2> QED BY <2>1, <1>3, EndGood, RequestMoves
<1>5. CASE c # None
  <2> DEFINE n == [q EXCEPT !.pc = "call", !.config = c]
  <2>1. Go(r, n)
    BY <1>5 DEF Select
  <2>2. n \in Requested
    BY <1>1 DEF Requested, Pcs
  <2>3. c \notin q.excluded
    BY <1>2, <1>5, SelectNotExcluded, NamesAssumption
  <2>4. Good(r, n)
    BY <1>1, <1>2, <2>3 DEF Good, Requested
  <2> QED BY <2>1, <2>2, <2>4, <1>3, RequestMoves
<1> QED BY <1>4, <1>5

LEMMA ReselectInv ==
  ASSUME Inv, NEW r \in Requests, NEW c \in Configs \cup {Own, None}, Reselect(r, c)
  PROVE  Inv'
<1> DEFINE q == request[r]
<1>1. q \in Requested /\ Good(r, q) /\ q.pc = "again" /\ TypeOK
  BY DEF Inv, TypeOK, Reselect
<1>2. q.s \in Sessions /\ q.excluded \in SUBSET Configs /\ SelectConfig(q.s, q.excluded, c)
  BY <1>1 DEF Good, Requested, Reselect
<1>3. WindowType' /\ UNCHANGED pool
  BY <1>1, <1>2, SelectType DEF WindowType, Reselect
<1>4. r \notin Chats /\ ~q.emitted
  BY <1>1 DEF Good
<1>5. CASE c # None /\ q.attempt < MaxRetries
  <2> DEFINE n == [q EXCEPT !.pc = "call", !.config = c, !.attempt = @ + 1,
                            !.retryable = FALSE]
  <2>1. Go(r, n)
    BY <1>5 DEF Reselect
  <2>2. n \in Requested
    <3>1. q.attempt \in 0 .. MaxRetries
      BY <1>1 DEF Requested
    <3>2. q.attempt + 1 \in 0 .. MaxRetries
      BY <3>1, <1>5, BoundsAssumption
    <3> QED BY <1>1, <1>5, <3>2 DEF Requested, Pcs
  <2>3. Good(r, n)
    BY <1>1, <1>2, <1>4 DEF Good, Requested
  <2> QED BY <2>1, <2>2, <2>3, <1>3, RequestMoves
<1>6. CASE c = None /\ q.retryable /\ q.attempt < MaxRetries
  <2> DEFINE n == [q EXCEPT !.pc = "call", !.attempt = @ + 1, !.retryable = FALSE]
  <2>1. Go(r, n)
    BY <1>6 DEF Reselect
  <2>2. n \in Requested
    <3>1. q.attempt \in 0 .. MaxRetries
      BY <1>1 DEF Requested
    <3>2. q.attempt + 1 \in 0 .. MaxRetries
      BY <3>1, <1>6, BoundsAssumption
    <3> QED BY <1>1, <1>6, <3>2 DEF Requested, Pcs
  <2>3. Good(r, n)
    BY <1>1, <1>2, <1>4 DEF Good, Requested
  <2> QED BY <2>1, <2>2, <2>3, <1>3, RequestMoves
<1>7. CASE /\ ~(c # None /\ q.attempt < MaxRetries)
           /\ ~(c = None /\ q.retryable /\ q.attempt < MaxRetries)
  <2>1. Go(r, Idle)
    BY <1>7 DEF Reselect, Ends
  <2> QED BY <2>1, <1>3, EndGood, RequestMoves
<1> QED BY <1>5, <1>6, <1>7

LEMMA OutputInv ==
  ASSUME Inv, NEW r \in Requests, Output(r) PROVE Inv'
<1> DEFINE q == request[r]
           n == [q EXCEPT !.emitted = TRUE]
<1>1. q \in Requested /\ Good(r, q) /\ q.pc = "call"
  BY DEF Inv, TypeOK, Output
<1>2. n \in Requested /\ Good(r, n)
  BY <1>1 DEF Requested, Good
<1>3. WindowType' /\ UNCHANGED pool /\ Go(r, n)
  BY DEF Output, window, WindowType, Inv, TypeOK
<1> QED BY <1>2, <1>3, RequestMoves

\* The steps that end a request.
LEMMA EndsInv ==
  ASSUME Inv, NEW r \in Requests, Succeeds(r) \/ GivesUp(r) \/ FailsLate(r)
  PROVE  Inv'
<1>1. TypeOK
  BY DEF Inv
<1>2. UNCHANGED pool /\ Go(r, Idle)
  BY DEF Succeeds, GivesUp, FailsLate, Ends
<1>3. WindowType'
  <2>1. CASE GivesUp(r) \/ UNCHANGED window
    BY <1>1, <2>1 DEF GivesUp, window, WindowType, TypeOK
  <2>2. CASE Succeeds(r)
    BY <1>1, <2>2, RecordSuccessType DEF Succeeds, Pooled, WindowType, TypeOK
  <2>3. CASE FailsLate(r)
    BY <1>1, <2>3, RecordFailureType DEF FailsLate, Pooled, WindowType, TypeOK
  <2> QED BY <2>1, <2>2, <2>3
<1> QED BY <1>2, <1>3, EndGood, RequestMoves

LEMMA FailsEarlyInv ==
  ASSUME Inv, NEW r \in Requests, NEW retryable \in BOOLEAN, FailsEarly(r, retryable)
  PROVE  Inv'
<1> DEFINE q == request[r]
           n == [q EXCEPT !.pc = IF r \in Chats THEN "select" ELSE "again",
                          !.excluded = @ \cup {q.config},
                          !.retryable = retryable /\ r \in Streams]
<1>1. q \in Requested /\ Good(r, q) /\ TypeOK /\ q.pc = "call" /\ ~q.emitted
  BY DEF Inv, TypeOK, FailsEarly
<1>2. q.s \in Sessions /\ q.config \in Configs
  BY <1>1 DEF Good, FailsEarly, Pooled
<1>3. n \in Requested
  <2>1. (retryable /\ r \in Streams) \in BOOLEAN
    OBVIOUS
  <2>2. (IF r \in Chats THEN "select" ELSE "again") \in Pcs
    BY DEF Pcs
  <2>3. q.excluded \cup {q.config} \in SUBSET Configs
    BY <1>1, <1>2 DEF Requested
  <2> QED BY <1>1, <2>1, <2>2, <2>3 DEF Requested
<1>4. Good(r, n)
  <2>1. n.pc = (IF r \in Chats THEN "select" ELSE "again") /\ n.s = q.s /\ n.emitted = q.emitted
    BY <1>1 DEF Requested
  <2> QED BY <1>1, <1>2, <2>1 DEF Good
<1>5. UNCHANGED pool /\ Go(r, n)
  BY DEF FailsEarly
<1>6. WindowType'
  BY <1>1, <1>2, RecordFailureType, ClearStickyType DEF FailsEarly, WindowType, TypeOK
<1> QED BY <1>3, <1>4, <1>5, <1>6, RequestMoves

LEMMA OwnFailsInv ==
  ASSUME Inv, NEW r \in Requests, NEW retryable \in BOOLEAN, OwnFails(r, retryable)
  PROVE  Inv'
<1> DEFINE q == request[r]
           retries == r \in Streams /\ ~q.emitted /\ retryable /\ q.attempt < MaxRetries
<1>1. q \in Requested /\ Good(r, q) /\ TypeOK /\ q.pc = "call"
  BY DEF Inv, TypeOK, OwnFails
<1>2. WindowType' /\ UNCHANGED pool
  BY <1>1 DEF OwnFails, window, WindowType, TypeOK
<1>3. CASE retries
  <2> DEFINE n == [q EXCEPT !.attempt = @ + 1]
  <2>1. Go(r, n)
    BY <1>3 DEF OwnFails
  <2>2. q.attempt \in 0 .. MaxRetries
    BY <1>1 DEF Requested
  <2>3. q.attempt + 1 \in 0 .. MaxRetries
    BY <1>3, <2>2, BoundsAssumption
  <2>4. n \in Requested /\ Good(r, n)
    BY <1>1, <2>3 DEF Requested, Good
  <2> QED BY <2>1, <2>4, <1>2, RequestMoves
<1>4. CASE ~retries
  <2>1. Go(r, Idle)
    BY <1>4 DEF OwnFails, Ends
  <2> QED BY <2>1, <1>2, EndGood, RequestMoves
<1> QED BY <1>3, <1>4

\* Steps that move no request.
LEMMA OtherInv ==
  ASSUME Inv, Clock \/ (\E c \in Configs : Administer(c)) \/ UNCHANGED vars
  PROVE  Inv'
<1>1. TypeOK
  BY DEF Inv
<1>2. UNCHANGED request
  BY DEF Clock, UsageExpires, StickyExpires, FailureAges, CooldownEnds, Administer, vars
<1>3. TypeOK'
  <2>1. CASE UNCHANGED vars
    BY <1>1, <2>1 DEF vars, window, TypeOK
  <2>2. ASSUME NEW c \in Configs, Administer(c) PROVE TypeOK'
    BY <1>1, <2>2 DEF Administer, window, TypeOK
  <2>3. ASSUME NEW c \in Configs, NEW s \in Sessions, UsageExpires(c, s) PROVE TypeOK'
    BY <1>1, <2>3 DEF UsageExpires, TypeOK
  <2>4. ASSUME NEW s \in Sessions, StickyExpires(s) PROVE TypeOK'
    BY <1>1, <2>4 DEF StickyExpires, TypeOK
  <2>5. ASSUME NEW c \in Configs, FailureAges(c) PROVE TypeOK'
    <3>1. failures[c] \in 0 .. Threshold /\ failures[c] > 0
      BY <1>1, <2>5 DEF FailureAges, TypeOK
    <3>2. failures[c] - 1 \in 0 .. Threshold
      BY <3>1, BoundsAssumption
    <3> QED BY <1>1, <2>5, <3>2 DEF FailureAges, TypeOK
  <2>6. ASSUME NEW c \in Configs, CooldownEnds(c) PROVE TypeOK'
    BY <1>1, <2>6 DEF CooldownEnds, TypeOK
  <2> QED BY <2>1, <2>2, <2>3, <2>4, <2>5, <2>6 DEF Clock
<1> QED BY <1>2, <1>3 DEF Inv

LEMMA InvStep == Inv /\ [Next]_vars => Inv'
<1> SUFFICES ASSUME Inv, [Next]_vars PROVE Inv'
  OBVIOUS
<1>1. ASSUME NEW r \in Requests, RequestStep(r) PROVE Inv'
  <2>1. CASE \E s \in Sessions : Start(r, s)
    BY <2>1, StartInv
  <2>2. CASE Selects(r)
    BY <2>2, SelectInv, ReselectInv DEF Selects
  <2>3. CASE Output(r)
    BY <2>3, OutputInv
  <2>4. CASE CallEnds(r)
    BY <2>4, EndsInv, FailsEarlyInv, OwnFailsInv DEF CallEnds, ProviderError
  <2> QED BY <1>1, <2>1, <2>2, <2>3, <2>4 DEF RequestStep
<1> QED BY <1>1, OtherInv DEF Next

LEMMA Invariance == Spec => []Inv
BY InvInit, InvStep, PTL DEF Spec

-----------------------------------------------------------------------------
(* Theorems. *)

\* The window and the requests of gateway.py keep their shape, and no stream
\* retries more than max_retries times.
THEOREM TypeCorrect == Spec => []TypeOK
<1>1. Inv => TypeOK
  BY DEF Inv
<1> QED BY <1>1, Invariance, PTL

\* The chat loop never calls a configuration that failed it.
THEOREM ChatFailover == Spec => []FailedNotTriedAgain
<1>1. Inv => FailedNotTriedAgain
  BY DEF Inv, Good, FailedNotTriedAgain, Requests
<1> QED BY <1>1, Invariance, PTL

\* How a request moves in a step: every property of steps follows.
Moves(r, p, q) ==
    \/ q = p
    \/ p.pc = "idle" \/ q.pc = "idle"
    \/ p.pc = "call" /\ ~p.emitted /\ q = [p EXCEPT !.emitted = TRUE]
    \/ p.pc = "call" /\ ~p.emitted /\ q = [p EXCEPT !.attempt = @ + 1]
    \/ /\ p.pc = "select"
       /\ \E c \in Configs \cup {Own} :
            SelectConfig(p.s, p.excluded, c) /\ q = [p EXCEPT !.pc = "call", !.config = c]
    \/ /\ p.pc = "again"
       /\ \E c \in Configs \cup {Own} :
            /\ SelectConfig(p.s, p.excluded, c)
            /\ q = [p EXCEPT !.pc = "call", !.config = c, !.attempt = @ + 1,
                             !.retryable = FALSE]
    \/ /\ p.pc = "again" /\ SelectConfig(p.s, p.excluded, None)
       /\ q = [p EXCEPT !.pc = "call", !.attempt = @ + 1, !.retryable = FALSE]
    \/ /\ p.pc = "call" /\ ~p.emitted /\ p.config \in Configs
       /\ \E retryable \in BOOLEAN :
            q = [p EXCEPT !.pc = IF r \in Chats THEN "select" ELSE "again",
                          !.excluded = @ \cup {p.config}, !.retryable = retryable]

LEMMA StepMoves ==
  ASSUME Inv, [Next]_vars, NEW r \in Requests
  PROVE  Moves(r, request[r], request'[r])
<1> DEFINE p == request[r]
           q == request'[r]
<1>1. TypeOK /\ p \in Requested
  BY DEF Inv, TypeOK
<1>2. CASE UNCHANGED request
  BY <1>2 DEF Moves
<1>3. ASSUME NEW o \in Requests \ {r}, NEW n, Go(o, n) PROVE Moves(r, p, q)
  BY <1>1, <1>3, GoOnly DEF Moves
<1>4. CASE \E s \in Sessions : Start(r, s)
  BY <1>4 DEF Start, Moves
<1>5. ASSUME NEW c \in Configs \cup {Own, None}, Select(r, c) PROVE Moves(r, p, q)
  <2>1. p.pc = "select" /\ SelectConfig(p.s, p.excluded, c)
    BY <1>5 DEF Select
  <2>2. CASE c = None
    <3>1. q = Idle
      BY <1>1, <1>5, <2>2, GoOnly DEF Select, Ends
    <3> QED BY <3>1 DEF Moves, Idle
  <2>3. CASE c # None
    <3>1. q = [p EXCEPT !.pc = "call", !.config = c]
      BY <1>1, <1>5, <2>3, GoOnly DEF Select
    <3>2. c \in Configs \cup {Own}
      BY <2>3
    <3> QED BY <3>1, <3>2, <2>1 DEF Moves
  <2> QED BY <2>2, <2>3
<1>6. ASSUME NEW c \in Configs \cup {Own, None}, Reselect(r, c) PROVE Moves(r, p, q)
  <2>1. p.pc = "again" /\ SelectConfig(p.s, p.excluded, c)
    BY <1>6 DEF Reselect
  <2>2. CASE c # None /\ p.attempt < MaxRetries
    <3>1. q = [p EXCEPT !.pc = "call", !.config = c, !.attempt = @ + 1,
                        !.retryable = FALSE]
      <4>1. Go(r, [p EXCEPT !.pc = "call", !.config = c, !.attempt = @ + 1,
                            !.retryable = FALSE])
        BY <1>6, <2>2 DEF Reselect
      <4> QED BY <1>1, <4>1, GoOnly
    <3>2. c \in Configs \cup {Own}
      BY <2>2
    <3> QED BY <3>1, <3>2, <2>1 DEF Moves
  <2>3. CASE c = None /\ p.retryable /\ p.attempt < MaxRetries
    <3>1. q = [p EXCEPT !.pc = "call", !.attempt = @ + 1, !.retryable = FALSE]
      <4>1. Go(r, [p EXCEPT !.pc = "call", !.attempt = @ + 1, !.retryable = FALSE])
        BY <1>6, <2>3 DEF Reselect
      <4> QED BY <1>1, <4>1, GoOnly
    <3> QED BY <3>1, <2>1, <2>3 DEF Moves
  <2>4. CASE /\ ~(c # None /\ p.attempt < MaxRetries)
             /\ ~(c = None /\ p.retryable /\ p.attempt < MaxRetries)
    <3>1. Go(r, Idle)
      BY <1>6, <2>4 DEF Reselect, Ends
    <3>2. q = Idle
      BY <1>1, <3>1, GoOnly
    <3> QED BY <3>2 DEF Moves, Idle
  <2> QED BY <2>2, <2>3, <2>4
<1>7. CASE Output(r)
  <2>1. q = [p EXCEPT !.emitted = TRUE]
    BY <1>1, <1>7, GoOnly DEF Output
  <2> QED BY <1>7, <2>1 DEF Output, Moves
<1>8. CASE Succeeds(r) \/ GivesUp(r) \/ FailsLate(r)
  <2>1. q = Idle
    BY <1>1, <1>8, GoOnly DEF Succeeds, GivesUp, FailsLate, Ends
  <2> QED BY <2>1 DEF Moves, Idle
<1>9. ASSUME NEW retryable \in BOOLEAN, FailsEarly(r, retryable) PROVE Moves(r, p, q)
  <2> DEFINE b == retryable /\ r \in Streams
  <2>1. q = [p EXCEPT !.pc = IF r \in Chats THEN "select" ELSE "again",
                      !.excluded = @ \cup {p.config}, !.retryable = b]
    <3>1. Go(r, [p EXCEPT !.pc = IF r \in Chats THEN "select" ELSE "again",
                          !.excluded = @ \cup {p.config}, !.retryable = b])
      BY <1>9 DEF FailsEarly
    <3> QED BY <1>1, <3>1, GoOnly
  <2>2. b \in BOOLEAN
    OBVIOUS
  <2>3. p.pc = "call" /\ ~p.emitted /\ p.config \in Configs
    BY <1>9 DEF FailsEarly, Pooled
  <2> HIDE DEF b
  <2> QED BY <2>1, <2>2, <2>3 DEF Moves
<1>10. ASSUME NEW retryable \in BOOLEAN, OwnFails(r, retryable) PROVE Moves(r, p, q)
  <2>1. CASE r \in Streams /\ ~p.emitted /\ retryable /\ p.attempt < MaxRetries
    <3>1. q = [p EXCEPT !.attempt = @ + 1]
      BY <1>1, <1>10, <2>1, GoOnly DEF OwnFails
    <3> QED BY <1>10, <2>1, <3>1 DEF OwnFails, Moves
  <2>2. CASE ~(r \in Streams /\ ~p.emitted /\ retryable /\ p.attempt < MaxRetries)
    <3>1. q = Idle
      BY <1>1, <1>10, <2>2, GoOnly DEF OwnFails, Ends
    <3> QED BY <3>1 DEF Moves, Idle
  <2> QED BY <2>1, <2>2
<1>11. CASE RequestStep(r)
  BY <1>4, <1>5, <1>6, <1>7, <1>8, <1>9, <1>10, <1>11
     DEF RequestStep, Selects, CallEnds, ProviderError
<1>12. ASSUME NEW o \in Requests \ {r}, RequestStep(o) PROVE Moves(r, p, q)
  <2>1. \E n : Go(o, n)
    BY <1>12 DEF RequestStep, Start, Selects, Select, Reselect, Output, CallEnds, Succeeds,
                 GivesUp, ProviderError, FailsEarly, FailsLate, OwnFails, Ends
  <2> QED BY <2>1, <1>3
<1>13. CASE UNCHANGED vars \/ Clock \/ \E c \in Configs : Administer(c)
  <2>1. UNCHANGED request
    BY <1>13 DEF vars, Clock, UsageExpires, StickyExpires, FailureAges, CooldownEnds, Administer
  <2> QED BY <2>1, <1>2
<1> QED BY <1>11, <1>12, <1>13 DEF Next

\* Once a request has put something out, no other call speaks for it.
THEOREM SingleVoice == Spec => OneVoice
<1>1. ASSUME Inv, [Next]_vars, NEW r \in Requests, request[r].emitted
      PROVE  request'[r].pc = "idle" \/ request'[r] = request[r]
  <2>1. request[r].pc = "call"
    BY <1>1 DEF Inv, Good
  <2>2. Moves(r, request[r], request'[r])
    BY <1>1, StepMoves
  <2> QED BY <1>1, <2>1, <2>2 DEF Moves
<1>2. Inv /\ [Next]_vars => [\A r \in Requests :
         request[r].emitted =>
           \/ request'[r].pc = "idle"
           \/ request'[r] = request[r]]_vars
  BY <1>1
<1> QED BY <1>2, Invariance, PTL DEF Spec, OneVoice

LEMMA SelectCooling ==
  ASSUME NEW s, NEW excluded, NEW c \in Configs, SelectConfig(s, excluded, c),
         cooling[c] = "yes"
  PROVE  \A d \in pool \ excluded : cooling[d] = "yes"
<1>1. SelectPooled(s, excluded, c)
  BY NamesAssumption DEF SelectConfig
<1>2. ~Sticks(s, excluded)
  BY <1>1 DEF SelectPooled, Sticks, Unhealthy
<1>3. c \in LeastBusy(Candidates(pool \ excluded))
  BY <1>1, <1>2, NamesAssumption DEF SelectPooled
<1>4. c \in Candidates(pool \ excluded)
  BY <1>3 DEF LeastBusy
<1> QED BY <1>4 DEF Candidates, Unhealthy

LEMMA SelectNothing ==
  ASSUME TypeOK, NEW s, NEW excluded, SelectConfig(s, excluded, None)
  PROVE  pool \ excluded = {}
<1>1. SelectPooled(s, excluded, None) /\ pool \subseteq Configs /\ None \notin Configs
  BY NamesAssumption DEF SelectConfig, TypeOK
<1>2. ~Sticks(s, excluded)
  BY <1>1 DEF SelectPooled, Sticks
<1>3. None \notin LeastBusy(Candidates(pool \ excluded))
  BY <1>1 DEF LeastBusy, Candidates
<1> QED BY <1>1, <1>2, <1>3 DEF SelectPooled

\* A cooling configuration is called only when nothing else is left.
THEOREM LastResort == Spec => CoolingIsLastResort
<1>1. ASSUME Inv, [Next]_vars, NEW r \in Requests,
             request[r].pc \in {"select", "again"}, request'[r].pc = "call",
             request'[r].config \in Configs, cooling[request'[r].config] = "yes"
      PROVE  \A d \in pool \ request[r].excluded : cooling[d] = "yes"
  <2> DEFINE p == request[r]
             q == request'[r]
  <2>1. TypeOK /\ p \in Requested
    BY <1>1 DEF Inv, TypeOK
  <2>2. \/ SelectConfig(p.s, p.excluded, None)
        \/ \E c \in Configs \cup {Own} : SelectConfig(p.s, p.excluded, c) /\ q.config = c
    <3>1. Moves(r, p, q)
      BY <1>1, StepMoves
    <3> QED BY <1>1, <2>1, <3>1 DEF Moves, Requested
  <2>3. CASE SelectConfig(p.s, p.excluded, None)
    BY <2>1, <2>3, SelectNothing
  <2>4. CASE SelectConfig(p.s, p.excluded, q.config)
    BY <1>1, <2>4, SelectCooling
  <2> QED BY <2>2, <2>3, <2>4
<1>2. Inv /\ [Next]_vars => [\A r \in Requests : LET c == request'[r].config IN
         /\ request[r].pc \in {"select", "again"} /\ request'[r].pc = "call"
         /\ c \in Configs /\ cooling[c] = "yes"
         => \A d \in pool \ request[r].excluded : cooling[d] = "yes"]_vars
  BY <1>1
<1> QED BY <1>2, Invariance, PTL DEF Spec, CoolingIsLastResort

\* No request fails over in circles: with finitely many configurations both
\* loops end.
THEOREM NoCircles == Spec => FailoverAdvances
<1>1. ASSUME Inv, [Next]_vars, NEW r \in Requests,
             request[r].pc # "idle", request'[r].pc # "idle", request'[r] # request[r]
      PROVE  Advanced(request[r], request'[r])
  <2> DEFINE p == request[r]
             q == request'[r]
  <2>1. p \in Requested /\ Good(r, p)
    BY <1>1 DEF Inv, TypeOK
  <2>2. Moves(r, p, q)
    BY <1>1, StepMoves
  <2>3. CASE q.attempt = p.attempt + 1 /\ q.excluded = p.excluded
    <3>1. p.attempt \in Int
      BY <2>1, BoundsAssumption DEF Requested
    <3> QED BY <2>3, <3>1 DEF Advanced
  <2>4. CASE /\ p.pc = "call" /\ ~p.emitted
             /\ q = [p EXCEPT !.emitted = TRUE]
    <3>1. q.attempt = p.attempt /\ q.excluded = p.excluded /\ q.pc = "call" /\ q.emitted
      BY <2>1, <2>4 DEF Requested
    <3> QED BY <2>4, <3>1 DEF Advanced, Stage
  <2>5. CASE p.pc = "select" /\ \E c \in Configs \cup {Own} : q = [p EXCEPT !.pc = "call", !.config = c]
    <3>1. q.attempt = p.attempt /\ q.excluded = p.excluded /\ q.pc = "call"
      BY <2>1, <2>5 DEF Requested
    <3> QED BY <2>5, <3>1 DEF Advanced, Stage
  <2>6. CASE /\ p.pc = "call" /\ ~p.emitted
             /\ \E b \in BOOLEAN :
                  q = [p EXCEPT !.pc = IF r \in Chats THEN "select" ELSE "again",
                                !.excluded = @ \cup {p.config}, !.retryable = b]
    <3>1. /\ q.attempt = p.attempt /\ q.excluded = p.excluded \cup {p.config}
          /\ q.pc = IF r \in Chats THEN "select" ELSE "again"
      BY <2>1, <2>6 DEF Requested
    <3>2. CASE p.config \notin p.excluded
      BY <3>1, <3>2 DEF Advanced
    <3>3. CASE p.config \in p.excluded
      <4>1. q.pc = "again" /\ q.excluded = p.excluded
        BY <2>1, <2>6, <3>1, <3>3 DEF Good
      <4> QED BY <2>6, <3>1, <4>1 DEF Advanced, Stage
    <3> QED BY <3>2, <3>3
  <2>7. \/ q.attempt = p.attempt + 1 /\ q.excluded = p.excluded
        \/ p.pc = "call" /\ ~p.emitted /\ q = [p EXCEPT !.emitted = TRUE]
        \/ p.pc = "select" /\ \E c \in Configs \cup {Own} : q = [p EXCEPT !.pc = "call", !.config = c]
        \/ /\ p.pc = "call" /\ ~p.emitted
           /\ \E b \in BOOLEAN :
                q = [p EXCEPT !.pc = IF r \in Chats THEN "select" ELSE "again",
                              !.excluded = @ \cup {p.config}, !.retryable = b]
    BY <1>1, <2>1, <2>2 DEF Moves, Requested
  <2> QED BY <2>3, <2>4, <2>5, <2>6, <2>7
<1>2. Inv /\ [Next]_vars => [\A r \in Requests :
         "idle" \notin {request[r].pc, request'[r].pc} /\ request'[r] # request[r]
         => Advanced(request[r], request'[r])]_vars
  BY <1>1
<1> QED BY <1>2, Invariance, PTL DEF Spec, FailoverAdvances
=============================================================================

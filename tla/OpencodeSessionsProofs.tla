------------------------ MODULE OpencodeSessionsProofs ------------------------
(***************************************************************************)
(* Proofs about OpencodeSessions, for any number of sessions, turns, keys  *)
(* and configurations.                                                     *)
(***************************************************************************)
EXTENDS MCOpencode, TLAPS

-----------------------------------------------------------------------------
(* Rows. *)

LEMMA RowType ==
  ASSUME NEW b \in Row, NEW new \in Row, NEW changed
  PROVE  Rewritten(b, new, changed) \in Row
BY DEF Rewritten, Row

\* What a job or a restart writes keeps key and history; a restart keeps the
\* status too.
LEMMA StaleType ==
  ASSUME NEW b \in Row \cup {None}
  PROVE  /\ Stale(b) \in Row \cup {None}
         /\ Stale(b) = None <=> b = None
         /\ b # None => Stale(b).key = b.key /\ Stale(b).status = b.status
BY NoRowAssumption DEF Stale, Row

-----------------------------------------------------------------------------
(* Type correctness.  A turn that has begun has a session and a            *)
(* configuration, one that inserts a row has a key, and a job that marks   *)
(* has a session.                                                          *)

GoodTurn ==
    {r \in TurnState : /\ r.pc # "idle" => r.s \in Sessions /\ r.config \in Configs
                       /\ r.pc = "insert" => r.key \in Keys}

GoodSweep == {r \in SweepState : r.pc = "mark" => r.s \in Sessions}

Sound == /\ TypeOK
         /\ turn \in [Turns -> GoodTurn]
         /\ sweep \in [Jobs -> GoodSweep]

LEMMA IdleTypes == TurnIdle \in GoodTurn /\ SweepIdle \in GoodSweep
BY DEF TurnIdle, GoodTurn, TurnState, SweepIdle, GoodSweep, SweepState

LEMMA TurnTyped ==
  ASSUME Sound, NEW t \in Turns, NEW r \in GoodTurn, TurnAt(t, r)
  PROVE  turn' \in [Turns -> GoodTurn] /\ turn' \in [Turns -> TurnState]
BY DEF Sound, TurnAt, GoodTurn

LEMMA SweepTyped ==
  ASSUME Sound, NEW j \in Jobs, NEW r \in GoodSweep, SweepAt(j, r)
  PROVE  sweep' \in [Jobs -> GoodSweep] /\ sweep' \in [Jobs -> SweepState]
BY DEF Sound, SweepAt, GoodSweep

LEMMA EndsTyped ==
  ASSUME Sound, NEW t \in Turns, TurnEnds(t)
  PROVE  turn' \in [Turns -> GoodTurn] /\ turn' \in [Turns -> TurnState]
BY IdleTypes, TurnTyped DEF TurnEnds

\* A step to another pc, with the session and configuration it has.
LEMMA GotoTyped ==
  ASSUME Sound, NEW t \in Turns, Goto(t, "prompt") \/ Goto(t, "update") \/ Goto(t, "dispose"),
         turn[t].pc # "idle"
  PROVE  turn' \in [Turns -> GoodTurn] /\ turn' \in [Turns -> TurnState]
<1> DEFINE At(pc) == [turn[t] EXCEPT !.pc = pc]
<1>1. turn[t] \in GoodTurn
  BY DEF Sound
<1>2. At("prompt") \in GoodTurn /\ At("update") \in GoodTurn /\ At("dispose") \in GoodTurn
  BY <1>1 DEF GoodTurn, TurnState
<1> QED
  BY <1>2, TurnTyped DEF Goto

LEMMA FaultTyped == ASSUME Sound, Fault PROVE faults' \in 0 .. MaxFaults
BY MaxFaultsAssumption DEF Sound, TypeOK, Fault

LEMMA BootedType ==
  ASSUME Sound, NEW s \in Sessions
  PROVE  Booted(s) \in [Sessions -> Configs \cup {NoFile, None}]
BY DEF Booted, Sound, TypeOK

LEMMA MadeType ==
  ASSUME Sound, NEW s
  PROVE  Made(s) \in [Sessions -> Configs \cup {NoFile, None}]
BY DEF Made, Sound, TypeOK

LEMMA StartTypes ==
  ASSUME Sound, NEW t \in Turns,
         \/ \E s \in Sessions, c \in Configs : Post(t, s, c)
         \/ PrepareWorkspace(t) \/ ReadBinding(t) \/ WriteConfig(t)
  PROVE  Sound'
<1>0. turn[t] \in GoodTurn
  BY DEF Sound
<1>1. CASE \E s \in Sessions, c \in Configs : Post(t, s, c)
  <2> SUFFICES ASSUME NEW s \in Sessions, NEW c \in Configs, Post(t, s, c) PROVE Sound'
    BY <1>1
  <2>1. [TurnIdle EXCEPT !.pc = "prepare", !.s = s, !.config = c] \in GoodTurn
    BY DEF TurnIdle, GoodTurn, TurnState
  <2>2. turn' \in [Turns -> GoodTurn] /\ turn' \in [Turns -> TurnState]
    BY <2>1, TurnTyped DEF Post
  <2> QED
    BY <2>2 DEF Post, Sound, TypeOK
<1>2. CASE PrepareWorkspace(t)
  <2>1. [turn[t] EXCEPT !.pc = "read", !.server = "current"] \in GoodTurn
    BY <1>0, <1>2 DEF PrepareWorkspace, GoodTurn, TurnState
  <2>2. turn' \in [Turns -> GoodTurn] /\ turn' \in [Turns -> TurnState]
    BY <1>2, <2>1, TurnTyped DEF PrepareWorkspace
  <2>3. dir' \in [Sessions -> Configs \cup {NoFile, None}]
    BY <1>2, MadeType DEF PrepareWorkspace
  <2> QED
    BY <1>2, <2>2, <2>3 DEF PrepareWorkspace, Sound, TypeOK
<1>3. CASE ReadBinding(t)
  <2> DEFINE b == binding[turn[t].s]
  <2>1. b \in Row \cup {None}
    BY <1>0, <1>3 DEF ReadBinding, GoodTurn, Sound, TypeOK
  <2>2. [turn[t] EXCEPT !.pc = "write", !.seen = b] \in GoodTurn
    BY <1>0, <1>3, <2>1 DEF ReadBinding, GoodTurn, TurnState
  <2>3. turn' \in [Turns -> GoodTurn] /\ turn' \in [Turns -> TurnState]
    BY <1>3, <2>2, TurnTyped, EndsTyped DEF ReadBinding
  <2> QED
    BY <1>3, <2>3 DEF ReadBinding, Sound, TypeOK
<1>4. CASE WriteConfig(t)
  <2> PICK ambient \in BOOLEAN :
        LET s == turn[t].s
            next == CASE turn[t].seen = None -> "create"
                      [] turn[t].seen # None /\ NeedsProbe(turn[t].seen) -> "probe"
                      [] OTHER -> IF ProviderChanged(t) THEN "dispose" ELSE "update"
        IN IF dir[s] = None THEN TurnEnds(t) /\ UNCHANGED dir
           ELSE /\ TurnAt(t, [turn[t] EXCEPT !.pc = next, !.ambient = ambient])
                /\ dir' = IF ambient \/ MustWrite(t)
                            THEN [dir EXCEPT ![s] = turn[t].config] ELSE dir
    BY <1>4 DEF WriteConfig
  <2> DEFINE next == CASE turn[t].seen = None -> "create"
                       [] turn[t].seen # None /\ NeedsProbe(turn[t].seen) -> "probe"
                       [] OTHER -> IF ProviderChanged(t) THEN "dispose" ELSE "update"
             r == [turn[t] EXCEPT !.pc = next, !.ambient = ambient]
  <2>1. next \in {"create", "probe", "dispose", "update"}
    OBVIOUS
  <2>2. r \in GoodTurn
    <3> HIDE DEF next
    <3> QED
      BY <1>0, <1>4, <2>1 DEF WriteConfig, GoodTurn, TurnState
  <2>3. turn[t].config \in Configs
    BY <1>0, <1>4 DEF WriteConfig, GoodTurn
  <2>4. TurnEnds(t) \/ TurnAt(t, r)
    OBVIOUS
  <2>5. dir' \in [Sessions -> Configs \cup {NoFile, None}]
    BY <2>3 DEF Sound, TypeOK
  <2>6. turn' \in [Turns -> GoodTurn] /\ turn' \in [Turns -> TurnState]
    BY <2>2, <2>4, TurnTyped, EndsTyped
  <2> QED
    BY <1>4, <2>5, <2>6 DEF WriteConfig, Sound, TypeOK
<1> QED
  BY <1>1, <1>2, <1>3, <1>4

LEMMA ServerTypes ==
  ASSUME Sound, NEW t \in Turns,
         \/ Probe(t) \/ Dispose(t) \/ DisposeFails(t) \/ CreateFails(t)
         \/ \E k \in Keys : CreateSession(t, k)
  PROVE  Sound'
<1>0. turn[t] \in GoodTurn
  BY DEF Sound
<1>1. CASE Probe(t)
  <2>1. turn[t].s \in Sessions
    BY <1>0, <1>1 DEF Probe, GoodTurn
  <2>2. loaded' \in [Sessions -> Configs \cup {NoFile, None}]
    BY <1>1, <2>1, BootedType DEF Probe, Sound, TypeOK
  <2>3. turn' \in [Turns -> GoodTurn] /\ turn' \in [Turns -> TurnState]
    BY <1>1, GotoTyped, EndsTyped DEF Probe
  <2>4. dir' \in [Sessions -> Configs \cup {NoFile, None}]
    BY <1>1, MadeType DEF Probe, Sound, TypeOK
  <2> QED
    BY <1>1, <2>2, <2>3, <2>4 DEF Probe, Sound, TypeOK
<1>2. CASE Dispose(t)
  <2>1. turn' \in [Turns -> GoodTurn] /\ turn' \in [Turns -> TurnState]
    BY <1>2, GotoTyped DEF Dispose
  <2> QED
    BY <1>2, <2>1 DEF Dispose, Sound, TypeOK
<1>3. CASE DisposeFails(t)
  <2>1. [turn[t] EXCEPT !.pc = "update", !.persist = FALSE] \in GoodTurn
    BY <1>0, <1>3 DEF DisposeFails, GoodTurn, TurnState
  <2>2. turn' \in [Turns -> GoodTurn] /\ turn' \in [Turns -> TurnState]
    BY <1>3, <2>1, TurnTyped DEF DisposeFails
  <2>3. faults' \in 0 .. MaxFaults
    BY <1>3, FaultTyped DEF DisposeFails, Sound, TypeOK
  <2> QED
    BY <1>3, <2>2, <2>3 DEF DisposeFails, Sound, TypeOK
<1>4. CASE CreateFails(t)
  <2>1. turn' \in [Turns -> GoodTurn] /\ turn' \in [Turns -> TurnState]
    BY <1>4, EndsTyped DEF CreateFails
  <2>2. faults' \in 0 .. MaxFaults
    BY <1>4, FaultTyped DEF CreateFails, Sound, TypeOK
  <2> QED
    BY <1>4, <2>1, <2>2 DEF CreateFails, Sound, TypeOK
<1>5. CASE \E k \in Keys : CreateSession(t, k)
  <2> SUFFICES ASSUME NEW k \in Keys, CreateSession(t, k) PROVE Sound'
    BY <1>5
  <2>1. turn[t].s \in Sessions
    BY <1>0 DEF CreateSession, GoodTurn
  <2>2. [turn[t] EXCEPT !.pc = "insert", !.key = k] \in GoodTurn
    BY <1>0 DEF CreateSession, GoodTurn, TurnState
  <2>3. turn' \in [Turns -> GoodTurn] /\ turn' \in [Turns -> TurnState]
    BY <2>2, TurnTyped DEF CreateSession
  <2>4. loaded' \in [Sessions -> Configs \cup {NoFile, None}]
    BY <2>1, BootedType DEF CreateSession
  <2>5. history' \in [Keys -> Sessions \cup {None}]
    BY <2>1 DEF CreateSession, Sound, TypeOK
  <2> QED
    BY <2>3, <2>4, <2>5 DEF CreateSession, Sound, TypeOK
<1> QED
  BY <1>1, <1>2, <1>3, <1>4, <1>5

LEMMA BindTypes ==
  ASSUME Sound, NEW t \in Turns, UpdateBinding(t) \/ InsertBinding(t)
  PROVE  Sound'
<1>0. /\ turn[t] \in GoodTurn
      /\ turn[t].s \in Sessions /\ turn[t].config \in Configs
  BY DEF Sound, UpdateBinding, InsertBinding, GoodTurn
<1>1. CASE UpdateBinding(t)
  <2> DEFINE s == turn[t].s
             b == binding[s]
             new == [b EXCEPT !.status = "active", !.server = turn[t].server,
                              !.config = IF turn[t].persist THEN turn[t].config ELSE @]
             row == Rewritten(b, new, turn[t].ambient /\ turn[t].persist)
  <2>0. dir' \in [Sessions -> Configs \cup {NoFile, None}]
    BY <1>1, MadeType DEF UpdateBinding
  <2>1. CASE b = None
    <3>1. turn' \in [Turns -> GoodTurn] /\ turn' \in [Turns -> TurnState]
      BY <1>1, <2>1, EndsTyped DEF UpdateBinding
    <3> QED
      BY <1>1, <2>0, <2>1, <3>1 DEF UpdateBinding, Sound, TypeOK
  <2>2. CASE b # None
    <3>1. b \in Row
      BY <1>0, <2>2 DEF Sound, TypeOK
    <3>2. new \in Row
      BY <1>0, <3>1 DEF Row, Statuses, GoodTurn, TurnState
    <3>3. row \in Row
      BY <3>1, <3>2, RowType
    <3>4. binding' = [binding EXCEPT ![s] = row]
      BY <1>1, <2>2 DEF UpdateBinding
    <3>5. binding' \in [Sessions -> Row \cup {None}]
      BY <3>3, <3>4 DEF Sound, TypeOK
    <3>6. [turn[t] EXCEPT !.pc = "prompt", !.key = b.key] \in GoodTurn
      BY <1>0, <3>1 DEF GoodTurn, TurnState, Row
    <3>7. turn' \in [Turns -> GoodTurn] /\ turn' \in [Turns -> TurnState]
      BY <1>1, <2>2, <3>6, TurnTyped DEF UpdateBinding
    <3> QED
      BY <1>1, <2>0, <3>5, <3>7 DEF UpdateBinding, Sound, TypeOK
  <2> QED
    BY <2>1, <2>2
<1>2. CASE InsertBinding(t)
  <2> DEFINE row == [status |-> "active", key |-> turn[t].key, config |-> turn[t].config,
                     server |-> turn[t].server, age |-> "fresh"]
  <2>1. row \in Row
    BY <1>0, <1>2 DEF InsertBinding, Row, Statuses, GoodTurn, TurnState
  <2>2. binding' \in [Sessions -> Row \cup {None}]
    BY <1>0, <1>2, <2>1 DEF InsertBinding, Sound, TypeOK
  <2>3. turn' \in [Turns -> GoodTurn] /\ turn' \in [Turns -> TurnState]
    BY <1>2, GotoTyped, EndsTyped DEF InsertBinding
  <2> QED
    BY <1>2, <2>2, <2>3 DEF InsertBinding, Sound, TypeOK
<1> QED
  BY <1>1, <1>2

LEMMA RunTypes ==
  ASSUME Sound, NEW t \in Turns,
         Prompt(t) \/ StreamEvent(t) \/ StreamEnds(t) \/ Cancel(t)
  PROVE  Sound'
<1>0. turn[t] \in GoodTurn
  BY DEF Sound
<1>1. CASE Prompt(t)
  <2>1. turn[t].s \in Sessions
    BY <1>0, <1>1 DEF Prompt, GoodTurn
  <2>2. loaded' \in [Sessions -> Configs \cup {NoFile, None}]
    BY <1>1, <2>1, BootedType DEF Prompt
  <2>3. [turn[t] EXCEPT !.pc = "running", !.ran = loaded'[turn[t].s]] \in GoodTurn
    BY <1>0, <1>1, <2>1, <2>2 DEF Prompt, GoodTurn, TurnState
  <2>4. turn' \in [Turns -> GoodTurn] /\ turn' \in [Turns -> TurnState]
    BY <1>1, <2>3, TurnTyped, EndsTyped DEF Prompt
  <2>5. dir' \in [Sessions -> Configs \cup {NoFile, None}]
    BY <1>1, MadeType DEF Prompt
  <2> QED
    BY <1>1, <2>2, <2>4, <2>5 DEF Prompt, Sound, TypeOK
<1>2. CASE StreamEvent(t)
  BY <1>2, MadeType DEF StreamEvent, Sound, TypeOK
<1>3. CASE StreamEnds(t) \/ Cancel(t)
  <2>1. turn' \in [Turns -> GoodTurn] /\ turn' \in [Turns -> TurnState]
    BY <1>3, EndsTyped DEF StreamEnds, Cancel
  <2> QED
    BY <1>3, <2>1 DEF StreamEnds, Cancel, Sound, TypeOK
<1> QED
  BY <1>1, <1>2, <1>3

LEMMA SweepTypes ==
  ASSUME Sound, SweepsStep \/ \E s \in Sessions : ExpireFails(s)
  PROVE  Sound'
<1>0. \A j \in Jobs : sweep[j] \in GoodSweep
  BY DEF Sound
<1>1. ASSUME NEW j \in Jobs, StartSweep(j) PROVE Sound'
  <2>1. [pc |-> "act", todo |-> Listed(j), s |-> None] \in GoodSweep
    BY DEF GoodSweep, SweepState, Listed
  <2>2. sweep' \in [Jobs -> GoodSweep] /\ sweep' \in [Jobs -> SweepState]
    BY <1>1, <2>1, SweepTyped DEF StartSweep
  <2> QED
    BY <1>1, <2>2 DEF StartSweep, Sound, TypeOK
<1>2. ASSUME NEW j \in Jobs, EndSweep(j) PROVE Sound'
  <2>1. sweep' \in [Jobs -> GoodSweep] /\ sweep' \in [Jobs -> SweepState]
    BY <1>2, IdleTypes, SweepTyped DEF EndSweep
  <2> QED
    BY <1>2, <2>1 DEF EndSweep, Sound, TypeOK
<1>3. ASSUME NEW j \in Jobs, Mark(j) PROVE Sound'
  <2> DEFINE s == sweep[j].s
             b == binding[s]
             new == [b EXCEPT !.status = IF j = "cleanup" THEN "cleaned" ELSE "expired",
                              !.server = "stale"]
  <2>1. s \in Sessions
    BY <1>0, <1>3 DEF Mark, GoodSweep
  <2>2. binding' \in [Sessions -> Row \cup {None}]
    <3>1. CASE b = None
      BY <1>3, <3>1 DEF Mark, Sound, TypeOK
    <3>2. CASE b # None
      <4>1. b \in Row
        BY <2>1, <3>2 DEF Sound, TypeOK
      <4>2. new \in Row
        BY <4>1 DEF Row, Statuses
      <4>3. Rewritten(b, new, FALSE) \in Row
        BY <4>1, <4>2, RowType
      <4>4. binding' = [binding EXCEPT ![s] = Rewritten(b, new, FALSE)]
        BY <1>3, <3>2 DEF Mark
      <4> QED
        BY <4>3, <4>4 DEF Sound, TypeOK
    <3> QED
      BY <3>1, <3>2
  <2>3. [sweep[j] EXCEPT !.pc = "act", !.s = None] \in GoodSweep
    BY <1>0 DEF GoodSweep, SweepState
  <2>4. sweep' \in [Jobs -> GoodSweep] /\ sweep' \in [Jobs -> SweepState]
    BY <1>3, <2>3, SweepTyped DEF Mark, NextSession
  <2> QED
    BY <1>3, <2>2, <2>4 DEF Mark, Sound, TypeOK
<1>4. ASSUME NEW s \in Sessions, NEW j \in Jobs,
             \/ SweepAt(j, [pc |-> "mark", todo |-> sweep[j].todo \ {s}, s |-> s])
             \/ sweep[j].pc = "act" /\ SweepAt(j, [sweep[j] EXCEPT !.todo = @ \ {s}])
      PROVE  sweep' \in [Jobs -> GoodSweep] /\ sweep' \in [Jobs -> SweepState]
  <2>1. [pc |-> "mark", todo |-> sweep[j].todo \ {s}, s |-> s] \in GoodSweep
    BY <1>0 DEF GoodSweep, SweepState
  <2>2. sweep[j].pc = "act" => [sweep[j] EXCEPT !.todo = @ \ {s}] \in GoodSweep
    BY <1>0 DEF GoodSweep, SweepState
  <2> QED
    BY <1>4, <2>1, <2>2, SweepTyped
<1>5. ASSUME NEW s \in Sessions, CleanSession(s) PROVE Sound'
  <2>1. sweep' \in [Jobs -> GoodSweep] /\ sweep' \in [Jobs -> SweepState]
    BY <1>4, <1>5 DEF CleanSession, Jobs
  <2> QED
    BY <1>5, <2>1 DEF CleanSession, Sound, TypeOK
<1>6. ASSUME NEW s \in Sessions, ExpireSession(s) PROVE Sound'
  <2>1. sweep' \in [Jobs -> GoodSweep] /\ sweep' \in [Jobs -> SweepState]
    BY <1>4, <1>6 DEF ExpireSession, Jobs
  <2> QED
    BY <1>6, <2>1 DEF ExpireSession, Sound, TypeOK
<1>7. ASSUME NEW s \in Sessions, ExpireFails(s) PROVE Sound'
  <2>1. sweep' \in [Jobs -> GoodSweep] /\ sweep' \in [Jobs -> SweepState]
    BY <1>4, <1>7 DEF ExpireFails, Jobs
  <2>2. faults' \in 0 .. MaxFaults
    BY <1>7, FaultTyped DEF ExpireFails
  <2> QED
    BY <1>7, <2>1, <2>2 DEF ExpireFails, Sound, TypeOK
<1> QED
  BY <1>1, <1>2, <1>3, <1>5, <1>6, <1>7 DEF SweepsStep, SweepStep

LEMMA EnvTypes ==
  ASSUME Sound,
         \/ \E s \in Sessions : DeleteSession(s) \/ RemoveDirs(s) \/ RowAges(s)
         \/ ServerRestarts \/ Crash
  PROVE  Sound'
<1>1. ASSUME NEW s \in Sessions, DeleteSession(s) PROVE Sound'
  BY <1>1 DEF DeleteSession, Sound, TypeOK
<1>2. ASSUME NEW s \in Sessions, RemoveDirs(s) PROVE Sound'
  BY <1>2 DEF RemoveDirs, Sound, TypeOK
<1>3. ASSUME NEW s \in Sessions, RowAges(s) PROVE Sound'
  <2>1. binding[s] \in Row
    BY <1>3 DEF RowAges, Sound, TypeOK
  <2>2. [binding[s] EXCEPT !.age = "idle"] \in Row /\ [binding[s] EXCEPT !.age = "old"] \in Row
    BY <2>1 DEF Row
  <2>3. binding' \in [Sessions -> Row \cup {None}]
    BY <1>3, <2>2 DEF RowAges, Sound, TypeOK
  <2> QED
    BY <1>3, <2>3 DEF RowAges, Sound, TypeOK
<1>4. CASE ServerRestarts \/ Crash
  <2>1. binding' = [s \in Sessions |-> Stale(binding[s])]
    BY <1>4 DEF ServerRestarts, Crash
  <2>2. binding' \in [Sessions -> Row \cup {None}]
    BY <2>1, StaleType DEF Sound, TypeOK
  <2>3. turn' \in [Turns -> GoodTurn] /\ turn' \in [Turns -> TurnState]
    <3>1. CASE ServerRestarts
      <4>1. ASSUME NEW t \in Turns
            PROVE  [turn[t] EXCEPT !.server = "stale", !.seen = Stale(@)] \in GoodTurn
        <5>1. turn[t] \in GoodTurn /\ turn[t].seen \in Row \cup {None}
          BY DEF Sound, GoodTurn, TurnState
        <5> DEFINE seen == Stale(turn[t].seen)
        <5>2. seen \in Row \cup {None}
          BY <5>1, StaleType
        <5>3. [turn[t] EXCEPT !.server = "stale", !.seen = seen] \in GoodTurn
          <6> HIDE DEF seen
          <6> QED
            BY <5>1, <5>2 DEF GoodTurn, TurnState
        <5> QED
          BY <5>3
      <4> QED
        BY <3>1, <4>1 DEF ServerRestarts, GoodTurn
    <3>2. CASE Crash
      BY <3>2, IdleTypes DEF Crash, GoodTurn
    <3> QED
      BY <1>4, <3>1, <3>2
  <2>4. sweep' \in [Jobs -> GoodSweep] /\ sweep' \in [Jobs -> SweepState]
    BY <1>4, IdleTypes DEF ServerRestarts, Crash, Sound, TypeOK, GoodSweep
  <2>5. faults' \in 0 .. MaxFaults
    BY <1>4, FaultTyped DEF ServerRestarts, Crash
  <2>6. /\ chat' = chat /\ dir' = dir /\ history' = history
        /\ loaded' = [s \in Sessions |-> None]
        /\ deleting' \subseteq Sessions
    BY <1>4 DEF ServerRestarts, Crash, Sound, TypeOK
  <2> QED
    BY <2>2, <2>3, <2>4, <2>5, <2>6 DEF Sound, TypeOK
<1> QED
  BY <1>1, <1>2, <1>3, <1>4

LEMMA InitSound == Init => Sound
<1> SUFFICES ASSUME Init PROVE Sound
  OBVIOUS
<1>1. turn \in [Turns -> GoodTurn] /\ turn \in [Turns -> TurnState]
  BY IdleTypes DEF Init, GoodTurn
<1>2. sweep \in [Jobs -> GoodSweep] /\ sweep \in [Jobs -> SweepState]
  BY IdleTypes DEF Init, GoodSweep
<1>3. faults \in 0 .. MaxFaults
  BY MaxFaultsAssumption DEF Init
<1> QED
  BY <1>1, <1>2, <1>3 DEF Init, Sound, TypeOK

LEMMA NextSound == Sound /\ [Next]_vars => Sound'
<1> SUFFICES ASSUME Sound, [Next]_vars PROVE Sound'
  OBVIOUS
<1>1. CASE UNCHANGED vars
  BY <1>1 DEF vars, Sound, TypeOK
<1>2. CASE Normal
  BY <1>2, StartTypes, ServerTypes, BindTypes, RunTypes, SweepTypes, EnvTypes
     DEF Normal, Posts, TurnStep
<1>3. CASE Deletions \/ ServerRestarts \/ Crash
  BY <1>3, EnvTypes DEF Deletions
<1>4. CASE CallsFail
  BY <1>4, ServerTypes, SweepTypes DEF CallsFail
<1>5. CASE \E t \in Turns : Cancel(t)
  BY <1>5, RunTypes
<1> QED
  BY <1>1, <1>2, <1>3, <1>4, <1>5 DEF Next

\* Rows, files, turns and jobs keep their shape, whatever interleaves or fails.
THEOREM TypeCorrect == Spec => []TypeOK
<1>1. Sound => TypeOK
  BY DEF Sound
<1> QED
  BY <1>1, InitSound, NextSound, PTL DEF Spec

-----------------------------------------------------------------------------
(* One key for ever, and no history behind an expired row, when posts of a *)
(* session do not overlap.                                                 *)

Busy(t) == turn[t].pc # "idle"
OneTurnEach ==
    \A t, u \in Turns : Busy(t) /\ Busy(u) /\ turn[t].s = turn[u].s => t = u

\* A turn that goes on to create a session has no row to overwrite.
MayInsert(t) == \/ turn[t].pc \in {"create", "insert"}
                \/ turn[t].pc = "write" /\ turn[t].seen = None

FirstTurn == \A t \in Turns : MayInsert(t) => binding[turn[t].s] = None

\* A session a job holds has a row, or has been deleted.
Held == \A j \in Jobs, s \in Sessions :
          s \in sweep[j].todo \cup {sweep[j].s} => binding[s] # None \/ s \notin chat

\* What the expiry job is about to mark has no history.
AboutToMark ==
    sweep["expiry"].pc = "mark" =>
      LET b == binding[sweep["expiry"].s] IN b # None => history[b.key] = None

Resumable == Sound /\ FirstTurn /\ Held

\* Every step but an insertion leaves a row as it was as far as its key is
\* concerned, or takes it away with its session.
RowKept == \A s \in Sessions :
    \/ binding'[s] = None /\ (binding[s] = None \/ s \notin chat')
    \/ binding[s] # None /\ binding'[s] # None /\ binding'[s].key = binding[s].key

LEMMA RewrittenKeeps ==
  ASSUME NEW b \in Row, NEW new \in Row, new.key = b.key, NEW changed
  PROVE  /\ Rewritten(b, new, changed).key = b.key
         /\ Rewritten(b, new, changed).status = new.status
BY DEF Rewritten, Row

\* Mark rewrites the row of the job's session, if there still is one.
LEMMA MarkKeeps ==
  ASSUME Sound, NEW j \in Jobs, Mark(j)
  PROVE  /\ RowKept
         /\ sweep[j].s \in Sessions
         /\ \A s \in Sessions : s # sweep[j].s => binding'[s] = binding[s]
<1> DEFINE s == sweep[j].s
           b == binding[s]
           new == [b EXCEPT !.status = IF j = "cleanup" THEN "cleaned" ELSE "expired",
                            !.server = "stale"]
<1>1. s \in Sessions
  BY DEF Sound, GoodSweep, Mark
<1>2. CASE b = None
  BY <1>1, <1>2 DEF Mark, RowKept, Sound, TypeOK
<1>3. CASE b # None
  <2>1. b \in Row
    BY <1>1, <1>3 DEF Sound, TypeOK
  <2>2. new \in Row /\ new.key = b.key
    BY <2>1 DEF Row, Statuses
  <2>3. /\ Rewritten(b, new, FALSE) \in Row
        /\ Rewritten(b, new, FALSE).key = b.key
    <3> HIDE DEF new
    <3> QED
      BY <2>1, <2>2, RowType, RewrittenKeeps, ZenonT(40)
  <2>4. binding' = [binding EXCEPT ![s] = Rewritten(b, new, FALSE)]
    BY <1>3 DEF Mark
  <2> HIDE DEF new
  <2>5. binding'[s] # None /\ binding'[s].key = b.key
    BY <1>1, <2>3, <2>4, NoRowAssumption DEF Sound, TypeOK
  <2>6. \A r \in Sessions : r # s => binding'[r] = binding[r]
    BY <2>4 DEF Sound, TypeOK
  <2> QED
    BY <1>1, <1>3, <2>5, <2>6 DEF RowKept
<1> QED
  BY <1>2, <1>3

LEMMA UpdateKeeps ==
  ASSUME Sound, NEW t \in Turns, UpdateBinding(t)
  PROVE  /\ RowKept
         /\ \A s \in Sessions :
              \/ binding'[s] = binding[s]
              \/ binding'[s].status = "active"
<1> DEFINE s == turn[t].s
           b == binding[s]
           new == [b EXCEPT !.status = "active", !.server = turn[t].server,
                            !.config = IF turn[t].persist THEN turn[t].config ELSE @]
           row == Rewritten(b, new, turn[t].ambient /\ turn[t].persist)
<1>1. turn[t] \in GoodTurn /\ s \in Sessions /\ turn[t].config \in Configs
  BY DEF Sound, GoodTurn, UpdateBinding
<1>2. CASE b = None
  BY <1>1, <1>2 DEF UpdateBinding, RowKept, Sound, TypeOK
<1>3. CASE b # None
  <2>1. b \in Row
    BY <1>1, <1>3 DEF Sound, TypeOK
  <2>2. new \in Row /\ new.key = b.key /\ new.status = "active"
    BY <1>1, <2>1 DEF Row, Statuses, GoodTurn, TurnState
  <2>3. row \in Row /\ row.key = b.key /\ row.status = "active"
    <3> HIDE DEF new
    <3> QED
      BY <2>1, <2>2, RowType, RewrittenKeeps
  <2>4. binding' = [binding EXCEPT ![s] = row]
    BY <1>3 DEF UpdateBinding
  <2> HIDE DEF row
  <2>5. binding'[s] # None /\ binding'[s].key = b.key /\ binding'[s].status = "active"
    BY <1>1, <2>3, <2>4, NoRowAssumption DEF Sound, TypeOK
  <2>6. \A r \in Sessions : r # s => binding'[r] = binding[r]
    BY <2>4 DEF Sound, TypeOK
  <2> QED
    BY <1>1, <1>3, <2>5, <2>6 DEF RowKept
<1> QED
  BY <1>2, <1>3

LEMMA SameRows == ASSUME Sound, UNCHANGED <<chat, binding>> PROVE RowKept
BY DEF RowKept

LEMMA RowsKept ==
  ASSUME Sound, [Next]_vars
  PROVE  RowKept \/ \E t \in Turns : InsertBinding(t)
<1>1. CASE UNCHANGED vars
  BY <1>1, SameRows DEF vars
<1>2. ASSUME NEW t \in Turns, TurnStep(t) \/ Cancel(t) \/ DisposeFails(t) \/ CreateFails(t)
      PROVE  RowKept \/ InsertBinding(t)
  <2>1. UNCHANGED <<chat, binding>> \/ UpdateBinding(t) \/ InsertBinding(t)
    BY <1>2 DEF TurnStep, Cancel, DisposeFails, CreateFails, PrepareWorkspace, ReadBinding,
       WriteConfig, Probe, Dispose, CreateSession, Prompt, StreamEvent, StreamEnds
  <2> QED
    BY <2>1, SameRows, UpdateKeeps
<1>3. CASE Posts
  BY <1>3, SameRows DEF Posts, Post
<1>4. CASE SweepsStep \/ \E s \in Sessions : ExpireFails(s)
  <2>1. UNCHANGED <<chat, binding>> \/ \E j \in Jobs : Mark(j)
    BY <1>4 DEF SweepsStep, SweepStep, StartSweep, EndSweep, CleanSession, ExpireSession,
       ExpireFails
  <2> QED
    BY <2>1, SameRows, MarkKeeps
<1>5. ASSUME NEW s \in Sessions, RowAges(s) PROVE RowKept
  <2>1. binding[s] \in Row
    BY <1>5 DEF RowAges, Sound, TypeOK
  <2>2. /\ [binding[s] EXCEPT !.age = "idle"] \in Row
        /\ [binding[s] EXCEPT !.age = "old"] \in Row
        /\ [binding[s] EXCEPT !.age = "idle"].key = binding[s].key
        /\ [binding[s] EXCEPT !.age = "old"].key = binding[s].key
    BY <2>1 DEF Row
  <2>3. /\ binding'[s] \in Row /\ binding'[s].key = binding[s].key
        /\ \A r \in Sessions : r # s => binding'[r] = binding[r]
    BY <1>5, <2>2 DEF RowAges, Sound, TypeOK
  <2> QED
    BY <2>1, <2>3, NoRowAssumption DEF RowKept
<1>6. ASSUME NEW s \in Sessions, DeleteSession(s) \/ RemoveDirs(s) PROVE RowKept
  <2>1. CASE DeleteSession(s)
    BY <2>1 DEF DeleteSession, RowKept, Sound, TypeOK
  <2>2. CASE RemoveDirs(s)
    BY <2>2, SameRows DEF RemoveDirs
  <2> QED
    BY <1>6, <2>1, <2>2
<1>7. CASE ServerRestarts \/ Crash
  <2>1. \A s \in Sessions : binding'[s] = Stale(binding[s])
    BY <1>7 DEF ServerRestarts, Crash
  <2>2. \A s \in Sessions : binding[s] \in Row \cup {None}
    BY DEF Sound, TypeOK
  <2> QED
    BY <2>1, <2>2, StaleType DEF RowKept
<1> QED
  BY <1>1, <1>2, <1>3, <1>4, <1>5, <1>6, <1>7 DEF Next, Normal, Deletions, CallsFail

\* An insertion finds no row, and changes no other.
LEMMA InsertsFirst ==
  ASSUME Resumable, NEW t \in Turns, InsertBinding(t)
  PROVE  /\ binding[turn[t].s] = None
         /\ turn[t].s \in Sessions
         /\ \/ binding' = binding
            \/ turn[t].s \in chat /\ binding'[turn[t].s].status = "active"
         /\ \A s \in Sessions : s # turn[t].s => binding'[s] = binding[s]
BY DEF Resumable, FirstTurn, MayInsert, InsertBinding, Sound, TypeOK, GoodTurn

\* The step of one turn is no step of another.
LEMMA OneMoves ==
  ASSUME Sound, NEW t \in Turns, NEW r, TurnAt(t, r)
  PROVE  turn'[t] = r /\ \A u \in Turns : u # t => turn'[u] = turn[u]
BY DEF Sound, TypeOK, TurnAt

LEMMA OthersWait ==
  ASSUME Sound, NEW u \in Turns,
         \/ TurnStep(u) \/ DisposeFails(u) \/ CreateFails(u) \/ Cancel(u)
         \/ \E s \in Sessions, c \in Configs : Post(u, s, c)
  PROVE  \A t \in Turns : t # u => turn'[t] = turn[t]
BY OneMoves DEF TurnStep, DisposeFails, CreateFails, Cancel, Post, TurnEnds, Goto,
   PrepareWorkspace, ReadBinding, WriteConfig, Probe, Dispose, UpdateBinding, CreateSession,
   InsertBinding, Prompt, StreamEvent, StreamEnds

\* A turn gets to where it may insert by reading that there is no row.
LEMMA TurnMoves ==
  ASSUME Resumable, [Next]_vars, NEW t \in Turns, MayInsert(t)'
  PROVE  /\ turn'[t].s = turn[t].s
         /\ MayInsert(t) \/ binding[turn[t].s] = None
<1>0. turn[t] \in GoodTurn /\ turn[t] \in TurnState /\ turn \in [Turns -> TurnState]
  BY DEF Resumable, Sound, GoodTurn
<1>a. ~TurnEnds(t)
  BY <1>0 DEF TurnEnds, TurnAt, TurnIdle, MayInsert
<1>b. ASSUME NEW pc \in {"read", "probe", "dispose", "update", "prompt", "running"},
             turn'[t].pc = pc
      PROVE  FALSE
  BY <1>b DEF MayInsert
<1>1. CASE UNCHANGED turn
  BY <1>1 DEF MayInsert
<1>2. CASE TurnStep(t)
  <2>1. CASE PrepareWorkspace(t) \/ Dispose(t) \/ StreamEnds(t)
    BY <1>0, <1>a, <1>b, <2>1
      , ZenonT(40) DEF PrepareWorkspace, Dispose, StreamEnds, Goto, TurnAt, TurnState
  <2>2. CASE ReadBinding(t)
    <3> DEFINE b == binding[turn[t].s]
    <3>1. turn'[t] = [turn[t] EXCEPT !.pc = "write", !.seen = b]
      BY <1>0, <1>a, <2>2 DEF ReadBinding, TurnAt
    <3>2. turn'[t].pc = "write" /\ turn'[t].s = turn[t].s /\ turn'[t].seen = b
      BY <1>0, <3>1 DEF TurnState
    <3> QED
      BY <3>2 DEF MayInsert
  <2>3. CASE WriteConfig(t)
    <3> DEFINE next == CASE turn[t].seen = None -> "create"
                         [] turn[t].seen # None /\ NeedsProbe(turn[t].seen) -> "probe"
                         [] OTHER -> IF ProviderChanged(t) THEN "dispose" ELSE "update"
    <3>1. next = "create" => turn[t].seen = None
      OBVIOUS
    <3>2. next \in {"create", "probe", "dispose", "update"}
      OBVIOUS
    <3>3. TurnEnds(t) \/ \E ambient \in BOOLEAN :
             TurnAt(t, [turn[t] EXCEPT !.pc = next, !.ambient = ambient])
      BY <2>3 DEF WriteConfig
    <3> HIDE DEF next
    <3>4. \E ambient \in BOOLEAN :
             turn'[t] = [turn[t] EXCEPT !.pc = next, !.ambient = ambient]
      BY <1>0, <1>a, <3>3 DEF TurnAt
    <3>5. turn'[t].pc = next /\ turn'[t].s = turn[t].s
      BY <1>0, <3>4 DEF TurnState
    <3>6. next = "create"
      BY <3>2, <3>5 DEF MayInsert
    <3> QED
      BY <2>3, <3>1, <3>5, <3>6 DEF WriteConfig, MayInsert
  <2>4. CASE Probe(t)
    BY <1>0, <1>a, <1>b, <2>4 DEF Probe, Goto, TurnAt, TurnState
  <2>5. CASE UpdateBinding(t)
    BY <1>0, <1>a, <1>b, <2>5 DEF UpdateBinding, Goto, TurnAt, TurnState
  <2>6. CASE InsertBinding(t)
    BY <1>0, <1>a, <1>b, <2>6 DEF InsertBinding, Goto, TurnAt, TurnState
  <2>7. CASE Prompt(t)
    BY <1>0, <1>a, <1>b, <2>7, ZenonT(40) DEF Prompt, Goto, TurnAt, TurnState
  <2>8. CASE \E k \in Keys : CreateSession(t, k)
    BY <1>0, <2>8 DEF CreateSession, TurnAt, MayInsert, TurnState
  <2>9. CASE StreamEvent(t)
    BY <1>1, <2>9 DEF StreamEvent
  <2> QED
    BY <1>2, <2>1, <2>2, <2>3, <2>4, <2>5, <2>6, <2>7, <2>8, <2>9 DEF TurnStep
<1>3. CASE DisposeFails(t) \/ CreateFails(t) \/ Cancel(t)
  BY <1>0, <1>a, <1>b, <1>3, ZenonT(40) DEF DisposeFails, CreateFails, Cancel, TurnAt, TurnState
<1>4. CASE \E s \in Sessions, c \in Configs : Post(t, s, c)
  BY <1>0, <1>4 DEF Post, TurnAt, TurnIdle, MayInsert
<1>5. CASE ServerRestarts
  <2>1. /\ turn'[t].pc = turn[t].pc /\ turn'[t].s = turn[t].s
        /\ turn'[t].seen = Stale(turn[t].seen)
    BY <1>0, <1>5 DEF ServerRestarts, TurnState
  <2>2. turn'[t].seen = None <=> turn[t].seen = None
    BY <1>0, <2>1, StaleType DEF TurnState
  <2> QED
    BY <2>1, <2>2 DEF MayInsert
<1>6. CASE Crash
  BY <1>6 DEF Crash, TurnIdle, MayInsert
<1>7. ASSUME NEW u \in Turns, u # t,
             \/ TurnStep(u) \/ DisposeFails(u) \/ CreateFails(u) \/ Cancel(u)
             \/ \E s \in Sessions, c \in Configs : Post(u, s, c)
      PROVE  turn'[t] = turn[t] /\ MayInsert(t)
  BY <1>7, OthersWait DEF Resumable, MayInsert
<1>8. SweepsStep \/ Deletions \/ (\E s \in Sessions : RowAges(s) \/ ExpireFails(s))
        \/ UNCHANGED vars => UNCHANGED turn
  BY DEF SweepsStep, SweepStep, StartSweep, Mark, EndSweep, CleanSession, ExpireSession,
     ExpireFails, Deletions, DeleteSession, RemoveDirs, RowAges, vars
<1> QED
  BY <1>1, <1>2, <1>3, <1>4, <1>5, <1>6, <1>7, <1>8
     DEF Next, Normal, Posts, CallsFail

LEMMA BetweenSessions ==
  ASSUME NEW r \in SweepState
  PROVE  /\ [r EXCEPT !.pc = "act", !.s = None].pc = "act"
         /\ [r EXCEPT !.pc = "act", !.s = None].todo = r.todo
         /\ [r EXCEPT !.pc = "act", !.s = None].s = None
         /\ SweepIdle.pc = "idle" /\ SweepIdle.todo = {} /\ SweepIdle.s = None
BY DEF SweepState, SweepIdle

\* A job takes up only sessions that have a row, and deletion is for ever.
LEMMA JobMoves ==
  ASSUME Sound, [Next]_vars, NEW j \in Jobs, NEW s \in Sessions,
         s \in sweep'[j].todo \cup {sweep'[j].s}
  PROVE  s \in sweep[j].todo \cup {sweep[j].s} \/ binding[s] # None
<1>0. sweep \in [Jobs -> SweepState] /\ s # None
  BY NoneAssumption DEF Sound, TypeOK
<1>1. CASE UNCHANGED sweep
  BY <1>1
<1>2. ASSUME NEW i \in Jobs, StartSweep(i) PROVE binding[s] # None \/ sweep'[j] = sweep[j]
  BY <1>0, <1>2 DEF StartSweep, SweepAt, Listed
<1>3. ASSUME NEW i \in Jobs, Mark(i) \/ EndSweep(i)
      PROVE  s \in sweep[j].todo \cup {sweep[j].s}
  <2>1. \/ sweep' = [sweep EXCEPT ![i] = [sweep[i] EXCEPT !.pc = "act", !.s = None]]
        \/ sweep' = [sweep EXCEPT ![i] = SweepIdle]
    BY <1>3 DEF Mark, EndSweep, NextSession, SweepAt
  <2>2. CASE i # j
    BY <1>0, <2>1, <2>2
  <2>3. CASE i = j
    <3>1. sweep[j] \in SweepState
      BY <1>0
    <3>2. \/ sweep'[j] = [sweep[j] EXCEPT !.pc = "act", !.s = None]
          \/ sweep'[j] = SweepIdle
      BY <1>0, <2>1, <2>3
    <3>3. sweep'[j].todo \subseteq sweep[j].todo /\ sweep'[j].s = None
      BY <3>1, <3>2, BetweenSessions
    <3> QED
      BY <1>0, <3>3
  <2> QED
    BY <2>2, <2>3
<1>4. ASSUME NEW r \in Sessions, CleanSession(r) \/ ExpireSession(r) \/ ExpireFails(r)
      PROVE  s \in sweep[j].todo \cup {sweep[j].s}
  BY <1>0, <1>4 DEF CleanSession, ExpireSession, ExpireFails, SweepAt, SweepState
<1>5. CASE Crash
  BY <1>0, <1>5 DEF Crash, SweepIdle
<1>6. UNCHANGED vars \/ ServerRestarts \/ Deletions \/ Posts
        \/ (\E r \in Sessions : RowAges(r))
        \/ (\E t \in Turns : TurnStep(t) \/ Cancel(t) \/ DisposeFails(t) \/ CreateFails(t))
        => UNCHANGED sweep
  BY DEF vars, ServerRestarts, Deletions, DeleteSession, RemoveDirs, Posts, Post, RowAges,
     TurnStep, PrepareWorkspace, ReadBinding, WriteConfig, Probe, Dispose, UpdateBinding,
     CreateSession, InsertBinding, Prompt, StreamEvent, StreamEnds, Cancel, DisposeFails,
     CreateFails
<1> QED
  BY <1>1, <1>2, <1>3, <1>4, <1>5, <1>6 DEF Next, Normal, SweepsStep, SweepStep, CallsFail

LEMMA ChatShrinks == [Next]_vars => chat' \subseteq chat
<1> SUFFICES ASSUME [Next]_vars PROVE chat' \subseteq chat
  OBVIOUS
<1>1. ASSUME NEW t \in Turns, TurnStep(t) \/ Cancel(t) \/ DisposeFails(t) \/ CreateFails(t)
      PROVE  chat' = chat
  BY <1>1 DEF TurnStep, PrepareWorkspace, ReadBinding, WriteConfig, Probe, Dispose,
     UpdateBinding, CreateSession, InsertBinding, Prompt, StreamEvent, StreamEnds, Cancel,
     DisposeFails, CreateFails
<1>2. CASE SweepsStep \/ \E s \in Sessions : RowAges(s) \/ ExpireFails(s)
  BY <1>2 DEF SweepsStep, SweepStep, StartSweep, Mark, EndSweep, CleanSession, ExpireSession,
     ExpireFails, RowAges
<1>3. CASE Posts \/ Deletions \/ ServerRestarts \/ Crash \/ UNCHANGED vars
  BY <1>3 DEF Posts, Post, Deletions, DeleteSession, RemoveDirs, ServerRestarts, Crash, vars
<1> QED
  BY <1>1, <1>2, <1>3 DEF Next, Normal, CallsFail

LEMMA NextResumable == OneTurnEach /\ Resumable /\ [Next]_vars => Resumable'
<1> SUFFICES ASSUME OneTurnEach, Resumable, [Next]_vars PROVE Resumable'
  OBVIOUS
<1>0. Sound
  BY DEF Resumable
<1>1. Sound'
  BY <1>0, NextSound
<1>2. ASSUME NEW t \in Turns, MayInsert(t)'
      PROVE  turn'[t].s = turn[t].s /\ turn[t].s \in Sessions /\ binding[turn[t].s] = None
  <2>1. turn'[t].s = turn[t].s /\ binding[turn[t].s] = None
    BY <1>2, TurnMoves DEF Resumable, FirstTurn
  <2>2. turn'[t].s \in Sessions
    BY <1>1, <1>2 DEF Sound, GoodTurn, MayInsert
  <2> QED
    BY <2>1, <2>2
<1>3. FirstTurn'
  <2> SUFFICES ASSUME NEW t \in Turns, MayInsert(t)' PROVE binding'[turn'[t].s] = None
    BY DEF FirstTurn
  <2>1. CASE RowKept
    BY <1>2, <2>1 DEF RowKept
  <2>2. ASSUME NEW u \in Turns, InsertBinding(u) PROVE binding'[turn[t].s] = None
    <3>1. turn'[u].pc \in {"idle", "prompt"}
      BY <1>0, <2>2
      DEF InsertBinding, TurnEnds, TurnAt, Goto, TurnIdle, Sound, TypeOK, TurnState
    <3>2. t # u
      BY <3>1 DEF MayInsert
    <3>3. turn'[t] = turn[t] /\ turn[t].pc # "idle" /\ turn[u].pc # "idle"
      BY <1>0, <2>2, <3>2, OthersWait DEF TurnStep, InsertBinding, MayInsert
    <3>4. turn[t].s # turn[u].s
      BY <3>2, <3>3 DEF OneTurnEach, Busy
    <3> QED
      BY <1>2, <2>2, <3>4, InsertsFirst
  <2> QED
    BY <1>0, <1>2, <2>1, <2>2, RowsKept
<1>4. Held'
  <2> SUFFICES ASSUME NEW j \in Jobs, NEW s \in Sessions,
                      s \in sweep'[j].todo \cup {sweep'[j].s}
               PROVE  binding'[s] # None \/ s \notin chat'
    BY DEF Held
  <2>1. binding[s] # None \/ s \notin chat
    BY <1>0, JobMoves DEF Resumable, Held
  <2>2. CASE s \notin chat
    BY <2>2, ChatShrinks
  <2>3. CASE binding[s] # None
    <3>1. CASE RowKept
      BY <2>3, <3>1 DEF RowKept
    <3>2. CASE \E t \in Turns : InsertBinding(t)
      BY <2>3, <3>2, InsertsFirst
    <3> QED
      BY <1>0, <3>1, <3>2, RowsKept
  <2> QED
    BY <2>1, <2>2, <2>3
<1> QED
  BY <1>1, <1>3, <1>4 DEF Resumable

LEMMA InitResumable == Init => Resumable
<1> SUFFICES ASSUME Init PROVE Resumable
  OBVIOUS
<1>1. FirstTurn
  BY DEF Init, FirstTurn, MayInsert, TurnIdle
<1>2. Held
  BY NoneAssumption DEF Init, Held, SweepIdle
<1> QED
  BY <1>1, <1>2, InitSound DEF Resumable

LEMMA KeyKept ==
  Resumable /\ [Next]_vars =>
    \A s \in Sessions :
      binding[s] # None /\ binding'[s] # None => binding'[s].key = binding[s].key
BY RowsKept, InsertsFirst DEF RowKept, Resumable

\* Created once and resumed for ever, if posts of a session do not overlap: no
\* interleaving of turn, cleanup, expiry, deletion and restart gives a chat
\* session a second opencode session.
THEOREM KeyIsForever == Spec /\ []OneTurnEach => KeyForever
<1>1. OneTurnEach /\ Resumable /\ [Next]_vars => Resumable'
  BY NextResumable
<1>2. Resumable /\ [Next]_vars =>
        [\A s \in Sessions :
           binding[s] # None /\ binding'[s] # None => binding'[s].key = binding[s].key]_vars
  BY KeyKept
<1> QED
  BY <1>1, <1>2, InitResumable, PTL DEF Spec, KeyForever

-----------------------------------------------------------------------------
(* The history behind an expired row. *)

Gone == AboutToMark /\ ExpiredHistoryIsGone

\* History comes back only under a key that no row has.
LEMMA HistoryMoves ==
  ASSUME Sound, [Next]_vars, NEW s \in Sessions, binding[s] # None,
         history[binding[s].key] = None
  PROVE  history'[binding[s].key] = None
<1>0. binding[s].key \in Keys /\ history \in [Keys -> Sessions \cup {None}]
  BY DEF Sound, TypeOK, Row
<1>1. CASE UNCHANGED history
  BY <1>1
<1>2. ASSUME NEW t \in Turns, NEW k \in Keys, CreateSession(t, k)
      PROVE  history'[binding[s].key] = None
  <2>1. k # binding[s].key
    BY <1>2 DEF CreateSession, Fresh, KeyOf
  <2> QED
    BY <1>0, <1>2, <2>1 DEF CreateSession
<1>3. ASSUME NEW r \in Sessions, ExpireSession(r)
      PROVE  history'[binding[s].key] = None
  BY <1>0, <1>3 DEF ExpireSession
<1>4. ASSUME NEW t \in Turns, TurnStep(t) \/ Cancel(t) \/ DisposeFails(t) \/ CreateFails(t)
      PROVE  UNCHANGED history \/ \E k \in Keys : CreateSession(t, k)
  BY <1>4 DEF TurnStep, PrepareWorkspace, ReadBinding, WriteConfig, Probe, Dispose,
     UpdateBinding, InsertBinding, Prompt, StreamEvent, StreamEnds, Cancel, DisposeFails,
     CreateFails
<1>5. SweepsStep \/ (\E r \in Sessions : RowAges(r) \/ ExpireFails(r))
        => UNCHANGED history \/ \E r \in Sessions : ExpireSession(r)
  BY DEF SweepsStep, SweepStep, StartSweep, Mark, EndSweep, CleanSession, ExpireFails, RowAges
<1>6. Posts \/ Deletions \/ ServerRestarts \/ Crash \/ UNCHANGED vars => UNCHANGED history
  BY DEF Posts, Post, Deletions, DeleteSession, RemoveDirs, ServerRestarts, Crash, vars
<1> QED
  BY <1>1, <1>2, <1>3, <1>4, <1>5, <1>6 DEF Next, Normal, CallsFail

\* Only the expiry job makes a row expired.
LEMMA StatusMoves ==
  ASSUME Resumable, [Next]_vars, NEW s \in Sessions,
         binding'[s] # None, binding'[s].status = "expired"
  PROVE  /\ binding[s] # None /\ binding'[s].key = binding[s].key
         /\ \/ binding[s].status = "expired"
            \/ Mark("expiry") /\ sweep["expiry"].s = s
<1>0. Sound /\ binding[s] \in Row \cup {None} /\ binding \in [Sessions -> Row \cup {None}]
  BY DEF Resumable, Sound, TypeOK
<1>1. CASE binding'[s] = binding[s]
  BY <1>1
<1>2. ASSUME NEW t \in Turns, UpdateBinding(t) \/ InsertBinding(t)
      PROVE  binding'[s] = binding[s]
  BY <1>0, <1>2, UpdateKeeps, InsertsFirst
<1>3. ASSUME NEW j \in Jobs, Mark(j), binding'[s] # binding[s]
      PROVE  j = "expiry" /\ sweep["expiry"].s = s
             /\ binding[s] # None /\ binding'[s].key = binding[s].key
  <2>1. s = sweep[j].s
    BY <1>0, <1>3, MarkKeeps
  <2> DEFINE b == binding[s]
             new == [b EXCEPT !.status = IF j = "cleanup" THEN "cleaned" ELSE "expired",
                              !.server = "stale"]
  <2>2. b # None /\ b \in Row /\ binding' = [binding EXCEPT ![s] = Rewritten(b, new, FALSE)]
    BY <1>0, <1>3, <2>1 DEF Mark
  <2>3. /\ new \in Row /\ new.key = b.key
        /\ new.status = IF j = "cleanup" THEN "cleaned" ELSE "expired"
    BY <2>2 DEF Row, Statuses
  <2>4. binding'[s].status = new.status /\ binding'[s].key = b.key
    <3> HIDE DEF new
    <3>1. binding'[s] = Rewritten(b, new, FALSE)
      BY <1>0, <2>2
    <3>2. b \in Row /\ new \in Row /\ new.key = b.key
      BY <2>2, <2>3
    <3> HIDE DEF b
    <3>3. /\ Rewritten(b, new, FALSE).key = b.key
          /\ Rewritten(b, new, FALSE).status = new.status
      BY <3>2, RewrittenKeeps
    <3> QED
      BY <3>1, <3>3
  <2> HIDE DEF new
  <2>5. j # "cleanup"
    BY <2>3, <2>4
  <2> QED
    BY <2>1, <2>2, <2>4, <2>5 DEF Jobs
<1>4. ASSUME NEW r \in Sessions, RowAges(r)
      PROVE  /\ binding[s] # None /\ binding'[s].key = binding[s].key
             /\ binding[s].status = "expired"
  <2>1. /\ binding[r] \in Row
        /\ \/ binding' = [binding EXCEPT ![r].age = "idle"]
           \/ binding' = [binding EXCEPT ![r].age = "old"]
    BY <1>0, <1>4 DEF RowAges
  <2>2. CASE r = s
    BY <1>0, <2>1, <2>2, NoRowAssumption DEF Row
  <2>3. CASE r # s
    BY <1>0, <2>1, <2>3
  <2> QED
    BY <2>2, <2>3
<1>5. ASSUME NEW r \in Sessions, DeleteSession(r) PROVE binding'[s] = binding[s]
  BY <1>0, <1>5 DEF DeleteSession
<1>6. CASE ServerRestarts \/ Crash
  <2>1. binding'[s] = Stale(binding[s])
    BY <1>6 DEF ServerRestarts, Crash
  <2> QED
    BY <1>0, <2>1, StaleType
<1>7. ASSUME NEW t \in Turns, TurnStep(t) \/ Cancel(t) \/ DisposeFails(t) \/ CreateFails(t)
      PROVE  UNCHANGED binding \/ UpdateBinding(t) \/ InsertBinding(t)
  BY <1>7 DEF TurnStep, PrepareWorkspace, ReadBinding, WriteConfig, Probe, Dispose,
     CreateSession, Prompt, StreamEvent, StreamEnds, Cancel, DisposeFails, CreateFails
<1>8. SweepsStep \/ (\E r \in Sessions : ExpireFails(r))
        => UNCHANGED binding \/ \E j \in Jobs : Mark(j)
  BY DEF SweepsStep, SweepStep, StartSweep, EndSweep, CleanSession, ExpireSession, ExpireFails
<1>9. Posts \/ (\E r \in Sessions : RemoveDirs(r)) \/ UNCHANGED vars => UNCHANGED binding
  BY DEF Posts, Post, RemoveDirs, vars
<1> QED
  BY <1>1, <1>2, <1>3, <1>4, <1>5, <1>6, <1>7, <1>8, <1>9
     DEF Next, Normal, Deletions, CallsFail

\* What the expiry job holds when it is to mark.
LEMMA MarkMoves ==
  ASSUME Sound, [Next]_vars, sweep'["expiry"].pc = "mark"
  PROVE  \/ UNCHANGED binding /\ history'[binding[sweep'["expiry"].s].key] = None
         \/ UNCHANGED binding /\ binding[sweep'["expiry"].s] = None
         \/ sweep'["expiry"] = sweep["expiry"]
<1>0. sweep \in [Jobs -> SweepState] /\ "expiry" \in Jobs
  BY DEF Sound, TypeOK, Jobs
<1>1. CASE UNCHANGED sweep
  BY <1>1
<1>2. ASSUME NEW j \in Jobs, StartSweep(j) \/ EndSweep(j) \/ Mark(j)
      PROVE  sweep'["expiry"] = sweep["expiry"]
  <2>1. \/ sweep' = [sweep EXCEPT ![j] = [sweep[j] EXCEPT !.pc = "act", !.s = None]]
        \/ sweep' = [sweep EXCEPT ![j] = [pc |-> "act", todo |-> Listed(j), s |-> None]]
        \/ sweep' = [sweep EXCEPT ![j] = SweepIdle]
    BY <1>2 DEF StartSweep, Mark, EndSweep, NextSession, SweepAt
  <2>2. j # "expiry"
    <3> SUFFICES ASSUME j = "expiry" PROVE FALSE
      OBVIOUS
    <3>1. \/ sweep'[j] = [sweep[j] EXCEPT !.pc = "act", !.s = None]
          \/ sweep'[j] = [pc |-> "act", todo |-> Listed(j), s |-> None]
          \/ sweep'[j] = SweepIdle
      BY <1>0, <2>1
    <3>2. sweep[j] \in SweepState
      BY <1>0
    <3>3. [pc |-> "act", todo |-> Listed(j), s |-> None].pc = "act"
      OBVIOUS
    <3>4. sweep'[j].pc \in {"act", "idle"}
      BY <3>1, <3>2, <3>3, BetweenSessions
    <3> QED
      BY <3>4
  <2> QED
    BY <1>0, <2>1, <2>2
<1>3. ASSUME NEW r \in Sessions, CleanSession(r)
      PROVE  sweep'["expiry"] = sweep["expiry"]
  BY <1>0, <1>3 DEF CleanSession, SweepAt
<1>4. ASSUME NEW r \in Sessions, ExpireSession(r)
      PROVE  /\ UNCHANGED binding
             /\ \/ binding[sweep'["expiry"].s] = None
                \/ history'[binding[sweep'["expiry"].s].key] = None
  <2>1. sweep'["expiry"].s = r
    BY <1>0, <1>4 DEF ExpireSession, SweepAt
  <2>2. binding[r] # None => binding[r].key \in Keys
    BY DEF Sound, TypeOK, Row
  <2> QED
    BY <1>4, <2>1, <2>2 DEF ExpireSession, Sound, TypeOK
<1>5. ASSUME NEW r \in Sessions, ExpireFails(r) PROVE sweep'["expiry"].pc # "mark"
  BY <1>0, <1>5 DEF ExpireFails, SweepAt, SweepState
<1>6. Crash => sweep'["expiry"].pc # "mark"
  BY <1>0 DEF Crash, SweepIdle
<1>7. UNCHANGED vars \/ ServerRestarts \/ Deletions \/ Posts
        \/ (\E r \in Sessions : RowAges(r))
        \/ (\E t \in Turns : TurnStep(t) \/ Cancel(t) \/ DisposeFails(t) \/ CreateFails(t))
        => UNCHANGED sweep
  BY DEF vars, ServerRestarts, Deletions, DeleteSession, RemoveDirs, Posts, Post, RowAges,
     TurnStep, PrepareWorkspace, ReadBinding, WriteConfig, Probe, Dispose, UpdateBinding,
     CreateSession, InsertBinding, Prompt, StreamEvent, StreamEnds, Cancel, DisposeFails,
     CreateFails
<1> QED
  BY <1>1, <1>2, <1>3, <1>4, <1>5, <1>6, <1>7
     DEF Next, Normal, SweepsStep, SweepStep, CallsFail

LEMMA NextGone == Resumable /\ Gone /\ [Next]_vars => Gone'
<1> SUFFICES ASSUME Resumable, Gone, [Next]_vars PROVE Gone'
  OBVIOUS
<1>0. Sound
  BY DEF Resumable
<1>1. ExpiredHistoryIsGone'
  <2> SUFFICES ASSUME NEW s \in Sessions, binding'[s] # None, binding'[s].status = "expired"
               PROVE  history'[binding'[s].key] = None
    BY DEF ExpiredHistoryIsGone
  <2>1. /\ binding[s] # None /\ binding'[s].key = binding[s].key
        /\ \/ binding[s].status = "expired"
           \/ Mark("expiry") /\ sweep["expiry"].s = s
    BY StatusMoves
  <2>2. history[binding[s].key] = None
    BY <2>1 DEF Gone, AboutToMark, ExpiredHistoryIsGone, Mark
  <2> QED
    BY <1>0, <2>1, <2>2, HistoryMoves
<1>2. AboutToMark'
  <2> DEFINE s == sweep'["expiry"].s
  <2> SUFFICES ASSUME sweep'["expiry"].pc = "mark", binding'[s] # None
               PROVE  history'[binding'[s].key] = None
    BY DEF AboutToMark
  <2>1. CASE sweep'["expiry"] = sweep["expiry"]
    <3>1. s \in Sessions /\ s = sweep["expiry"].s /\ sweep["expiry"].pc = "mark"
      BY <1>0, <2>1 DEF Sound, GoodSweep, Jobs
    <3>2. binding[s] # None /\ binding'[s].key = binding[s].key
      <4>1. CASE RowKept
        BY <3>1, <4>1 DEF RowKept
      <4>2. CASE \E t \in Turns : InsertBinding(t)
        <5> PICK t \in Turns : InsertBinding(t)
          BY <4>2
        <5>1. binding[s] # None \/ s \notin chat
          BY <3>1 DEF Resumable, Held, Jobs
        <5> QED
          BY <3>1, <5>1, InsertsFirst
      <4> QED
        BY <1>0, <4>1, <4>2, RowsKept
    <3>3. history[binding[s].key] = None
      BY <3>1, <3>2 DEF Gone, AboutToMark
    <3> QED
      BY <1>0, <3>1, <3>2, <3>3, HistoryMoves
  <2> QED
    BY <1>0, <2>1, MarkMoves
<1> QED
  BY <1>1, <1>2 DEF Gone

\* A row says expired only when the history it names is gone: no failed removal,
\* and no interleaving of turns of different sessions with the jobs, marks a session whose
\* history the server still has.
THEOREM ExpiredMeansGone == Spec /\ []OneTurnEach => []ExpiredHistoryIsGone
<1>1. Init => Gone
  BY DEF Init, Gone, AboutToMark, ExpiredHistoryIsGone, SweepIdle, Jobs
<1>2. OneTurnEach /\ Resumable /\ [Next]_vars => Resumable'
  BY NextResumable
<1>3. Gone => ExpiredHistoryIsGone
  BY DEF Gone
<1> QED
  BY <1>1, <1>2, <1>3, InitResumable, NextGone, PTL DEF Spec

-----------------------------------------------------------------------------
(* The worlds of the run: what a step leaves alone.                        *)

\* No turn uses s.

Unused(s) == \A t \in Turns : Busy(t) => turn[t].s # s

\* What the step of one turn leaves alone: the other turns, what belongs to other
\* sessions, and the histories that rows name.
Apart(t) ==
    /\ chat' = chat
    /\ \A u \in Turns : u # t => turn'[u] = turn[u]
    /\ \A r \in Sessions : r # turn[t].s =>
         /\ dir'[r] = dir[r] /\ loaded'[r] = loaded[r] /\ binding'[r] = binding[r]
    /\ \A r \in Sessions :
         binding[r] # None => history'[binding[r].key] = history[binding[r].key]

LEMMA StepsApart ==
  ASSUME Sound, NEW t \in Turns, TurnStep(t) \/ DisposeFails(t)
  PROVE  Apart(t)
<1>1. \A u \in Turns : u # t => turn'[u] = turn[u]
  BY OneMoves DEF TurnStep, DisposeFails, TurnEnds, Goto, PrepareWorkspace, ReadBinding,
     WriteConfig, Probe, Dispose, UpdateBinding, CreateSession, InsertBinding, Prompt,
     StreamEvent, StreamEnds
<1>2. chat' = chat
  BY DEF TurnStep, DisposeFails, PrepareWorkspace, ReadBinding, WriteConfig, Probe, Dispose,
     UpdateBinding, CreateSession, InsertBinding, Prompt, StreamEvent, StreamEnds
<1>3. ASSUME NEW r \in Sessions, r # turn[t].s
      PROVE  dir'[r] = dir[r] /\ loaded'[r] = loaded[r] /\ binding'[r] = binding[r]
  <2>0. /\ dir \in [Sessions -> Configs \cup {NoFile, None}]
        /\ loaded \in [Sessions -> Configs \cup {NoFile, None}]
        /\ binding \in [Sessions -> Row \cup {None}]
    BY DEF Sound, TypeOK
  <2>1. Made(turn[t].s)[r] = dir[r] /\ Booted(turn[t].s)[r] = loaded[r]
    BY <1>3, <2>0 DEF Made, Booted
  <2>2. dir'[r] = dir[r]
    BY <1>3, <2>0, <2>1 DEF TurnStep, DisposeFails, PrepareWorkspace, ReadBinding, WriteConfig,
       Probe, Dispose, UpdateBinding, CreateSession, InsertBinding, Prompt, StreamEvent,
       StreamEnds
  <2>3. loaded'[r] = loaded[r]
    BY <1>3, <2>0, <2>1 DEF TurnStep, DisposeFails, PrepareWorkspace, ReadBinding, WriteConfig,
       Probe, Dispose, UpdateBinding, CreateSession, InsertBinding, Prompt, StreamEvent,
       StreamEnds
  <2>4. binding'[r] = binding[r]
    BY <1>3, <2>0 DEF TurnStep, DisposeFails, PrepareWorkspace, ReadBinding, WriteConfig,
       Probe, Dispose, UpdateBinding, CreateSession, InsertBinding, Prompt, StreamEvent,
       StreamEnds
  <2> QED
    BY <2>2, <2>3, <2>4
<1>4. ASSUME NEW r \in Sessions, binding[r] # None
      PROVE  history'[binding[r].key] = history[binding[r].key]
  <2>1. CASE \E k \in Keys : CreateSession(t, k)
    <3> PICK k \in Keys : CreateSession(t, k)
      BY <2>1
    <3>1. k # binding[r].key
      BY <1>4 DEF CreateSession, Fresh, KeyOf
    <3> QED
      BY <3>1 DEF CreateSession, Sound, TypeOK
  <2>2. CASE ~\E k \in Keys : CreateSession(t, k)
    BY <2>2 DEF TurnStep, DisposeFails, PrepareWorkspace, ReadBinding, WriteConfig, Probe,
       Dispose, UpdateBinding, InsertBinding, Prompt, StreamEvent, StreamEnds
  <2> QED
    BY <2>1, <2>2
<1> QED
  BY <1>1, <1>2, <1>3, <1>4 DEF Apart

\* Between turns a row keeps its key and its configuration; instances, directories
\* and histories are kept or go away.
Weaker(s) ==
    /\ binding'[s] = None <=> binding[s] = None
    /\ binding[s] # None => /\ binding'[s].key = binding[s].key
                            /\ binding'[s].config = binding[s].config
    /\ loaded'[s] \in {None, loaded[s]}
    /\ dir'[s] \in {None, dir[s]}

\* A step that rewrites one row.
LEMMA OneRow ==
  ASSUME Sound, NEW s \in Sessions, binding[s] # None, NEW row \in Row,
         row.key = binding[s].key, row.config = binding[s].config,
         binding' = [binding EXCEPT ![s] = row]
  PROVE  \A r \in Sessions :
           /\ binding'[r] = None <=> binding[r] = None
           /\ binding[r] # None => /\ binding'[r].key = binding[r].key
                                   /\ binding'[r].config = binding[r].config
BY NoRowAssumption DEF Sound, TypeOK

LEMMA AgesKeep ==
  ASSUME Sound, NEW s \in Sessions, RowAges(s)
  PROVE  /\ \A r \in Sessions : Weaker(r) /\ loaded'[r] = loaded[r]
         /\ \A r \in Sessions : r # s => binding'[r] = binding[r]
         /\ UNCHANGED <<chat, dir, loaded, history, turn>>
<1>0. binding[s] \in Row /\ binding[s] # None
  BY DEF RowAges, Sound, TypeOK
<1>1. /\ [binding[s] EXCEPT !.age = "idle"] \in Row
      /\ [binding[s] EXCEPT !.age = "idle"].key = binding[s].key
      /\ [binding[s] EXCEPT !.age = "idle"].config = binding[s].config
      /\ [binding[s] EXCEPT !.age = "old"] \in Row
      /\ [binding[s] EXCEPT !.age = "old"].key = binding[s].key
      /\ [binding[s] EXCEPT !.age = "old"].config = binding[s].config
  BY <1>0 DEF Row
<1>2. \/ binding' = [binding EXCEPT ![s] = [binding[s] EXCEPT !.age = "idle"]]
      \/ binding' = [binding EXCEPT ![s] = [binding[s] EXCEPT !.age = "old"]]
  BY DEF RowAges, Sound, TypeOK
<1>3. \A r \in Sessions :
        /\ binding'[r] = None <=> binding[r] = None
        /\ binding[r] # None => /\ binding'[r].key = binding[r].key
                                /\ binding'[r].config = binding[r].config
  BY <1>0, <1>1, <1>2, OneRow
<1>4. \A r \in Sessions : r # s => binding'[r] = binding[r]
  BY <1>2 DEF Sound, TypeOK
<1> QED
  BY <1>3, <1>4 DEF Weaker, RowAges

LEMMA MarkWeakens ==
  ASSUME Sound, NEW j \in Jobs, Mark(j), NEW r \in Sessions
  PROVE  Weaker(r)
<1> DEFINE s == sweep[j].s
           b == binding[s]
           new == [b EXCEPT !.status = IF j = "cleanup" THEN "cleaned" ELSE "expired",
                            !.server = "stale"]
           row == Rewritten(b, new, FALSE)
<1>1. s \in Sessions
  BY DEF Sound, GoodSweep, Mark
<1>2. CASE b = None
  BY <1>2 DEF Mark, Weaker
<1>3. CASE b # None
  <2>1. b \in Row
    BY <1>1, <1>3 DEF Sound, TypeOK
  <2>2. new \in Row /\ new.key = b.key /\ new.config = b.config
    BY <2>1 DEF Row, Statuses
  <2>3. row \in Row /\ row.key = b.key /\ row.config = b.config
    <3> HIDE DEF new
    <3> QED
      BY <2>1, <2>2 DEF Rewritten, Row
  <2>4. binding' = [binding EXCEPT ![s] = row]
    BY <1>3 DEF Mark
  <2> HIDE DEF row
  <2>5. /\ binding'[r] = None <=> binding[r] = None
        /\ binding[r] # None => /\ binding'[r].key = binding[r].key
                                /\ binding'[r].config = binding[r].config
    BY <1>1, <1>3, <2>3, <2>4, OneRow
  <2> QED
    BY <2>5 DEF Mark, Weaker
<1> QED
  BY <1>2, <1>3

LEMMA RestWeakens ==
  ASSUME Sound, Cleaning \/ ServerRestarts \/ Crash, NEW r \in Sessions,
         r \in chat' \/ binding'[r] # None
  PROVE  /\ Weaker(r)
         /\ r \in chat \/ binding[r] # None
         /\ r \in chat' => r \in chat
         /\ \A k \in Keys : history'[k] \in {None, history[k]}
<1>0. /\ binding \in [Sessions -> Row \cup {None}]
      /\ dir \in [Sessions -> Configs \cup {NoFile, None}]
      /\ history \in [Keys -> Sessions \cup {None}]
  BY DEF Sound, TypeOK
<1>1. CASE \E s \in Sessions : DeleteSession(s) \/ RemoveDirs(s)
  BY <1>0, <1>1 DEF DeleteSession, RemoveDirs, Weaker
<1>2. CASE \E j \in Jobs : Mark(j)
  BY <1>2, MarkWeakens DEF Mark, Weaker
<1>3. CASE \E j \in Jobs : StartSweep(j) \/ EndSweep(j)
  BY <1>3 DEF StartSweep, EndSweep, Weaker
<1>4. CASE \E s \in Sessions : CleanSession(s) \/ ExpireFails(s)
  BY <1>0, <1>4 DEF CleanSession, ExpireFails, Weaker
<1>5. CASE \E s \in Sessions : ExpireSession(s)
  <2> PICK s \in Sessions : ExpireSession(s)
    BY <1>5
  <2>1. \A k \in Keys : history'[k] \in {None, history[k]}
    BY <1>0 DEF ExpireSession
  <2> QED
    BY <2>1 DEF ExpireSession, Weaker
<1>6. CASE ServerRestarts \/ Crash
  <2>1. binding'[r] = Stale(binding[r]) /\ loaded'[r] = None
    BY <1>6 DEF ServerRestarts, Crash
  <2>2. /\ Stale(binding[r]) = None <=> binding[r] = None
        /\ binding[r] # None => /\ Stale(binding[r]).key = binding[r].key
                                /\ Stale(binding[r]).config = binding[r].config
    BY <1>0, StaleType DEF Stale, Row
  <2> QED
    BY <1>6, <2>1, <2>2 DEF ServerRestarts, Crash, Weaker
<1> QED
  BY <1>1, <1>2, <1>3, <1>4, <1>5, <1>6 DEF Cleaning, SweepsStep, SweepStep, Deletions

-----------------------------------------------------------------------------
(* The calm world: a prompt runs under the configuration of its turn.      *)

\* The server still has the history that the row of s names.
Resumes(s) == binding[s] # None /\ history[binding[s].key] # None

\* Between turns, instance and file of a session that can be resumed are as its row
\* says, or not there.
Settled(s) ==
    /\ binding[s] = None => loaded[s] = None
    /\ Resumes(s) => /\ loaded[s] \in {None, binding[s].config}
                     /\ dir[s] \in {None, NoFile, binding[s].config}

Ready(s, c) == dir[s] = c /\ loaded[s] \in {None, c}

\* What a turn has established, from pc to pc, when nothing disturbs it.
CalmAt(t, s, c, b) ==
    LET At(pcs) == turn[t].pc \in pcs
    IN /\ s \in chat
       /\ turn[t].persist
       /\ ~At({"prepare"}) => turn[t].server = "current"
       /\ At({"read", "write"}) => dir[s] # None
       /\ At({"prepare", "read", "write", "running"}) => Settled(s)
       /\ At({"write", "probe", "dispose"}) => turn[t].seen = b
       /\ At({"probe", "dispose", "update", "prompt"}) => b # None
       /\ At({"probe", "dispose"}) /\ Resumes(s) => dir[s] = c
       /\ At({"probe"}) /\ Resumes(s) => loaded[s] \in {None, b.config}
       /\ At({"update", "prompt"}) /\ Resumes(s) => Ready(s, c)
       /\ At({"create", "insert"}) => b = None /\ Ready(s, c)
       /\ At({"create"}) => loaded[s] = None
       /\ At({"prompt"}) => turn[t].key = b.key /\ b.config = c
       /\ At({"running"}) => turn[t].ran = c

CalmTurn(t) == CalmAt(t, turn[t].s, turn[t].config, binding[turn[t].s])

InCalm ==
    /\ \A s \in chat : Unused(s) => Settled(s)
    /\ \A t \in Turns : Busy(t) => CalmTurn(t)

\* The outcome of a step for the turn that takes it.
CalmOutcome(t, s) ==
    IF turn'[t].pc = "idle"
      THEN Settled(s)'
      ELSE turn'[t].s = s /\ turn'[t].config = turn[t].config /\ CalmTurn(t)'

LEMMA EndsAs ==
  ASSUME Sound, NEW t \in Turns, TurnEnds(t)
  PROVE  turn'[t].pc = "idle"
BY OneMoves DEF TurnEnds, TurnIdle

LEMMA GoesTo ==
  ASSUME Sound, NEW t \in Turns, NEW pc, Goto(t, pc)
  PROVE  /\ turn'[t].pc = pc
         /\ turn'[t].s = turn[t].s /\ turn'[t].config = turn[t].config
         /\ turn'[t].seen = turn[t].seen /\ turn'[t].key = turn[t].key
         /\ turn'[t].server = turn[t].server /\ turn'[t].persist = turn[t].persist
         /\ turn'[t].ran = turn[t].ran
<1>1. turn'[t] = [turn[t] EXCEPT !.pc = pc]
  BY OneMoves DEF Goto
<1>2. turn[t] \in TurnState
  BY DEF Sound, TypeOK
<1> QED
  BY <1>1, <1>2 DEF TurnState

LEMMA CalmStart ==
  ASSUME Sound, NEW t \in Turns, Busy(t), CalmTurn(t), NEW s \in Sessions, s = turn[t].s,
         PrepareWorkspace(t) \/ ReadBinding(t)
  PROVE  CalmOutcome(t, s)
<1>0. /\ turn[t] \in TurnState /\ dir \in [Sessions -> Configs \cup {NoFile, None}]
      /\ binding[s] \in Row \cup {None}
  BY DEF Sound, TypeOK
<1>1. CASE PrepareWorkspace(t)
  <2>1. turn'[t] = [turn[t] EXCEPT !.pc = "read", !.server = "current"]
    BY <1>1, OneMoves DEF PrepareWorkspace
  <2>2. /\ turn'[t].pc = "read" /\ turn'[t].server = "current" /\ turn'[t].s = s
        /\ turn'[t].config = turn[t].config /\ turn'[t].persist = turn[t].persist
    BY <1>0, <2>1 DEF TurnState
  <2>3. dir'[s] = (IF dir[s] = None THEN NoFile ELSE dir[s]) /\ dir'[s] # None
    BY <1>0, <1>1, NoFileAssumption DEF PrepareWorkspace, Made
  <2>4. Settled(s)'
    BY <1>1, <2>3 DEF PrepareWorkspace, CalmTurn, CalmAt, Settled, Resumes
  <2> QED
    BY <1>1, <2>2, <2>3, <2>4 DEF PrepareWorkspace, CalmTurn, CalmAt, CalmOutcome
<1>2. CASE ReadBinding(t)
  <2>0. Settled(s) /\ Settled(s)'
    BY <1>2 DEF ReadBinding, CalmTurn, CalmAt, Settled, Resumes
  <2>1. CASE TurnEnds(t)
    BY <2>0, <2>1, EndsAs DEF CalmOutcome
  <2>2. CASE ~TurnEnds(t)
    <3>1. turn'[t] = [turn[t] EXCEPT !.pc = "write", !.seen = binding[s]]
      BY <1>2, <2>2, OneMoves DEF ReadBinding
    <3>2. /\ turn'[t].pc = "write" /\ turn'[t].seen = binding[s] /\ turn'[t].s = s
          /\ turn'[t].config = turn[t].config /\ turn'[t].persist = turn[t].persist
          /\ turn'[t].server = turn[t].server
      BY <1>0, <3>1 DEF TurnState
    <3> QED
      BY <1>2, <2>0, <3>2 DEF ReadBinding, CalmTurn, CalmAt, CalmOutcome
  <2> QED
    BY <2>1, <2>2
<1> QED
  BY <1>1, <1>2

\* Where WriteConfig leads, and what it leaves in the directory.
LEMMA Writes ==
  ASSUME Sound, NEW t \in Turns, NEW s \in Sessions, s = turn[t].s, WriteConfig(t),
         dir[s] # None
  PROVE  /\ turn'[t].pc = CASE turn[t].seen = None -> "create"
                            [] turn[t].seen # None /\ NeedsProbe(turn[t].seen) -> "probe"
                            [] OTHER -> IF ProviderChanged(t) THEN "dispose" ELSE "update"
         /\ turn'[t].s = s /\ turn'[t].config = turn[t].config
         /\ turn'[t].seen = turn[t].seen /\ turn'[t].persist = turn[t].persist
         /\ turn'[t].server = turn[t].server
         /\ dir'[s] \in {dir[s], turn[t].config}
         /\ MustWrite(t) => dir'[s] = turn[t].config
<1> DEFINE next == CASE turn[t].seen = None -> "create"
                     [] turn[t].seen # None /\ NeedsProbe(turn[t].seen) -> "probe"
                     [] OTHER -> IF ProviderChanged(t) THEN "dispose" ELSE "update"
<1>1. PICK ambient \in BOOLEAN :
        /\ TurnAt(t, [turn[t] EXCEPT !.pc = next, !.ambient = ambient])
        /\ dir' = IF ambient \/ MustWrite(t) THEN [dir EXCEPT ![s] = turn[t].config] ELSE dir
  BY DEF WriteConfig
<1>2. turn'[t] = [turn[t] EXCEPT !.pc = next, !.ambient = ambient]
  BY <1>1, OneMoves
<1>3. turn[t] \in TurnState /\ dir \in [Sessions -> Configs \cup {NoFile, None}]
  BY DEF Sound, TypeOK
<1> HIDE DEF next
<1>4. /\ turn'[t].pc = next
      /\ turn'[t].s = s /\ turn'[t].config = turn[t].config
      /\ turn'[t].seen = turn[t].seen /\ turn'[t].persist = turn[t].persist
      /\ turn'[t].server = turn[t].server
  BY <1>2, <1>3 DEF TurnState
<1>5. dir'[s] \in {dir[s], turn[t].config} /\ (MustWrite(t) => dir'[s] = turn[t].config)
  BY <1>1, <1>3
<1> QED
  BY <1>4, <1>5 DEF next

LEMMA CalmWrite ==
  ASSUME Sound, NEW t \in Turns, CalmTurn(t), NEW s \in Sessions, s = turn[t].s,
         WriteConfig(t)
  PROVE  CalmOutcome(t, s)
<1> DEFINE c == turn[t].config
           b == binding[s]
<1>0. /\ s \in chat /\ turn[t].persist /\ turn[t].server = "current" /\ dir[s] # None
      /\ Settled(s) /\ turn[t].seen = b
  BY DEF WriteConfig, CalmTurn, CalmAt
<1>1. /\ turn'[t].s = s /\ turn'[t].config = c /\ turn'[t].seen = b /\ turn'[t].persist
      /\ turn'[t].server = "current"
      /\ dir'[s] \in {dir[s], c} /\ (MustWrite(t) => dir'[s] = c)
  BY <1>0, Writes
<1>2. UNCHANGED <<chat, binding, loaded, history>>
  BY DEF WriteConfig
<1>3. Resumes(s)' <=> Resumes(s)
  BY <1>2 DEF Resumes
<1>4. CASE b = None
  <2>1. turn'[t].pc = "create"
    BY <1>0, <1>4, Writes
  <2>2. dir'[s] = c /\ loaded[s] = None
    BY <1>0, <1>1, <1>4 DEF MustWrite, ProviderChanged, Settled
  <2> QED
    BY <1>0, <1>1, <1>2, <1>4, <2>1, <2>2 DEF CalmOutcome, CalmTurn, CalmAt, Ready
<1>5. CASE b # None
  <2>1. \/ turn'[t].pc = "probe"
        \/ turn'[t].pc = "dispose" /\ ProviderChanged(t)
        \/ turn'[t].pc = "update" /\ ~ProviderChanged(t)
    BY <1>0, <1>5, Writes
  <2>2. Resumes(s) => dir'[s] = c
    BY <1>0, <1>1, <1>5 DEF MustWrite, ProviderChanged, Settled
  <2>3. Resumes(s) => loaded[s] \in {None, b.config}
    BY <1>0 DEF Settled
  <2>4. ~ProviderChanged(t) => b.config = c
    BY <1>0, <1>5 DEF ProviderChanged
  <2> QED
    BY <1>0, <1>1, <1>2, <1>3, <1>5, <2>1, <2>2, <2>3, <2>4
       DEF CalmOutcome, CalmTurn, CalmAt, Ready
<1> QED
  BY <1>4, <1>5

LEMMA BootedAt ==
  ASSUME Sound, NEW s \in Sessions
  PROVE  Booted(s)[s] = IF loaded[s] # None THEN loaded[s]
                        ELSE IF dir[s] = None THEN NoFile ELSE dir[s]
BY DEF Booted, Sound, TypeOK

LEMMA CalmServer ==
  ASSUME Sound, NEW t \in Turns, CalmTurn(t), NEW s \in Sessions, s = turn[t].s,
         Probe(t) \/ Dispose(t) \/ \E k \in Keys : CreateSession(t, k)
  PROVE  CalmOutcome(t, s)
<1> DEFINE c == turn[t].config
           b == binding[s]
<1>0. /\ dir \in [Sessions -> Configs \cup {NoFile, None}]
      /\ loaded \in [Sessions -> Configs \cup {NoFile, None}]
      /\ binding[s] \in Row \cup {None} /\ turn[t] \in TurnState
      /\ history \in [Keys -> Sessions \cup {None}]
  BY DEF Sound, TypeOK
<1>1. CASE Probe(t)
  <2>0. /\ s \in chat /\ turn[t].persist /\ Reaches(t) /\ turn[t].seen = b /\ b # None
        /\ Resumes(s) => dir[s] = c /\ loaded[s] \in {None, b.config}
    BY <1>1 DEF Probe, CalmTurn, CalmAt, Reaches
  <2>1. loaded'[s] = Booted(s)[s] /\ UNCHANGED <<chat, binding, history>>
    BY <1>1, <2>0 DEF Probe
  <2>2. CASE Resumes(s)
    <3>1. /\ Goto(t, IF ProviderChanged(t) THEN "dispose" ELSE "update") /\ UNCHANGED dir
      BY <1>1, <2>0, <2>2 DEF Probe, Resumes
    <3>2. /\ turn'[t].pc = (IF ProviderChanged(t) THEN "dispose" ELSE "update")
          /\ turn'[t].s = s /\ turn'[t].config = c /\ turn'[t].seen = b
          /\ turn'[t].persist = turn[t].persist /\ turn'[t].server = turn[t].server
      BY <2>0, <3>1, GoesTo
    <3>3. c # None
      BY <1>1, NoneAssumption DEF Probe, Sound, GoodTurn
    <3>4. ~ProviderChanged(t) => Ready(s, c)'
      BY <1>0, <2>0, <2>1, <2>2, <3>1, <3>2, <3>3, BootedAt DEF ProviderChanged, Ready
    <3> QED
      BY <2>0, <2>1, <2>2, <3>1, <3>2, <3>4 DEF CalmOutcome, CalmTurn, CalmAt, Reaches, Resumes
  <2>3. CASE ~Resumes(s)
    <3>1. TurnEnds(t)
      BY <1>1, <2>0, <2>3 DEF Probe, Resumes
    <3> QED
      BY <2>0, <2>1, <2>3, <3>1, EndsAs DEF CalmOutcome, Settled, Resumes
  <2> QED
    BY <2>2, <2>3
<1>2. CASE Dispose(t)
  <2>0. /\ s \in chat /\ turn[t].persist /\ Reaches(t) /\ b # None
        /\ Resumes(s) => dir[s] = c
    BY <1>2 DEF Dispose, CalmTurn, CalmAt, Reaches
  <2>1. loaded'[s] = None /\ UNCHANGED <<chat, binding, history, dir>>
    BY <1>0, <1>2 DEF Dispose
  <2>2. /\ turn'[t].pc = "update" /\ turn'[t].s = s /\ turn'[t].config = c
        /\ turn'[t].persist = turn[t].persist /\ turn'[t].server = turn[t].server
    BY <1>2, GoesTo DEF Dispose
  <2> QED
    BY <2>0, <2>1, <2>2 DEF CalmOutcome, CalmTurn, CalmAt, Reaches, Resumes, Ready
<1>3. CASE \E k \in Keys : CreateSession(t, k)
  <2> PICK k \in Keys : CreateSession(t, k)
    BY <1>3
  <2>0. /\ s \in chat /\ turn[t].persist /\ Reaches(t) /\ b = None /\ Ready(s, c)
        /\ loaded[s] = None /\ c \in Configs
    BY DEF CreateSession, CalmTurn, CalmAt, Reaches, Sound, GoodTurn
  <2>1. loaded'[s] = Booted(s)[s] /\ UNCHANGED <<chat, binding, dir>>
    BY DEF CreateSession
  <2>2. turn'[t] = [turn[t] EXCEPT !.pc = "insert", !.key = k]
    BY OneMoves DEF CreateSession
  <2>3. /\ turn'[t].pc = "insert" /\ turn'[t].s = s /\ turn'[t].config = c
        /\ turn'[t].persist = turn[t].persist /\ turn'[t].server = turn[t].server
    BY <1>0, <2>2 DEF TurnState
  <2>4. Ready(s, c)'
    BY <2>0, <2>1, <2>3, BootedAt, NoneAssumption DEF Ready
  <2> QED
    BY <2>0, <2>1, <2>3, <2>4 DEF CalmOutcome, CalmTurn, CalmAt, Reaches
<1> QED
  BY <1>1, <1>2, <1>3

\* What UpdateBinding writes into the row of its session.
LEMMA UpdatedRow ==
  ASSUME Sound, NEW t \in Turns, NEW s \in Sessions, s = turn[t].s, UpdateBinding(t),
         binding[s] # None
  PROVE  /\ binding'[s] # None /\ binding'[s].key = binding[s].key
         /\ binding'[s].config =
              IF turn[t].persist THEN turn[t].config ELSE binding[s].config
         /\ turn'[t].pc = "prompt" /\ turn'[t].s = s /\ turn'[t].config = turn[t].config
         /\ turn'[t].persist = turn[t].persist /\ turn'[t].server = turn[t].server
         /\ turn'[t].key = binding[s].key
         /\ dir'[s] = IF dir[s] = None THEN NoFile ELSE dir[s]
         /\ UNCHANGED <<chat, loaded, history>>
<1> DEFINE b == binding[s]
           new == [b EXCEPT !.status = "active", !.server = turn[t].server,
                            !.config = IF turn[t].persist THEN turn[t].config ELSE @]
           row == Rewritten(b, new, turn[t].ambient /\ turn[t].persist)
<1>0. /\ turn[t] \in GoodTurn /\ turn[t] \in TurnState
      /\ turn[t].config \in Configs /\ b \in Row
      /\ dir \in [Sessions -> Configs \cup {NoFile, None}]
      /\ binding \in [Sessions -> Row \cup {None}]
  BY DEF Sound, TypeOK, GoodTurn, UpdateBinding
<1>1. /\ new \in Row /\ new.key = b.key
      /\ new.config = IF turn[t].persist THEN turn[t].config ELSE b.config
  BY <1>0 DEF Row, Statuses, TurnState
<1>2. row \in Row /\ row.key = b.key /\ row.config = new.config
  <2> HIDE DEF new
  <2> QED
    BY <1>0, <1>1 DEF Rewritten, Row
<1>3. binding' = [binding EXCEPT ![s] = row]
  BY DEF UpdateBinding
<1> HIDE DEF row
<1>4. binding'[s] = row
  BY <1>0, <1>3
<1>5. turn'[t] = [turn[t] EXCEPT !.pc = "prompt", !.key = b.key]
  BY OneMoves DEF UpdateBinding
<1>6. /\ turn'[t].pc = "prompt" /\ turn'[t].s = s /\ turn'[t].config = turn[t].config
      /\ turn'[t].persist = turn[t].persist /\ turn'[t].server = turn[t].server
      /\ turn'[t].key = b.key
  BY <1>0, <1>5 DEF TurnState
<1>7. dir'[s] = IF dir[s] = None THEN NoFile ELSE dir[s]
  BY <1>0 DEF UpdateBinding, Made
<1>8. UNCHANGED <<chat, loaded, history>>
  BY DEF UpdateBinding
<1>9. binding'[s] # None /\ binding'[s].key = b.key /\ binding'[s].config = new.config
  BY <1>2, <1>4, NoRowAssumption
<1> QED
  BY <1>1, <1>6, <1>7, <1>8, <1>9

\* What InsertBinding writes, while the session exists.
LEMMA InsertedRow ==
  ASSUME Sound, NEW t \in Turns, NEW s \in Sessions, s = turn[t].s, InsertBinding(t),
         s \in chat
  PROVE  /\ binding'[s] # None /\ binding'[s].key = turn[t].key
         /\ binding'[s].config = turn[t].config
         /\ turn'[t].pc = "prompt" /\ turn'[t].s = s /\ turn'[t].config = turn[t].config
         /\ turn'[t].persist = turn[t].persist /\ turn'[t].server = turn[t].server
         /\ turn'[t].key = turn[t].key
         /\ UNCHANGED <<chat, dir, loaded, history>>
<1> DEFINE row == [status |-> "active", key |-> turn[t].key, config |-> turn[t].config,
                   server |-> turn[t].server, age |-> "fresh"]
<1>1. row \in Row
  BY DEF Sound, GoodTurn, TurnState, InsertBinding, Row, Statuses
<1>2. binding'[s] = row
  BY DEF InsertBinding, Sound, TypeOK
<1>3. Goto(t, "prompt")
  BY DEF InsertBinding
<1> QED
  BY <1>1, <1>2, <1>3, GoesTo, NoRowAssumption DEF InsertBinding

LEMMA CalmBind ==
  ASSUME Sound, NEW t \in Turns, CalmTurn(t), NEW s \in Sessions, s = turn[t].s,
         UpdateBinding(t) \/ InsertBinding(t)
  PROVE  CalmOutcome(t, s)
<1> DEFINE c == turn[t].config
           b == binding[s]
<1>0. c # None
  BY NoneAssumption DEF UpdateBinding, InsertBinding, Sound, GoodTurn
<1>1. CASE UpdateBinding(t)
  <2>0. /\ s \in chat /\ turn[t].persist /\ turn[t].server = "current" /\ b # None
        /\ Resumes(s) => Ready(s, c)
    BY <1>1 DEF UpdateBinding, CalmTurn, CalmAt
  <2>1. /\ binding'[s] # None /\ binding'[s].key = b.key /\ binding'[s].config = c
        /\ turn'[t].pc = "prompt" /\ turn'[t].s = s /\ turn'[t].config = c
        /\ turn'[t].persist = turn[t].persist /\ turn'[t].server = turn[t].server
        /\ turn'[t].key = b.key
        /\ dir'[s] = (IF dir[s] = None THEN NoFile ELSE dir[s])
        /\ UNCHANGED <<chat, loaded, history>>
    BY <1>1, <2>0, UpdatedRow, ZenonT(40)
  <2>2. Resumes(s)' => Ready(s, c)'
    BY <1>0, <2>0, <2>1 DEF Resumes, Ready
  <2> QED
    BY <2>0, <2>1, <2>2 DEF CalmOutcome, CalmTurn, CalmAt
<1>2. CASE InsertBinding(t)
  <2>0. /\ s \in chat /\ turn[t].persist /\ turn[t].server = "current" /\ b = None
        /\ Ready(s, c)
    BY <1>2 DEF InsertBinding, CalmTurn, CalmAt
  <2>1. /\ binding'[s] # None /\ binding'[s].key = turn[t].key /\ binding'[s].config = c
        /\ turn'[t].pc = "prompt" /\ turn'[t].s = s /\ turn'[t].config = c
        /\ turn'[t].persist = turn[t].persist /\ turn'[t].server = turn[t].server
        /\ turn'[t].key = turn[t].key
        /\ UNCHANGED <<chat, dir, loaded, history>>
    BY <1>2, <2>0, InsertedRow
  <2> QED
    BY <2>0, <2>1 DEF CalmOutcome, CalmTurn, CalmAt, Ready
<1> QED
  BY <1>1, <1>2

\* A prompt boots the instance of its session, and records what it ran under.
LEMMA Prompted ==
  ASSUME Sound, NEW t \in Turns, NEW s \in Sessions, s = turn[t].s, Prompt(t)
  PROVE  /\ dir'[s] = IF dir[s] = None THEN NoFile ELSE dir[s]
         /\ loaded'[s] = Booted(s)[s]
         /\ UNCHANGED <<chat, binding, history>>
         /\ history[turn[t].key] = None => turn'[t].pc = "idle"
         /\ history[turn[t].key] # None =>
              /\ turn'[t].pc = "running" /\ turn'[t].s = s
              /\ turn'[t].config = turn[t].config
              /\ turn'[t].persist = turn[t].persist /\ turn'[t].server = turn[t].server
              /\ turn'[t].ran = loaded'[s]
<1>0. turn[t] \in TurnState /\ dir \in [Sessions -> Configs \cup {NoFile, None}]
  BY DEF Sound, TypeOK
<1>1. ASSUME history[turn[t].key] # None
      PROVE  /\ turn'[t].pc = "running" /\ turn'[t].s = s
             /\ turn'[t].config = turn[t].config
             /\ turn'[t].persist = turn[t].persist /\ turn'[t].server = turn[t].server
             /\ turn'[t].ran = loaded'[s]
  <2>1. turn'[t] = [turn[t] EXCEPT !.pc = "running", !.ran = loaded'[s]]
    BY <1>1, OneMoves DEF Prompt
  <2> QED
    BY <1>0, <2>1 DEF TurnState
<1>2. history[turn[t].key] = None => turn'[t].pc = "idle"
  BY EndsAs DEF Prompt
<1>3. dir'[s] = IF dir[s] = None THEN NoFile ELSE dir[s]
  BY <1>0 DEF Prompt, Made
<1> QED
  BY <1>1, <1>2, <1>3 DEF Prompt

LEMMA CalmRun ==
  ASSUME Sound, NEW t \in Turns, CalmTurn(t), NEW s \in Sessions, s = turn[t].s,
         Prompt(t) \/ StreamEvent(t) \/ StreamEnds(t)
  PROVE  CalmOutcome(t, s)
<1> DEFINE c == turn[t].config
           b == binding[s]
<1>1. CASE Prompt(t)
  <2>0. /\ s \in chat /\ turn[t].persist /\ turn[t].server = "current"
        /\ turn[t].key = b.key /\ b.config = c /\ b # None
        /\ Resumes(s) => Ready(s, c)
    BY <1>1 DEF Prompt, CalmTurn, CalmAt
  <2>1. c # None
    BY <1>1, NoneAssumption DEF Prompt, Sound, GoodTurn
  <2>2. UNCHANGED <<chat, binding, history>>
    BY <1>1 DEF Prompt
  <2>3. Resumes(s) => dir'[s] = c /\ loaded'[s] = c
    BY <1>1, <2>0, <2>1, Prompted, BootedAt DEF Ready
  <2>4. Settled(s)'
    BY <2>0, <2>2, <2>3 DEF Settled, Resumes
  <2>5. CASE Resumes(s)
    <3>1. /\ turn'[t].pc = "running" /\ turn'[t].s = s /\ turn'[t].config = c
          /\ turn'[t].persist /\ turn'[t].server = "current" /\ turn'[t].ran = c
      BY <1>1, <2>0, <2>3, <2>5, Prompted DEF Resumes
    <3> QED
      BY <2>0, <2>2, <2>4, <3>1 DEF CalmOutcome, CalmTurn, CalmAt
  <2>6. CASE ~Resumes(s)
    <3>1. turn'[t].pc = "idle"
      BY <1>1, <2>0, <2>6, Prompted DEF Resumes
    <3> QED
      BY <2>4, <3>1 DEF CalmOutcome
  <2> QED
    BY <2>5, <2>6
<1>2. CASE StreamEvent(t)
  <2>0. Settled(s) /\ s \in chat
    BY <1>2 DEF StreamEvent, CalmTurn, CalmAt
  <2>1. dir'[s] = NoFile /\ UNCHANGED <<chat, binding, loaded, history, turn>>
    BY <1>2 DEF StreamEvent, Made, Sound, TypeOK
  <2>2. Settled(s)'
    BY <2>0, <2>1 DEF Settled, Resumes
  <2> QED
    BY <1>2, <2>0, <2>1, <2>2 DEF StreamEvent, CalmOutcome, CalmTurn, CalmAt
<1>3. CASE StreamEnds(t)
  <2>0. Settled(s) /\ TurnEnds(t) /\ UNCHANGED <<binding, dir, loaded, history>>
    BY <1>3 DEF StreamEnds, CalmTurn, CalmAt
  <2> QED
    BY <2>0, EndsAs DEF CalmOutcome, Settled, Resumes
<1> QED
  BY <1>1, <1>2, <1>3

LEMMA CalmOwn ==
  ASSUME Sound, NEW t \in Turns, Busy(t), CalmTurn(t), NEW s \in Sessions, s = turn[t].s,
         TurnStep(t)
  PROVE  CalmOutcome(t, s)
BY CalmStart, CalmWrite, CalmServer, CalmBind, CalmRun DEF TurnStep

\* What one turn leaves alone stays as it was for the others.
LEMMA SettledApart ==
  ASSUME NEW t \in Turns, Apart(t), NEW r \in Sessions, r # turn[t].s, Settled(r)
  PROVE  Settled(r)'
BY DEF Apart, Settled, Resumes

LEMMA CalmApart ==
  ASSUME Sound, NEW t \in Turns, Apart(t), NEW u \in Turns, u # t, Busy(u), CalmTurn(u),
         turn[u].s # turn[t].s
  PROVE  CalmTurn(u)'
<1> PICK s \in Sessions : s = turn[u].s
  BY DEF Sound, GoodTurn, Busy
<1>1. /\ dir'[s] = dir[s] /\ loaded'[s] = loaded[s] /\ binding'[s] = binding[s]
      /\ Resumes(s)' <=> Resumes(s)
      /\ Settled(s)' <=> Settled(s)
  BY DEF Apart, Settled, Resumes
<1>2. turn'[u] = turn[u] /\ chat' = chat
  BY DEF Apart
<1> QED
  BY <1>1, <1>2 DEF CalmTurn, CalmAt, Ready

LEMMA CalmTurnStep ==
  ASSUME Sound, InCalm, OneTurnEach, NEW t \in Turns, TurnStep(t)
  PROVE  InCalm'
<1>0. Apart(t)
  BY StepsApart
<1>1. Busy(t)
  BY DEF Busy, TurnStep, PrepareWorkspace, ReadBinding, WriteConfig, Probe, Dispose,
     UpdateBinding, CreateSession, InsertBinding, Prompt, StreamEvent, StreamEnds
<1>2. PICK s \in Sessions : s = turn[t].s
  BY <1>1 DEF Sound, GoodTurn, Busy
<1>3. CalmOutcome(t, s)
  BY <1>1, <1>2, CalmOwn DEF InCalm
<1>4. ASSUME NEW u \in Turns, Busy(u)' PROVE CalmTurn(u)'
  <2>1. CASE u = t
    BY <1>3, <1>4, <2>1 DEF CalmOutcome, Busy
  <2>2. CASE u # t
    <3>1. Busy(u) /\ turn[u].s # turn[t].s
      BY <1>0, <1>1, <1>4, <2>2 DEF Apart, Busy, OneTurnEach
    <3> QED
      BY <1>0, <2>2, <3>1, CalmApart DEF InCalm
  <2> QED
    BY <2>1, <2>2
<1>5. ASSUME NEW r \in chat', Unused(r)' PROVE Settled(r)'
  <2>0. r \in Sessions /\ r \in chat
    BY <1>0, <1>5 DEF Apart, Sound, TypeOK
  <2>1. CASE r = s
    <3>1. turn'[t].pc = "idle"
      BY <1>3, <1>5, <2>1 DEF CalmOutcome, Unused, Busy
    <3> QED
      BY <1>3, <2>1, <3>1 DEF CalmOutcome
  <2>2. CASE r # s
    <3>1. Unused(r)
      BY <1>0, <1>2, <1>5, <2>2 DEF Apart, Unused, Busy
    <3> QED
      BY <1>0, <1>2, <2>0, <2>2, <3>1, SettledApart DEF InCalm
  <2> QED
    BY <2>1, <2>2
<1> QED
  BY <1>4, <1>5 DEF InCalm

LEMMA SettledWeaker ==
  ASSUME Sound, NEW r \in Sessions, Settled(r), Weaker(r),
         \A k \in Keys : history'[k] \in {None, history[k]}
  PROVE  Settled(r)'
<1>1. binding[r] # None => binding[r].key \in Keys
  BY DEF Sound, TypeOK, Row
<1>2. Resumes(r)' => Resumes(r)
  BY <1>1 DEF Weaker, Resumes
<1> QED
  BY <1>2 DEF Weaker, Settled, Resumes

LEMMA CalmAges ==
  ASSUME Sound, InCalm, NEW s \in Sessions, RowAges(s)
  PROVE  InCalm'
<1>0. /\ \A r \in Sessions : Weaker(r)
      /\ \A r \in Sessions : r # s => binding'[r] = binding[r]
      /\ UNCHANGED <<chat, dir, loaded, history, turn>>
  BY AgesKeep
<1>1. ASSUME NEW r \in Sessions, Settled(r) PROVE Settled(r)'
  BY <1>0, <1>1, SettledWeaker
<1>2. ASSUME NEW u \in Turns, Busy(u)' PROVE CalmTurn(u)'
  <2>0. Busy(u) /\ CalmTurn(u) /\ turn'[u] = turn[u]
    BY <1>0, <1>2 DEF InCalm, Busy
  <2> PICK r \in Sessions : r = turn[u].s
    BY <2>0 DEF Sound, GoodTurn, Busy
  <2>1. r # s
    BY DEF RowAges, NoTurn
  <2>2. binding'[r] = binding[r] /\ (Resumes(r)' <=> Resumes(r)) /\ (Settled(r)' <=> Settled(r))
    BY <1>0, <2>1 DEF Resumes, Settled
  <2> QED
    BY <1>0, <2>0, <2>2 DEF CalmTurn, CalmAt, Ready
<1>3. ASSUME NEW r \in chat', Unused(r)' PROVE Settled(r)'
  <2>1. r \in chat /\ Unused(r) /\ r \in Sessions
    BY <1>0, <1>3 DEF Unused, Busy, Sound, TypeOK
  <2> QED
    BY <1>1, <2>1 DEF InCalm
<1> QED
  BY <1>2, <1>3 DEF InCalm

LEMMA Posted ==
  ASSUME Sound, NEW t \in Turns, NEW s \in Sessions, NEW c \in Configs, Post(t, s, c)
  PROVE  /\ turn'[t].pc = "prepare" /\ turn'[t].s = s /\ turn'[t].config = c
         /\ turn'[t].persist /\ ~Busy(t)
         /\ \A u \in Turns : u # t => turn'[u] = turn[u]
         /\ UNCHANGED <<chat, binding, dir, loaded, history>>
<1>1. turn'[t] = [TurnIdle EXCEPT !.pc = "prepare", !.s = s, !.config = c]
  BY OneMoves DEF Post
<1> QED
  BY <1>1, OneMoves DEF Post, TurnIdle, Busy

\* The session of a post is not used by another turn.
LEMMA PostsAlone ==
  ASSUME Sound, OneTurnEach', NEW t \in Turns, NEW s \in Sessions, NEW c \in Configs,
         Post(t, s, c)
  PROVE  Unused(s) /\ \A r \in Sessions : Unused(r)' => Unused(r)
BY Posted DEF OneTurnEach, Busy, Unused

LEMMA CalmPosts ==
  ASSUME Sound, InCalm, OneTurnEach', NEW t \in Turns, NEW s \in Sessions, NEW c \in Configs,
         Post(t, s, c)
  PROVE  InCalm'
<1>0. s \in chat /\ UNCHANGED <<chat, binding, dir, loaded, history>>
  BY DEF Post
<1>1. \A r \in Sessions : (Settled(r)' <=> Settled(r)) /\ (Resumes(r)' <=> Resumes(r))
  BY <1>0 DEF Settled, Resumes
<1>2. ASSUME NEW u \in Turns, Busy(u)' PROVE CalmTurn(u)'
  <2>1. CASE u = t
    <3>1. Settled(s)'
      BY <1>0, <1>1, PostsAlone DEF InCalm
    <3> QED
      BY <1>0, <2>1, <3>1, Posted DEF CalmTurn, CalmAt
  <2>2. CASE u # t
    <3>1. turn'[u] = turn[u] /\ CalmTurn(u) /\ Busy(u)
      BY <1>2, <2>2, Posted DEF InCalm, Busy
    <3> PICK r \in Sessions : r = turn[u].s
      BY <3>1 DEF Sound, GoodTurn, Busy
    <3> QED
      BY <1>0, <1>1, <3>1 DEF CalmTurn, CalmAt, Ready
  <2> QED
    BY <2>1, <2>2
<1>3. ASSUME NEW r \in chat', Unused(r)' PROVE Settled(r)'
  BY <1>0, <1>1, <1>3, PostsAlone DEF InCalm, Sound, TypeOK
<1> QED
  BY <1>2, <1>3 DEF InCalm

\* Where no turn is under way, none is after a step of the jobs, a deletion or a restart.
LEMMA StillNoTurns ==
  ASSUME Sound, NoTurns, Cleaning \/ ServerRestarts \/ Crash
  PROVE  \A t \in Turns : ~Busy(t) /\ ~Busy(t)'
<1>1. UNCHANGED turn \/ ServerRestarts \/ Crash
  BY DEF Cleaning, SweepsStep, SweepStep, StartSweep, Mark, EndSweep, CleanSession,
     ExpireSession, ExpireFails, Deletions, DeleteSession, RemoveDirs
<1>2. turn \in [Turns -> TurnState]
  BY DEF Sound, TypeOK
<1>3. ASSUME ServerRestarts, NEW t \in Turns PROVE turn'[t].pc = turn[t].pc
  BY <1>2, <1>3 DEF ServerRestarts, TurnState
<1> QED
  BY <1>1, <1>3 DEF NoTurns, Busy, Crash, TurnIdle

LEMMA CalmNext ==
  ASSUME Sound, InCalm, OneTurnEach, OneTurnEach', [Calm]_vars
  PROVE  InCalm'
<1>1. CASE UNCHANGED vars
  BY <1>1 DEF vars, InCalm, Unused, Busy, Settled, Resumes, Ready, CalmTurn, CalmAt
<1>2. CASE Turning
  BY <1>2, CalmTurnStep, CalmPosts, CalmAges DEF Turning, Posts
<1>3. CASE NoTurns /\ (Cleaning \/ ServerRestarts \/ Crash)
  <2>0. \A t \in Turns : ~Busy(t) /\ ~Busy(t)'
    BY <1>3, StillNoTurns
  <2>1. ASSUME NEW r \in chat' PROVE Settled(r)'
    <3>1. r \in Sessions
      BY <2>1, ChatShrinks, <1>3 DEF Sound, TypeOK, Next, Normal, Cleaning, CallsFail
    <3>2. Weaker(r) /\ r \in chat /\ \A k \in Keys : history'[k] \in {None, history[k]}
      BY <1>3, <2>1, <3>1, RestWeakens
    <3>3. Settled(r)
      BY <2>0, <3>2 DEF InCalm, Unused
    <3> QED
      BY <3>1, <3>2, <3>3, SettledWeaker
  <2> QED
    BY <2>0, <2>1 DEF InCalm
<1> QED
  BY <1>1, <1>2, <1>3 DEF Calm

LEMMA CalmInit == Init => InCalm
BY DEF Init, InCalm, Busy, TurnIdle, Settled, Resumes

LEMMA CalmShows == Sound /\ InCalm => PromptUnderOwnConfig
BY DEF InCalm, Busy, CalmTurn, CalmAt, PromptUnderOwnConfig

-----------------------------------------------------------------------------
(* The stuck world: an instance is known by its row.                       *)

\* The row of s names the configuration of its instance.
Known(s) == loaded[s] = IF binding[s] = None THEN None ELSE binding[s].config

\* What a turn has established, from pc to pc, when its disposals may fail: either
\* the fingerprint is withheld, or the instance is gone and the file is new.
StuckAt(t, s, c, b) ==
    LET At(pcs) == turn[t].pc \in pcs
    IN /\ s \in chat
       /\ At({"prepare", "read", "write", "probe", "dispose", "running"}) => Known(s)
       /\ At({"prepare", "read", "write", "probe", "dispose"}) => turn[t].persist
       /\ At({"write", "probe", "dispose"}) => turn[t].seen = b
       /\ At({"probe", "dispose", "update", "prompt"}) => b # None
       /\ At({"probe"}) /\ b.config # c => dir[s] = c
       /\ At({"dispose"}) => dir[s] = c
       /\ At({"update"}) => \/ ~turn[t].persist /\ Known(s)
                            \/ turn[t].persist /\ loaded[s] = None /\ dir[s] = c
                            \/ loaded[s] = c /\ Known(s)
       /\ At({"create"}) => b = None /\ loaded[s] = None /\ dir[s] = c
       /\ At({"insert"}) => b = None /\ loaded[s] = c
       /\ At({"prompt"}) => Known(s) \/ (loaded[s] = None /\ dir[s] = b.config)

StuckTurn(t) == StuckAt(t, turn[t].s, turn[t].config, binding[turn[t].s])

InStuck ==
    /\ \A s \in Sessions : Unused(s) /\ (s \in chat \/ binding[s] # None) => Known(s)
    /\ \A t \in Turns : Busy(t) => StuckTurn(t)

StuckOutcome(t, s) ==
    IF turn'[t].pc = "idle"
      THEN Known(s)'
      ELSE turn'[t].s = s /\ turn'[t].config = turn[t].config /\ StuckTurn(t)'

LEMMA StuckStart ==
  ASSUME Sound, NEW t \in Turns, Busy(t), StuckTurn(t), NEW s \in Sessions, s = turn[t].s,
         PrepareWorkspace(t) \/ ReadBinding(t)
  PROVE  StuckOutcome(t, s)
<1>0. turn[t] \in TurnState
  BY DEF Sound, TypeOK
<1>1. /\ s \in chat /\ Known(s) /\ Known(s)' /\ turn[t].persist
      /\ UNCHANGED <<chat, binding>>
  BY DEF PrepareWorkspace, ReadBinding, StuckTurn, StuckAt, Known
<1>2. CASE PrepareWorkspace(t)
  <2>1. turn'[t] = [turn[t] EXCEPT !.pc = "read", !.server = "current"]
    BY <1>2, OneMoves DEF PrepareWorkspace
  <2>2. /\ turn'[t].pc = "read" /\ turn'[t].s = s /\ turn'[t].config = turn[t].config
        /\ turn'[t].persist = turn[t].persist
    BY <1>0, <2>1 DEF TurnState
  <2> QED
    BY <1>1, <2>2 DEF StuckOutcome, StuckTurn, StuckAt
<1>3. CASE TurnEnds(t)
  BY <1>1, <1>3, EndsAs DEF StuckOutcome
<1>4. CASE ReadBinding(t) /\ ~TurnEnds(t)
  <2>1. turn'[t] = [turn[t] EXCEPT !.pc = "write", !.seen = binding[s]]
    BY <1>4, OneMoves DEF ReadBinding
  <2>2. /\ turn'[t].pc = "write" /\ turn'[t].seen = binding[s] /\ turn'[t].s = s
        /\ turn'[t].config = turn[t].config /\ turn'[t].persist = turn[t].persist
    BY <1>0, <2>1 DEF TurnState
  <2> QED
    BY <1>1, <2>2 DEF StuckOutcome, StuckTurn, StuckAt
<1> QED
  BY <1>2, <1>3, <1>4

LEMMA StuckWrite ==
  ASSUME Sound, NEW t \in Turns, StuckTurn(t), NEW s \in Sessions, s = turn[t].s,
         WriteConfig(t)
  PROVE  StuckOutcome(t, s)
<1> DEFINE c == turn[t].config
           b == binding[s]
<1>0. /\ s \in chat /\ Known(s) /\ Known(s)' /\ turn[t].seen = b /\ turn[t].persist
      /\ UNCHANGED <<chat, binding, loaded, history>>
  BY DEF WriteConfig, StuckTurn, StuckAt, Known
<1>1. CASE dir[s] = None
  <2>1. TurnEnds(t)
    BY <1>1 DEF WriteConfig
  <2> QED
    BY <1>0, <2>1, EndsAs DEF StuckOutcome
<1>2. CASE dir[s] # None
  <2>1. /\ turn'[t].s = s /\ turn'[t].config = c /\ turn'[t].seen = b
        /\ turn'[t].persist = turn[t].persist
        /\ MustWrite(t) => dir'[s] = c
    BY <1>0, <1>2, Writes
  <2>2. CASE b = None
    <3>1. turn'[t].pc = "create" /\ dir'[s] = c /\ loaded[s] = None
      BY <1>0, <1>2, <2>1, <2>2, Writes DEF MustWrite, ProviderChanged, Known
    <3> QED
      BY <1>0, <2>1, <2>2, <3>1 DEF StuckOutcome, StuckTurn, StuckAt
  <2>3. CASE b # None
    <3>1. \/ turn'[t].pc = "probe"
          \/ turn'[t].pc = "dispose" /\ ProviderChanged(t)
          \/ turn'[t].pc = "update" /\ ~ProviderChanged(t)
      BY <1>0, <1>2, <2>3, Writes
    <3>2. ProviderChanged(t) => dir'[s] = c
      BY <2>1 DEF MustWrite
    <3>3. ProviderChanged(t) <=> b.config # c
      BY <1>0, <2>3 DEF ProviderChanged
    <3>4. ~ProviderChanged(t) => loaded'[s] = c
      BY <1>0, <2>3, <3>3 DEF Known
    <3> QED
      BY <1>0, <2>1, <2>3, <3>1, <3>2, <3>3, <3>4 DEF StuckOutcome, StuckTurn, StuckAt
  <2> QED
    BY <2>2, <2>3
<1> QED
  BY <1>1, <1>2

LEMMA StuckServer ==
  ASSUME Sound, NEW t \in Turns, StuckTurn(t), NEW s \in Sessions, s = turn[t].s,
         Probe(t) \/ Dispose(t) \/ DisposeFails(t) \/ \E k \in Keys : CreateSession(t, k)
  PROVE  StuckOutcome(t, s)
<1> DEFINE c == turn[t].config
           b == binding[s]
<1>0. /\ loaded \in [Sessions -> Configs \cup {NoFile, None}]
      /\ binding[s] \in Row \cup {None} /\ turn[t] \in TurnState
  BY DEF Sound, TypeOK
<1>1. CASE Probe(t)
  <2>0. /\ s \in chat /\ Known(s) /\ turn[t].seen = b /\ b # None /\ turn[t].persist
        /\ b.config # c => dir[s] = c
        /\ UNCHANGED <<chat, binding, history>>
    BY <1>1 DEF Probe, StuckTurn, StuckAt
  <2>1. loaded[s] = b.config /\ b.config # None
    BY <1>0, <2>0, NoneAssumption DEF Known, Row
  <2>2. loaded'[s] = loaded[s] /\ Known(s)'
    BY <1>1, <2>0, <2>1, BootedAt DEF Probe, Known
  <2>3. CASE TurnEnds(t)
    BY <2>2, <2>3, EndsAs DEF StuckOutcome
  <2>4. CASE ~TurnEnds(t)
    <3>1. Goto(t, IF ProviderChanged(t) THEN "dispose" ELSE "update") /\ UNCHANGED dir
      BY <1>1, <2>4 DEF Probe
    <3>2. /\ turn'[t].pc = (IF ProviderChanged(t) THEN "dispose" ELSE "update")
          /\ turn'[t].s = s /\ turn'[t].config = c /\ turn'[t].seen = b
          /\ turn'[t].persist = turn[t].persist
      BY <2>0, <3>1, GoesTo
    <3>3. ProviderChanged(t) <=> b.config # c
      BY <2>0 DEF ProviderChanged
    <3> QED
      BY <2>0, <2>1, <2>2, <3>1, <3>2, <3>3 DEF StuckOutcome, StuckTurn, StuckAt
  <2> QED
    BY <2>3, <2>4
<1>2. CASE Dispose(t)
  <2>0. s \in chat /\ b # None /\ dir[s] = c /\ turn[t].persist
    BY <1>2 DEF Dispose, StuckTurn, StuckAt
  <2>1. loaded'[s] = None /\ UNCHANGED <<chat, binding, history, dir>>
    BY <1>0, <1>2 DEF Dispose
  <2>2. /\ turn'[t].pc = "update" /\ turn'[t].s = s /\ turn'[t].config = c
        /\ turn'[t].persist = turn[t].persist
    BY <1>2, GoesTo DEF Dispose
  <2> QED
    BY <2>0, <2>1, <2>2 DEF StuckOutcome, StuckTurn, StuckAt
<1>3. CASE DisposeFails(t)
  <2>0. s \in chat /\ b # None /\ dir[s] = c /\ Known(s)
    BY <1>3 DEF DisposeFails, StuckTurn, StuckAt
  <2>1. UNCHANGED <<chat, binding, dir, loaded, history>>
    BY <1>3 DEF DisposeFails
  <2>2. turn'[t] = [turn[t] EXCEPT !.pc = "update", !.persist = FALSE]
    BY <1>3, OneMoves DEF DisposeFails
  <2>3. /\ turn'[t].pc = "update" /\ turn'[t].s = s /\ turn'[t].config = c
        /\ ~turn'[t].persist
    BY <1>0, <2>2 DEF TurnState
  <2> QED
    BY <2>0, <2>1, <2>3 DEF StuckOutcome, StuckTurn, StuckAt, Known
<1>4. CASE \E k \in Keys : CreateSession(t, k)
  <2> PICK k \in Keys : CreateSession(t, k)
    BY <1>4
  <2>a. s \in chat /\ b = None /\ loaded[s] = None /\ dir[s] = c
    BY DEF CreateSession, StuckTurn, StuckAt
  <2>b. c # None
    BY NoneAssumption, ZenonT(40) DEF CreateSession, Sound, GoodTurn
  <2>1. loaded'[s] = c /\ UNCHANGED <<chat, binding, dir>>
    BY <2>a, <2>b, BootedAt DEF CreateSession
  <2>2. turn'[t] = [turn[t] EXCEPT !.pc = "insert", !.key = k]
    BY OneMoves DEF CreateSession
  <2>3. turn'[t].pc = "insert" /\ turn'[t].s = s /\ turn'[t].config = c
    BY <1>0, <2>2 DEF TurnState
  <2> QED
    BY <2>a, <2>1, <2>3 DEF StuckOutcome, StuckTurn, StuckAt
<1> QED
  BY <1>1, <1>2, <1>3, <1>4

LEMMA StuckBind ==
  ASSUME Sound, NEW t \in Turns, StuckTurn(t), NEW s \in Sessions, s = turn[t].s,
         UpdateBinding(t) \/ InsertBinding(t)
  PROVE  StuckOutcome(t, s)
<1> DEFINE c == turn[t].config
           b == binding[s]
<1>0. c # None
  BY NoneAssumption DEF UpdateBinding, InsertBinding, Sound, GoodTurn
<1>1. CASE UpdateBinding(t)
  <2>0. /\ s \in chat /\ b # None
        /\ \/ ~turn[t].persist /\ Known(s)
           \/ turn[t].persist /\ loaded[s] = None /\ dir[s] = c
           \/ loaded[s] = c /\ Known(s)
    BY <1>1 DEF UpdateBinding, StuckTurn, StuckAt
  <2>1. /\ binding'[s] # None
        /\ binding'[s].config = (IF turn[t].persist THEN c ELSE b.config)
        /\ turn'[t].pc = "prompt" /\ turn'[t].s = s /\ turn'[t].config = c
        /\ dir'[s] = (IF dir[s] = None THEN NoFile ELSE dir[s])
        /\ UNCHANGED <<chat, loaded, history>>
    BY <1>1, <2>0, UpdatedRow
  <2>2. Known(s)' \/ (loaded'[s] = None /\ dir'[s] = binding'[s].config)
    BY <1>0, <2>0, <2>1 DEF Known
  <2> QED
    BY <2>0, <2>1, <2>2 DEF StuckOutcome, StuckTurn, StuckAt
<1>2. CASE InsertBinding(t)
  <2>0. s \in chat /\ b = None /\ loaded[s] = c
    BY <1>2 DEF InsertBinding, StuckTurn, StuckAt
  <2>1. /\ binding'[s] # None /\ binding'[s].config = c
        /\ turn'[t].pc = "prompt" /\ turn'[t].s = s /\ turn'[t].config = c
        /\ UNCHANGED <<chat, dir, loaded, history>>
    BY <1>2, <2>0, InsertedRow
  <2> QED
    BY <2>0, <2>1 DEF StuckOutcome, StuckTurn, StuckAt, Known
<1> QED
  BY <1>1, <1>2

LEMMA StuckRun ==
  ASSUME Sound, NEW t \in Turns, StuckTurn(t), NEW s \in Sessions, s = turn[t].s,
         Prompt(t) \/ StreamEvent(t) \/ StreamEnds(t)
  PROVE  StuckOutcome(t, s)
<1> DEFINE b == binding[s]
<1>1. CASE Prompt(t)
  <2>0. /\ s \in chat /\ b # None
        /\ Known(s) \/ (loaded[s] = None /\ dir[s] = b.config)
    BY <1>1 DEF Prompt, StuckTurn, StuckAt
  <2>1. b.config # None
    BY <2>0, NoneAssumption DEF Sound, TypeOK, Row
  <2>2. loaded'[s] = b.config /\ UNCHANGED <<chat, binding, history>>
    BY <1>1, <2>0, <2>1, Prompted, BootedAt DEF Known
  <2>3. Known(s)'
    BY <2>0, <2>2 DEF Known
  <2>4. \/ turn'[t].pc = "idle"
        \/ turn'[t].pc = "running" /\ turn'[t].s = s /\ turn'[t].config = turn[t].config
    BY <1>1, Prompted
  <2> QED
    BY <2>0, <2>2, <2>3, <2>4 DEF StuckOutcome, StuckTurn, StuckAt
<1>2. CASE StreamEvent(t)
  <2>1. s \in chat /\ Known(s) /\ Known(s)' /\ UNCHANGED <<chat, turn>>
    BY <1>2 DEF StreamEvent, StuckTurn, StuckAt, Known
  <2> QED
    BY <1>2, <2>1 DEF StreamEvent, StuckOutcome, StuckTurn, StuckAt
<1>3. CASE StreamEnds(t)
  <2>1. Known(s)' /\ TurnEnds(t)
    BY <1>3 DEF StreamEnds, StuckTurn, StuckAt, Known
  <2> QED
    BY <2>1, EndsAs DEF StuckOutcome
<1> QED
  BY <1>1, <1>2, <1>3

LEMMA StuckOwn ==
  ASSUME Sound, NEW t \in Turns, Busy(t), StuckTurn(t), NEW s \in Sessions, s = turn[t].s,
         TurnStep(t) \/ DisposeFails(t)
  PROVE  StuckOutcome(t, s)
BY StuckStart, StuckWrite, StuckServer, StuckBind, StuckRun DEF TurnStep

LEMMA StuckApart ==
  ASSUME Sound, NEW t \in Turns, Apart(t), NEW u \in Turns, u # t, Busy(u), StuckTurn(u),
         turn[u].s # turn[t].s
  PROVE  StuckTurn(u)'
<1> PICK s \in Sessions : s = turn[u].s
  BY DEF Sound, GoodTurn, Busy
<1>1. /\ dir'[s] = dir[s] /\ loaded'[s] = loaded[s] /\ binding'[s] = binding[s]
      /\ Known(s)' <=> Known(s)
  BY DEF Apart, Known
<1>2. turn'[u] = turn[u] /\ chat' = chat
  BY DEF Apart
<1> QED
  BY <1>1, <1>2 DEF StuckTurn, StuckAt

LEMMA StuckTurnStep ==
  ASSUME Sound, InStuck, OneTurnEach, NEW t \in Turns, TurnStep(t) \/ DisposeFails(t)
  PROVE  InStuck'
<1>0. Apart(t)
  BY StepsApart
<1>1. Busy(t)
  BY DEF Busy, TurnStep, PrepareWorkspace, ReadBinding, WriteConfig, Probe, Dispose,
     UpdateBinding, CreateSession, InsertBinding, Prompt, StreamEvent, StreamEnds, DisposeFails
<1>2. PICK s \in Sessions : s = turn[t].s
  BY <1>1 DEF Sound, GoodTurn, Busy
<1>3. StuckOutcome(t, s)
  BY <1>1, <1>2, StuckOwn DEF InStuck
<1>4. ASSUME NEW u \in Turns, Busy(u)' PROVE StuckTurn(u)'
  <2>1. CASE u = t
    BY <1>3, <1>4, <2>1 DEF StuckOutcome, Busy
  <2>2. CASE u # t
    <3>1. Busy(u) /\ turn[u].s # turn[t].s
      BY <1>0, <1>1, <1>4, <2>2 DEF Apart, Busy, OneTurnEach
    <3> QED
      BY <1>0, <2>2, <3>1, StuckApart DEF InStuck
  <2> QED
    BY <2>1, <2>2
<1>5. ASSUME NEW r \in Sessions, Unused(r)', r \in chat' \/ binding'[r] # None
      PROVE  Known(r)'
  <2>1. CASE r = s
    <3>1. turn'[t].pc = "idle"
      BY <1>3, <1>5, <2>1 DEF StuckOutcome, Unused, Busy
    <3> QED
      BY <1>3, <2>1, <3>1 DEF StuckOutcome
  <2>2. CASE r # s
    <3>1. Unused(r)
      BY <1>0, <1>2, <1>5, <2>2 DEF Apart, Unused, Busy
    <3>2. binding'[r] = binding[r] /\ loaded'[r] = loaded[r] /\ chat' = chat
      BY <1>0, <1>2, <2>2 DEF Apart
    <3>3. Known(r)
      BY <1>5, <3>1, <3>2 DEF InStuck
    <3> QED
      BY <3>2, <3>3 DEF Known
  <2> QED
    BY <2>1, <2>2
<1> QED
  BY <1>4, <1>5 DEF InStuck

LEMMA StuckPosts ==
  ASSUME Sound, InStuck, OneTurnEach', NEW t \in Turns, NEW s \in Sessions, NEW c \in Configs,
         Post(t, s, c)
  PROVE  InStuck'
<1>0. s \in chat /\ UNCHANGED <<chat, binding, dir, loaded, history>>
  BY DEF Post
<1>1. \A r \in Sessions : Known(r)' <=> Known(r)
  BY <1>0 DEF Known
<1>2. ASSUME NEW u \in Turns, Busy(u)' PROVE StuckTurn(u)'
  <2>1. CASE u = t
    <3>1. Known(s)'
      BY <1>0, <1>1, PostsAlone DEF InStuck
    <3> QED
      BY <1>0, <2>1, <3>1, Posted DEF StuckTurn, StuckAt
  <2>2. CASE u # t
    <3>1. turn'[u] = turn[u] /\ StuckTurn(u) /\ Busy(u)
      BY <1>2, <2>2, Posted DEF InStuck, Busy
    <3> PICK r \in Sessions : r = turn[u].s
      BY <3>1 DEF Sound, GoodTurn, Busy
    <3> QED
      BY <1>0, <1>1, <3>1 DEF StuckTurn, StuckAt
  <2> QED
    BY <2>1, <2>2
<1>3. ASSUME NEW r \in Sessions, Unused(r)', r \in chat' \/ binding'[r] # None
      PROVE  Known(r)'
  BY <1>0, <1>1, <1>3, PostsAlone DEF InStuck
<1> QED
  BY <1>2, <1>3 DEF InStuck

LEMMA StuckAges ==
  ASSUME Sound, InStuck, NEW s \in Sessions, RowAges(s)
  PROVE  InStuck'
<1>0. /\ \A r \in Sessions : Weaker(r)
      /\ \A r \in Sessions : r # s => binding'[r] = binding[r]
      /\ UNCHANGED <<chat, dir, loaded, history, turn>>
  BY AgesKeep
<1>1. \A r \in Sessions : Known(r)' <=> Known(r)
  BY <1>0 DEF Weaker, Known
<1>2. ASSUME NEW u \in Turns, Busy(u)' PROVE StuckTurn(u)'
  <2>0. Busy(u) /\ StuckTurn(u) /\ turn'[u] = turn[u]
    BY <1>0, <1>2 DEF InStuck, Busy
  <2> PICK r \in Sessions : r = turn[u].s
    BY <2>0 DEF Sound, GoodTurn, Busy
  <2>1. r # s
    BY DEF RowAges, NoTurn
  <2> QED
    BY <1>0, <1>1, <2>0, <2>1 DEF StuckTurn, StuckAt
<1>3. ASSUME NEW r \in Sessions, Unused(r)', r \in chat' \/ binding'[r] # None
      PROVE  Known(r)'
  <2>1. Unused(r) /\ (r \in chat \/ binding[r] # None)
    BY <1>0, <1>3 DEF Unused, Busy, Weaker
  <2> QED
    BY <1>1, <2>1 DEF InStuck
<1> QED
  BY <1>2, <1>3 DEF InStuck

LEMMA StuckNext ==
  ASSUME Sound, InStuck, OneTurnEach, OneTurnEach', [Stuck]_vars
  PROVE  InStuck'
<1>1. CASE UNCHANGED vars
  BY <1>1 DEF vars, InStuck, Unused, Busy, Known, StuckTurn, StuckAt
<1>2. CASE Turning \/ \E t \in Turns : DisposeFails(t)
  BY <1>2, StuckTurnStep, StuckPosts, StuckAges DEF Turning, Posts
<1>3. CASE NoTurns /\ Cleaning
  <2>0. \A t \in Turns : ~Busy(t) /\ ~Busy(t)'
    BY <1>3, StillNoTurns
  <2>1. loaded' = loaded
    BY <1>3 DEF Cleaning, SweepsStep, SweepStep, StartSweep, Mark, EndSweep, CleanSession,
       ExpireSession, ExpireFails, Deletions, DeleteSession, RemoveDirs
  <2>2. ASSUME NEW r \in Sessions, r \in chat' \/ binding'[r] # None PROVE Known(r)'
    <3>1. Weaker(r) /\ (r \in chat \/ binding[r] # None)
      BY <1>3, <2>2, RestWeakens
    <3>2. Known(r)
      BY <2>0, <3>1 DEF InStuck, Unused
    <3> QED
      BY <2>1, <3>1, <3>2 DEF Weaker, Known
  <2> QED
    BY <2>0, <2>2 DEF InStuck
<1> QED
  BY <1>1, <1>2, <1>3 DEF Stuck

LEMMA StuckInit == Init => InStuck
BY DEF Init, InStuck, Busy, TurnIdle, Known

LEMMA StuckShows == Sound /\ InStuck => InstanceIsKnown
<1> SUFFICES ASSUME Sound, InStuck, NEW s \in Sessions, NoTurn(s), binding[s] # None
             PROVE  loaded[s] \in {None, binding[s].config}
  BY DEF InstanceIsKnown
<1>1. Unused(s)
  BY DEF Unused, NoTurn
<1> QED
  BY <1>1 DEF InStuck, Known

-----------------------------------------------------------------------------
(* The two promises, for any number of turns in different sessions.        *)

\* Every world is a restriction of the specification.
LEMMA WorldsAreNext == WorldNext => Next
<1>1. Calm => Next
  BY DEF Calm, Turning, Cleaning, Next, Normal, CallsFail
<1>2. Stuck => Next
  BY DEF Stuck, Turning, Cleaning, Next, Normal, CallsFail
<1>3. Kept => Next
  BY DEF Kept, Next
<1> QED
  BY <1>1, <1>2, <1>3 DEF WorldNext

InWorld == /\ Sound
           /\ world = "calm" => InCalm
           /\ world = "stuck" => InStuck

LEMMA InitInWorld == WorldInit => InWorld
BY InitSound, CalmInit, StuckInit DEF WorldInit, InWorld

LEMMA NextInWorld ==
  InWorld /\ OneTurnEach /\ OneTurnEach' /\ [WorldNext]_<<vars, world>> => InWorld'
<1> SUFFICES ASSUME InWorld, OneTurnEach, OneTurnEach', [WorldNext]_<<vars, world>>
             PROVE  InWorld'
  OBVIOUS
<1>1. [Next]_vars /\ world' = world
  BY WorldsAreNext DEF WorldNext
<1>2. Sound'
  BY <1>1, NextSound DEF InWorld
<1>3. CASE world = "calm"
  <2>1. [Calm]_vars
    BY <1>3 DEF WorldNext
  <2> QED
    BY <1>1, <1>2, <1>3, <2>1, CalmNext DEF InWorld
<1>4. CASE world = "stuck"
  <2>1. [Stuck]_vars
    BY <1>4 DEF WorldNext
  <2> QED
    BY <1>1, <1>2, <1>4, <2>1, StuckNext DEF InWorld
<1> QED
  BY <1>1, <1>2, <1>3, <1>4 DEF InWorld

\* As long as no two turns of one session overlap, and only cleaning, expiry,
\* deletions and restarts come between turns, a prompt runs under the configuration
\* its turn chose.
THEOREM PromptsStayOwn == WorldSpec /\ []OneTurnEach => []CalmPrompts
<1>1. InWorld => CalmPrompts
  BY CalmShows DEF InWorld, CalmPrompts
<1> QED
  BY <1>1, InitInWorld, NextInWorld, PTL DEF WorldSpec

\* As long as no two turns of one session overlap, a row names what its cached
\* instance has, although the server fails to dispose of instances.
THEOREM InstancesStayKnown == WorldSpec /\ []OneTurnEach => []StuckIsKnown
<1>1. InWorld => StuckIsKnown
  BY StuckShows DEF InWorld, StuckIsKnown
<1> QED
  BY <1>1, InitInWorld, NextInWorld, PTL DEF WorldSpec

=============================================================================

--------------------------- MODULE OpencodeServer ---------------------------
(***************************************************************************)
(* The one opencode server all chats share (agent/opencode_compat/         *)
(* process.py): every call of the backend and the keepalive job ask the    *)
(* manager for it, which starts a process on the next port of its range    *)
(* when the last one has gone.  Whether the server is there is asked over  *)
(* the port, whoever listens there; a process that finds its port taken    *)
(* exits.  Processes outlive a CodeAsk that crashed or left in a hurry.    *)
(***************************************************************************)
EXTENDS NoValue, Integers, FiniteSets

CONSTANTS
    Servers,    \* bound: processes at a time
    PortCount,  \* ports in the range, from 0
    Callers     \* calls of the backend under way

ASSUME ServerAssumption == PortCount \in Nat \ {0} /\ None \notin Nat \cup Servers

VARIABLES
    srv,     \* the processes
    ocm,     \* OpenCodeProcessManager
    caller,  \* per call the handle it was given and who answered it
    life     \* CodeAsk, and whether something of an earlier one may be left

serverVars == <<srv, ocm, caller, life>>

Ports == 0..(PortCount - 1)
NoServer == [state |-> "none", port |-> 0, mine |-> FALSE]
NewOcm == [proc |-> None, at |-> None, next |-> 0, error |-> FALSE, tried |-> {}]
NoCall == [handle |-> None, by |-> "nobody"]

Runs(p) == p # None /\ srv[p].state # "none"
HolderOf(port) ==
    {p \in Servers : srv[p].state \in {"serving", "ending"} /\ srv[p].port = port}

ServerInit ==
    /\ srv = [p \in Servers |-> NoServer]
    /\ ocm = NewOcm
    /\ caller = [c \in Callers |-> NoCall]
    /\ life = [app |-> "down", clean |-> TRUE]

-----------------------------------------------------------------------------
(* Processes *)

Bind(p) ==
    /\ srv[p].state = "booting"
    /\ srv' = [srv EXCEPT ![p] = IF HolderOf(@.port) = {}
                                 THEN [@ EXCEPT !.state = "serving"] ELSE NoServer]
    \* From here on the ports that were tried count from this one.
    /\ ocm' = IF HolderOf(srv[p].port) = {} /\ ocm.proc = p
              THEN [ocm EXCEPT !.tried = {}] ELSE ocm
    /\ UNCHANGED <<caller, life>>

Exit(p) ==
    /\ srv[p].state # "none"
    /\ srv' = [srv EXCEPT ![p] = NoServer]
    /\ UNCHANGED <<ocm, caller, life>>

-----------------------------------------------------------------------------
(* The manager *)

\* Mutant of NextPort: the first port is taken every time.
FirstPort(m) == 0
\* Mutant of NextPort: counted from one.
PortPast(m) == m.next + 1
NextPort(m) == m.next

\* Mutant of Running: the process is not looked at, only whether it serves.
RunningServing == ocm.proc # None /\ srv[ocm.proc].state = "serving"
Running == ocm.at # None /\ Runs(ocm.proc)

\* What ensure_server makes of the manager m and the processes; q is the
\* process started, or None where the start fails.
Launched(m, q) ==
    [m EXCEPT !.next = (@ + 1) % PortCount,
              !.proc = IF q = None THEN @ ELSE q,
              !.at = IF q = None THEN @ ELSE NextPort(m),
              !.error = q = None,
              !.tried = IF @ = Ports THEN {NextPort(m)} ELSE @ \cup {NextPort(m)}]
Started(m, q) ==
    IF q = None THEN srv
    ELSE [srv EXCEPT ![q] = [state |-> "booting", port |-> NextPort(m), mine |-> TRUE]]
FreeServers == {p \in Servers : srv[p].state = "none"}
CanStart(q) == q \in {None} \cup (FreeServers \ {ocm.proc})

Keep == ocm' = [ocm EXCEPT !.error = FALSE] /\ UNCHANGED srv
Renew(q) ==
    /\ ~Running /\ CanStart(q)
    /\ ocm' = Launched(ocm, q) /\ srv' = Started(ocm, q)

\* The keepalive job goes on until the scheduler is shut down, which is after
\* the manager; a server it starts in between nobody stops.
KeepServer(q) ==
    /\ life.app # "down"
    /\ Renew(q)
    /\ life' = [life EXCEPT !.clean = @ /\ life.app = "up"]
    /\ UNCHANGED caller

\* A call of the backend is given the server, or fails with the start.
Ask(c, q) ==
    /\ life.app = "up" /\ caller[c] = NoCall
    /\ \/ Running /\ q = None /\ Keep
          /\ caller' = [caller EXCEPT ![c].handle = <<ocm.proc, ocm.at>>]
       \/ /\ Renew(q)
          /\ caller' = IF q = None THEN caller
                       ELSE [caller EXCEPT ![c].handle = <<q, NextPort(ocm)>>]
    /\ UNCHANGED life

\* Its health check asks the port; the answer clears the last error.
Answered(c) ==
    /\ life.app = "up"
    /\ caller[c].handle # None /\ caller[c].by = "nobody"
    /\ \E p \in HolderOf(caller[c].handle[2]) :
         caller' = [caller EXCEPT ![c].by = IF srv[p].mine THEN "own" ELSE "other"]
    /\ ocm' = [ocm EXCEPT !.error = FALSE]
    /\ UNCHANGED <<srv, life>>

\* The call is done, or nobody answered for five seconds.
EndCall(c) ==
    /\ caller[c].handle # None
    /\ caller' = [caller EXCEPT ![c] = NoCall]
    /\ UNCHANGED <<srv, ocm, life>>

-----------------------------------------------------------------------------
(* CodeAsk *)

\* A new CodeAsk has a new manager, and what runs is not its own.
Estranged == [p \in Servers |-> [srv[p] EXCEPT !.mine = FALSE]]
AppStarts(q) ==
    /\ life.app = "down" /\ q \in {None} \cup FreeServers
    /\ life' = [life EXCEPT !.app = "up"]
    /\ ocm' = Launched(NewOcm, q)
    /\ srv' = Started(NewOcm, q)
    /\ UNCHANGED caller

\* Mutant of EndServer: it does not wait for the process.
EndServerAtOnce ==
    /\ life.app = "up"
    /\ life' = [life EXCEPT !.app = "stopping"]
    /\ srv' = IF Runs(ocm.proc) THEN [srv EXCEPT ![ocm.proc].state =
                     IF @ = "serving" THEN "ending" ELSE @] ELSE srv
    /\ caller' = [c \in Callers |-> NoCall] /\ UNCHANGED ocm
\* The process is told to end and waited for.
EndServer ==
    /\ life.app = "up"
    /\ life' = [life EXCEPT !.app = "stopping"]
    /\ srv' = IF Runs(ocm.proc) THEN [srv EXCEPT ![ocm.proc] = NoServer] ELSE srv
    /\ caller' = [c \in Callers |-> NoCall] /\ UNCHANGED ocm

Left(clean) ==
    /\ life' = [app |-> "down", clean |-> clean]
    /\ srv' = Estranged
    /\ ocm' = NewOcm
    /\ caller' = [c \in Callers |-> NoCall]

\* A process that takes longer than the wait leaves CodeAsk with an exception,
\* and the scheduler as it is.
EndServerHangs == life.app = "up" /\ Runs(ocm.proc) /\ Left(FALSE)
AppStops == life.app = "stopping" /\ Left(life.clean)
AppCrashes == life.app # "down" /\ Left(FALSE)

ServerNext ==
    \/ \E p \in Servers : Bind(p) \/ Exit(p)
    \/ \E q \in Servers \cup {None} :
         \/ KeepServer(q) \/ AppStarts(q)
         \/ \E c \in Callers : Ask(c, q)
    \/ \E c \in Callers : Answered(c) \/ EndCall(c)
    \/ EndServer \/ EndServerHangs \/ AppStops \/ AppCrashes
ServerSpec == ServerInit /\ [][ServerNext]_serverVars

-----------------------------------------------------------------------------
\* Processes, manager and calls keep their shape.
ServerTypeOK ==
    /\ \A p \in Servers :
         /\ srv[p].state \in {"none", "booting", "serving", "ending"}
         /\ srv[p].port \in Ports /\ srv[p].mine \in BOOLEAN
    /\ ocm.proc \in Servers \cup {None} /\ ocm.at \in Ports \cup {None}
    /\ ocm.next \in Ports /\ ocm.error \in BOOLEAN /\ ocm.tried \subseteq Ports
    /\ \A c \in Callers : caller[c].by \in {"nobody", "own", "other"}
    /\ life.app \in {"down", "up", "stopping"} /\ life.clean \in BOOLEAN

\* However calls, the keepalive job, exits and restarts fall together, one
\* CodeAsk never has two servers running.
OneOwnServer ==
    \A p, q \in Servers : Runs(p) /\ Runs(q) /\ srv[p].mine /\ srv[q].mine => p = q

\* No call is answered by a server CodeAsk did not start itself, as long as
\* every CodeAsk before it could end its server before the scheduler.
OnlyOwnAnswers ==
    life.clean => \A c \in Callers : caller[c].by # "other"

\* While no server came up, each start takes a port that has not been tried
\* since, until all have been: one that is free is found, whoever has the rest.
EveryPortIsTried ==
    \A p \in Servers :
      (srv[p].state = "none" /\ srv'[p].state = "booting" /\ life.app # "down")
        => srv'[p].port \notin ocm.tried \/ ocm.tried = Ports
=============================================================================

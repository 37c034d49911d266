-------------------------- MODULE OpenVikingProcess --------------------------
(***************************************************************************)
(* The OpenViking server as CodeAsk keeps it (rag/openviking/process.py):  *)
(* launched or adopted by the keepalive job (app.py), restarted when an    *)
(* administrator changes a model (api/openviking_admin.py), shut down with *)
(* CodeAsk, and left behind as an orphan when CodeAsk crashes.  A call of  *)
(* the manager holds its lock and is one step; the processes live on their *)
(* own.  A health probe asks the port, whoever holds it.                   *)
(***************************************************************************)
EXTENDS NoValue, Integers

CONSTANTS
    Pids,         \* bound: processes alive, or waited for, at a time
    Models,       \* model settings an administrator chooses from
    DefaultModel  \* what the manager is made with

\* What stands for the pid of a listening process that cannot be told.
Unresolved == "unresolved"
ASSUME PidsAssumption == None \notin Pids \cup {Unresolved} /\ Unresolved \notin Pids

VARIABLES
    os,        \* pid -> its process
    port,      \* the process that listens
    mgr,       \* OpenVikingProcessManager
    setting,   \* the active model setting in the database
    admin,     \* the request that changes it
    app        \* CodeAsk

procVars == <<os, port, mgr, setting, admin, app>>

MaxFailures == 2    \* _effective_error tells two and more from fewer
Gone == [state |-> "none", model |-> DefaultModel, old |-> FALSE, ours |-> FALSE]
NewManager(model) ==
    [proc |-> None, handle |-> None, available |-> FALSE, started |-> "never",
     failures |-> 0, log |-> FALSE, model |-> model]
NoRequest == [at |-> "idle", model |-> DefaultModel]

Alive(o, p) == p # None /\ o[p].state # "none"
Healthy(o, holder) == holder # None /\ o[holder].state = "healthy"

ProcInit ==
    /\ os = [p \in Pids |-> Gone] /\ port = None
    /\ mgr = NewManager(DefaultModel)
    /\ setting \in Models /\ admin = NoRequest /\ app = "down"

-----------------------------------------------------------------------------
(* The processes. *)

Died(o, p) == [o EXCEPT ![p].state = "none"]
Freed(p) == IF port = p THEN None ELSE port

ExitProcess(p) ==
    /\ Alive(os, p)
    /\ os' = Died(os, p) /\ port' = Freed(p)
    /\ UNCHANGED <<mgr, setting, admin, app>>

\* One process can have the port; another one that wants it exits.
BindPort(p) ==
    /\ os[p].state = "booting"
    /\ IF port = None
       THEN os' = [os EXCEPT ![p].state = "healthy"] /\ port' = p
       ELSE os' = Died(os, p) /\ UNCHANGED port
    /\ UNCHANGED <<mgr, setting, admin, app>>

Waver(p) ==
    /\ os[p].state \in {"healthy", "sick"}
    /\ os' = [os EXCEPT ![p].state = IF @ = "sick" THEN "healthy" ELSE "sick"]
    /\ UNCHANGED <<port, mgr, setting, admin, app>>

\* startup_grace_seconds have passed.
GraceEnds ==
    /\ mgr.started = "within" /\ mgr' = [mgr EXCEPT !.started = "over"]
    /\ UNCHANGED <<os, port, setting, admin, app>>

-----------------------------------------------------------------------------
(* The manager, as functions of itself, the processes and the port. *)

\* _refresh_health
Probed(m, o, holder) ==
    IF Healthy(o, holder)
    THEN [m EXCEPT !.available = TRUE, !.failures = 0, !.log = FALSE]
    ELSE [m EXCEPT !.available = FALSE]

\* _terminate_current: the child is waited for, and killed if need be.
Terminated == IF mgr.proc # None /\ Alive(os, mgr.proc) THEN Died(os, mgr.proc) ELSE os
PortAfter == IF mgr.proc # None /\ Alive(os, mgr.proc) THEN Freed(mgr.proc) ELSE port

\* Mutant of Forgotten: a child that has exited stays the process.
ForgottenNot(m) ==
    [m EXCEPT !.failures = IF @ = MaxFailures THEN @ ELSE @ + 1, !.log = TRUE,
              !.handle = None, !.available = FALSE, !.started = "never"]
\* A child that has exited counts as a failure and leaves its log.
Forgotten(m) ==
    [m EXCEPT !.failures = IF @ = MaxFailures THEN @ ELSE @ + 1, !.log = TRUE,
              !.proc = None, !.handle = None, !.available = FALSE, !.started = "never"]

\* The configuration is written, the child launched and probed; or it cannot
\* be launched, which the caller catches.
LaunchChild(m, o, holder) ==
    /\ port' = holder
    /\ \/ \E n \in Pids :
             /\ o[n].state = "none" /\ n # m.proc
             /\ os' = [o EXCEPT ![n] = [state |-> "booting", model |-> m.model,
                                        old |-> FALSE, ours |-> TRUE]]
             /\ mgr' = Probed([m EXCEPT !.proc = n, !.handle = n, !.started = "within"],
                              o, holder)
       \/ os' = o /\ mgr' = [m EXCEPT !.available = FALSE]

\* The sockets and processes under /proc name the one that listens, if they can
\* be read.
ListeningPids(holder) == IF holder = None THEN {Unresolved} ELSE {holder, Unresolved}

\* A server that listens and is well is taken over.
\* Mutant of AdoptOrLaunch: none is.
AdoptOrLaunchNever(m, o, holder) == LaunchChild(m, o, holder)
AdoptOrLaunch(m, o, holder) ==
    IF Healthy(o, holder)
    THEN /\ \E pid \in ListeningPids(holder) :
               mgr' = Probed([m EXCEPT !.handle = pid, !.started = "never"], o, holder)
         /\ os' = o /\ port' = holder
    ELSE LaunchChild(m, o, holder)

\* Mutant of Ensure's hung child: it is forgotten without being terminated.
EnsureForgets(m) ==
    LET hung == Alive(os, m.proc)
    IN IF hung /\ (Healthy(os, port) \/ m.started = "within")
       THEN mgr' = Probed(m, os, port) /\ UNCHANGED <<os, port>>
       ELSE IF hung THEN AdoptOrLaunch([m EXCEPT !.proc = None, !.handle = None,
                                                 !.available = FALSE], os, port)
       ELSE IF m.proc # None THEN AdoptOrLaunch(Forgotten(m), os, port)
       ELSE AdoptOrLaunch(m, os, port)

\* ensure_server: a child that is well, or new, is kept; one that is not is
\* terminated.
Ensure(m) ==
    LET hung == Alive(os, m.proc)
    IN IF hung /\ (Healthy(os, port) \/ m.started = "within")
       THEN mgr' = Probed(m, os, port) /\ UNCHANGED <<os, port>>
       ELSE IF hung THEN AdoptOrLaunch([m EXCEPT !.proc = None, !.handle = None,
                                                 !.available = FALSE],
                                       Terminated, PortAfter)
       ELSE IF m.proc # None THEN AdoptOrLaunch(Forgotten(m), os, port)
       ELSE AdoptOrLaunch(m, os, port)

\* Mutant of Shutdown: the child is not terminated.
ShutdownOnly ==
    /\ mgr' = [mgr EXCEPT !.available = FALSE, !.started = "never"]
    /\ UNCHANGED <<os, port>>
\* The child remains in _process, and an adopted server is left alone.
Shutdown ==
    /\ os' = Terminated /\ port' = PortAfter
    /\ mgr' = [mgr EXCEPT !.available = FALSE, !.started = "never"]

\* Mutant of RestartWith: the server is restarted with what the manager has.
RestartUnchanged(model) ==
    LaunchChild([mgr EXCEPT !.proc = None, !.handle = None, !.available = FALSE,
                       !.started = "never"], Terminated, PortAfter)
\* Mutant of RestartWith: a child that runs this setting already is kept.
RestartIfChanged(model) ==
    IF Alive(os, mgr.proc) /\ os[mgr.proc].model = model THEN Ensure(mgr) ELSE
    LaunchChild([mgr EXCEPT !.proc = None, !.handle = None, !.available = FALSE,
                       !.started = "never", !.model = model], Terminated, PortAfter)
RestartWith(model) ==
    LaunchChild([mgr EXCEPT !.proc = None, !.handle = None, !.available = FALSE,
                       !.started = "never", !.model = model], Terminated, PortAfter)

-----------------------------------------------------------------------------
(* CodeAsk. *)

\* The settings are read before the first launch, which may fail.
StartApp ==
    /\ app = "down" /\ app' = "up"
    /\ \E model \in {setting, DefaultModel} : Ensure(NewManager(model))
    /\ UNCHANGED <<setting, admin>>

Keepalive ==
    /\ app \in {"up", "stopping"} /\ Ensure(mgr)
    /\ UNCHANGED <<setting, admin, app>>

\* describe, which a status request asks for as well.
DescribeServer ==
    /\ app # "down" /\ mgr.handle = Unresolved /\ mgr.available
    /\ \E pid \in ListeningPids(port) : mgr' = [mgr EXCEPT !.handle = pid]
    /\ UNCHANGED <<os, port, setting, admin, app>>

Abandoned == [p \in Pids |-> [os[p] EXCEPT !.ours = FALSE]]
AppEnds ==
    /\ app' = "down" /\ os' = Abandoned /\ mgr' = NewManager(DefaultModel)
    /\ admin' = NoRequest /\ UNCHANGED <<port, setting>>

\* The lifespan shuts the server down before it stops the scheduler.
StopApp ==
    /\ app = "up" /\ admin = NoRequest /\ app' = "stopping" /\ Shutdown
    /\ UNCHANGED <<setting, admin>>
StopScheduler == app = "stopping" /\ AppEnds
CrashApp == app # "down" /\ AppEnds

-----------------------------------------------------------------------------
(* Changing a model: one administrator at a time. *)

RequestAt(at) == admin' = [admin EXCEPT !.at = at]

Committed(model, at) ==
    /\ app = "up" /\ admin.at = "idle"
    /\ setting' = model /\ RequestAt(at)
    /\ UNCHANGED <<os, port, mgr, app>>

\* Another embedding needs another index; another VLM, or none, does not.
SwitchEmbedding(model) == Committed(model, "resetting")
ApplyVLM(model) == Committed(model, "reading")
\* A value that is the present one is passed over.
ApplyTuning(model) == model # setting /\ Committed(model, "tuning")

\* _reset_openviking_rebuild_state
ResetIndex ==
    /\ admin.at = "resetting" /\ Shutdown /\ RequestAt("wiping")
    /\ UNCHANGED <<setting, app>>
WipeIndex ==
    /\ admin.at = "wiping" /\ RequestAt("reading")
    /\ os' = [p \in Pids |-> [os[p] EXCEPT !.old = Alive(os, p)]]
    /\ UNCHANGED <<port, mgr, setting, app>>

\* runtime_config_from_active_settings: tuning hands it to the manager before
\* the restart, the others with it.
ReadSetting ==
    /\ admin.at \in {"reading", "tuning"}
    /\ admin' = [at |-> IF admin.at = "tuning" THEN "regenerating" ELSE "restarting",
                 model |-> setting]
    /\ UNCHANGED <<os, port, mgr, setting, app>>
Regenerate ==
    /\ admin.at = "regenerating" /\ RequestAt("restarting")
    /\ mgr' = [mgr EXCEPT !.model = admin.model]
    /\ UNCHANGED <<os, port, setting, app>>
RestartServer ==
    /\ admin.at = "restarting" /\ RestartWith(admin.model) /\ admin' = NoRequest
    /\ UNCHANGED <<setting, app>>

ProcNext ==
    \/ \E p \in Pids : ExitProcess(p) \/ BindPort(p) \/ Waver(p)
    \/ GraceEnds
    \/ StartApp \/ Keepalive \/ DescribeServer \/ StopApp \/ StopScheduler \/ CrashApp
    \/ \E model \in Models : SwitchEmbedding(model) \/ ApplyVLM(model) \/ ApplyTuning(model)
    \/ ResetIndex \/ WipeIndex \/ ReadSetting \/ Regenerate \/ RestartServer

-----------------------------------------------------------------------------
\* Processes, manager and request keep their shape, and while the manager has a
\* child its handle names it.
ProcTypeOK ==
    /\ os \in [Pids -> [state : {"none", "booting", "healthy", "sick"},
                        model : Models \cup {DefaultModel}, old : BOOLEAN, ours : BOOLEAN]]
    /\ port # None => os[port].state \in {"healthy", "sick"}
    /\ mgr \in [proc : Pids \cup {None}, handle : Pids \cup {None, Unresolved},
                available : BOOLEAN, started : {"never", "within", "over"}, failures : 0 .. MaxFailures,
                log : BOOLEAN, model : Models \cup {DefaultModel}]
    /\ mgr.proc # None => mgr.handle = mgr.proc
    /\ setting \in Models /\ app \in {"down", "up", "stopping"}
    /\ admin.at \in {"idle", "resetting", "wiping", "reading", "tuning",
                    "regenerating", "restarting"}

\* Of the servers this run of CodeAsk has launched one is alive at most, and the
\* manager has it: none escapes a hung start, a restart or a reset that the
\* keepalive job runs beside.
OneChild == \A p \in Pids : Alive(os, p) /\ os[p].ours => p = mgr.proc

\* Whatever listens and is well is used: the keepalive job and a new start of
\* CodeAsk launch nothing beside a healthy server, be it an orphan of a crash
\* (docs/v1.0.5/plans/m9-openviking-runtime-provisioning.md, 8.3 B).
NoRival ==
    admin.at # "restarting"
      /\ (\E p \in Pids : os[p].state = "none" /\ os'[p].state = "booting")
    => ~Healthy(os, port)

\* A server that CodeAsk has launched and that serves runs the active setting
\* once the request that changed it is through, however the keepalive job, exits
\* and crashes of CodeAsk came between; the only other case is a start that could
\* not read the settings.
OwnServerRunsSetting ==
    admin = NoRequest /\ app = "up" /\ port # None /\ port = mgr.proc
       => os[port].model = setting \/ mgr.model = DefaultModel

\* Nor does it still hold an index that was deleted under it, although the
\* keepalive job may have launched one while the files were being removed.
OwnServerIsFresh ==
    admin = NoRequest /\ app = "up" /\ port # None /\ port = mgr.proc
       => ~os[port].old

\* An orderly stop reaches every server this run of CodeAsk has launched, also
\* one that hangs.
StopIsThorough ==
    app = "up" /\ app' = "stopping" => \A p \in Pids : os[p].ours => ~Alive(os', p)
=============================================================================

-------------------------- MODULE OpenVikingModels --------------------------
(***************************************************************************)
(* The embedding model of OpenViking and its vision model                  *)
(* (api/openviking_admin.py).  Both settings are tables to which rows are  *)
(* appended; ov.conf is written from the newest rows, and the vectors on   *)
(* disk are of the model the server had when it made them.  What a switch  *)
(* does to the jobs is in OpenVikingSync; how the process is kept is in    *)
(* OpenVikingProcess.                                                      *)
(***************************************************************************)
EXTENDS NoValue, Naturals, Sequences

CONSTANTS
    Embeddings,  \* embedding models, each of a provider and address of its own
    Secrets,     \* API keys
    Switchers,   \* requests that can be open at a time
    MaxModels    \* bound: rows of both tables, one fewer when not smooth

ASSUME ModelsAssumption == MaxModels \in Nat \ {0} /\ Embeddings # {}

VARIABLES
    chosen,     \* rows of openviking_embedding_settings
    vision,     \* how many rows openviking_vlm_settings has; the default one that
                \* ensure_default_vlm_setting adds says what no row says
    conf,       \* ov.conf: the rows it was written from
    serving,    \* the rows the running server was launched with, or None
    vectors,    \* the model of the vectors on disk, or None
    switchers,  \* the requests
    smooth      \* no request begins before another is over, each removes the vectors
                \* before CodeAsk goes down, and the keepalive job stays away from it

modelVars == <<chosen, vision, conf, serving, vectors, switchers, smooth>>

NotSwitching == [at |-> "idle", model |-> None, secret |-> None, read |-> None]
NewestRows == [embedding |-> Len(chosen), vision |-> vision]

\* ensure_default_embedding_setting: the model of the environment, no key.
\* Mutant of ModelsInit: no such row is made.
ModelsInitBare ==
    /\ chosen = <<>> /\ vision = 0 /\ conf = [embedding |-> 1, vision |-> 0]
    /\ serving = None /\ vectors = None
    /\ switchers = [r \in Switchers |-> NotSwitching]
    /\ smooth \in BOOLEAN
ModelsInit ==
    /\ \E m \in Embeddings : chosen = <<[model |-> m, secret |-> None]>>
    /\ vision = 0 /\ conf = [embedding |-> 1, vision |-> 0]
    /\ serving = None /\ vectors = None
    /\ switchers = [r \in Switchers |-> NotSwitching]
    /\ smooth \in BOOLEAN

NoSwitch == \A r \in Switchers : switchers[r].at = "idle"
MoreRows == Len(chosen) + vision < IF smooth THEN MaxModels ELSE MaxModels - 1
MidSwitch == \E r \in Switchers : switchers[r].at \in {"saved", "ready", "read"}

-----------------------------------------------------------------------------
\* The key a blank field stands for: that of the newest row of the same
\* provider that has one.
\* Mutant of Carried: that of the row in use.
CarriedInUse(m) ==
    IF chosen[Len(chosen)].model = m THEN chosen[Len(chosen)].secret ELSE None
Carried(m) ==
    LET keyed == {i \in DOMAIN chosen : chosen[i].model = m /\ chosen[i].secret # None} IN
    IF keyed = {} THEN None ELSE chosen[CHOOSE i \in keyed : \A j \in keyed : j <= i].secret

\* _apply_carried_secrets, before the candidate is validated.
AskSwitch(r, m, secret) ==
    /\ switchers[r].at = "idle" /\ MoreRows
    /\ smooth => NoSwitch
    /\ switchers' = [switchers EXCEPT ![r] =
         [at |-> "asked", model |-> m, read |-> None,
          secret |-> IF secret = None THEN Carried(m) ELSE secret]]
    /\ UNCHANGED <<chosen, vision, conf, serving, vectors, smooth>>

\* 400: the configuration is not valid, or Ollama does not have the model.
NotValid(r) ==
    /\ switchers[r].at = "asked"
    /\ switchers' = [switchers EXCEPT ![r] = NotSwitching]
    /\ UNCHANGED <<chosen, vision, conf, serving, vectors, smooth>>

CommitSwitch(r) ==
    /\ switchers[r].at = "asked"
    /\ chosen' = Append(chosen, [model |-> switchers[r].model, secret |-> switchers[r].secret])
    /\ switchers' = [switchers EXCEPT ![r].at = "saved"]
    /\ UNCHANGED <<vision, conf, serving, vectors, smooth>>

\* _reset_openviking_rebuild_state stops the server and removes its vectors; a
\* directory that cannot be removed is reported and left.
\* Mutant of Wipe: the vectors stay.
WipeNothing(r) ==
    /\ switchers[r].at = "saved"
    /\ serving' = None
    /\ switchers' = [switchers EXCEPT ![r].at = "ready"]
    /\ UNCHANGED <<chosen, vision, conf, vectors, smooth>>
Wipe(r) ==
    /\ switchers[r].at = "saved"
    /\ serving' = None
    /\ vectors' \in {None} \cup {v \in {vectors} : ~smooth}
    /\ switchers' = [switchers EXCEPT ![r].at = "ready"]
    /\ UNCHANGED <<chosen, vision, conf, smooth>>

\* A vision model is applied or disabled: a row, and a restart.
CommitVision(r) ==
    /\ switchers[r].at = "idle" /\ MoreRows
    /\ smooth => NoSwitch
    /\ vision' = vision + 1
    /\ switchers' = [switchers EXCEPT ![r].at = "ready"]
    /\ UNCHANGED <<chosen, conf, serving, vectors, smooth>>

\* runtime_config_from_active_settings
ReadRows(r) ==
    /\ switchers[r].at = "ready"
    /\ switchers' = [switchers EXCEPT ![r].at = "read", ![r].read = NewestRows]
    /\ UNCHANGED <<chosen, vision, conf, serving, vectors, smooth>>

\* restart_openviking writes the file and launches the server, or fails to.
Relaunch(r) ==
    /\ switchers[r].at = "read"
    /\ conf' = switchers[r].read
    /\ serving' \in {conf', None}
    /\ switchers' = [switchers EXCEPT ![r] = NotSwitching]
    /\ UNCHANGED <<chosen, vision, vectors, smooth>>

-----------------------------------------------------------------------------
\* The keepalive job, in a thread of its own.
KeepServing ==
    /\ serving = None
    /\ smooth => ~MidSwitch
    /\ serving' = conf
    /\ UNCHANGED <<chosen, vision, conf, vectors, switchers, smooth>>

ServerExits ==
    /\ serving # None /\ serving' = None
    /\ UNCHANGED <<chosen, vision, conf, vectors, switchers, smooth>>

\* The server keeps vectors that it finds.
MakeVectors ==
    /\ serving # None /\ vectors = None
    /\ vectors' = chosen[serving.embedding].model
    /\ UNCHANGED <<chosen, vision, conf, serving, switchers, smooth>>

\* CodeAsk starts anew and writes the file from the newest rows.
\* Mutant of StartAgain: it launches the server with the file that is there.
StartWithFile ==
    /\ smooth => \A r \in Switchers : switchers[r].at # "saved"
    /\ serving' = None
    /\ switchers' = [r \in Switchers |-> NotSwitching]
    /\ UNCHANGED <<chosen, vision, conf, vectors, smooth>>
StartAgain ==
    /\ smooth => \A r \in Switchers : switchers[r].at # "saved"
    /\ conf' = NewestRows /\ serving' = None
    /\ switchers' = [r \in Switchers |-> NotSwitching]
    /\ UNCHANGED <<chosen, vision, vectors, smooth>>

ModelsNext ==
    \/ \E r \in Switchers :
          \/ \E m \in Embeddings, s \in Secrets \cup {None} : AskSwitch(r, m, s)
          \/ NotValid(r) \/ CommitSwitch(r) \/ Wipe(r) \/ CommitVision(r)
          \/ ReadRows(r) \/ Relaunch(r)
    \/ KeepServing \/ ServerExits \/ MakeVectors \/ StartAgain

-----------------------------------------------------------------------------
\* The file and the server are made from rows there are, and no request is left
\* with rows it has read when it is over.
ModelsTypeOK ==
    /\ \A i \in DOMAIN chosen : chosen[i].model \in Embeddings
                                /\ chosen[i].secret \in Secrets \cup {None}
    /\ \A c \in {conf, serving} \ {None} : c.embedding \in DOMAIN chosen /\ c.vision <= vision
    /\ vectors \in Embeddings \cup {None} /\ smooth \in BOOLEAN
    /\ \A r \in Switchers : switchers[r].at = "idle" => switchers[r] = NotSwitching

\* A key that was given for a provider is never lost by switching away and back
\* with a blank field ("留空保持不变", _latest_secretful_embedding_setting).
KeyIsKept ==
    smooth => \A i, j \in DOMAIN chosen :
       i < j /\ chosen[i].model = chosen[j].model /\ chosen[i].secret # None
          => chosen[j].secret # None

\* As soon as nobody is at it the server has the models of the newest rows, also
\* after CodeAsk went down between the commit and the restart of the server.
NewestIsServed == smooth /\ NoSwitch => conf = NewestRows /\ serving \in {conf, None}

\* The server never works on vectors of another model than its own: those of the
\* old one are gone before it is launched with the new one
\* (switch_openviking_embedding).
VectorsAreOfModel ==
    smooth /\ serving # None /\ vectors # None /\ ~MidSwitch
       => vectors = chosen[serving.embedding].model
=============================================================================

--------------------------- MODULE SyncJobLifecycle ---------------------------
(***************************************************************************)
(* What a sync job promises, whoever works on it: it is asked for, taken,  *)
(* and then settled once (indexed, failed, cancelled, requeued or done);   *)
(* a settled job moves again only when it is asked for or taken anew, and  *)
(* a taken one does not stay taken.                                        *)
(***************************************************************************)
EXTENDS Integers

CONSTANTS Features, MaxRepeatFailures

VARIABLES state, attempts

States == {"none", "pending", "running", "indexed", "failed", "cancelled"}

Init == /\ state = [f \in Features |-> "none"]
        /\ attempts = [f \in Features |-> 0]

To(f, s) == state' = [state EXCEPT ![f] = s]

Request(f) ==
    /\ state[f] # "running"
    /\ To(f, "pending")
    /\ attempts' = [attempts EXCEPT ![f] = 0]

Take(f) ==
    /\ state[f] \in {"pending", "failed"}
    /\ To(f, "running")
    /\ attempts' = [attempts EXCEPT ![f] = IF @ < MaxRepeatFailures THEN @ + 1 ELSE @]

Requeue(f) ==
    /\ state[f] = "running"
    /\ To(f, "pending")
    /\ UNCHANGED attempts

Index(f) ==
    /\ state[f] = "running"
    /\ To(f, "indexed")
    /\ UNCHANGED attempts

Fail(f) ==
    /\ state[f] = "running"
    /\ To(f, IF attempts[f] >= MaxRepeatFailures THEN "cancelled" ELSE "failed")
    /\ UNCHANGED attempts

\* A delete went through: the job goes with it.
Finish(f) ==
    /\ state[f] = "running"
    /\ To(f, "none")
    /\ attempts' = [attempts EXCEPT ![f] = 0]

\* Cancelled jobs may be cleared away, several at once.
Clear(S) ==
    /\ \A f \in S : state[f] = "cancelled"
    /\ state' = [f \in Features |-> IF f \in S THEN "none" ELSE state[f]]
    /\ attempts' = [f \in Features |-> IF f \in S THEN 0 ELSE attempts[f]]

Settle(f) == Requeue(f) \/ Index(f) \/ Fail(f) \/ Finish(f)

Next == \/ \E f \in Features : Request(f) \/ Take(f) \/ Settle(f)
        \/ \E S \in SUBSET Features : Clear(S)

Safety == Init /\ [][Next]_<<state, attempts>>

Spec == /\ Safety
        /\ \A f \in Features : WF_<<state, attempts>>(Settle(f))
=============================================================================

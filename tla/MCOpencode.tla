----------------------------- MODULE MCOpencode -----------------------------
(***************************************************************************)
(* OpencodeSessions for TLC: a behaviour lives in one of four worlds, the  *)
(* unrestricted one or a restriction of it under which a promise is true.  *)
(***************************************************************************)
EXTENDS OpencodeSessions

VARIABLE world

WorldNext ==
    /\ world' = world
    /\ \/ world = "any" /\ Next
       \/ world = "calm" /\ Calm
       \/ world = "stuck" /\ Stuck
       \/ world = "kept" /\ Kept
WorldInit == Init /\ world \in {"any", "calm", "stuck", "kept"}
WorldSpec ==
    /\ WorldInit
    /\ [][WorldNext]_<<vars, world>>
    /\ Fairness

\* When only cleaning, expiry, deletions and restarts come between turns, a prompt
\* runs under the configuration its turn chose (the repair in run_turn).
CalmPrompts == world = "calm" => PromptUnderOwnConfig
\* While the server fails to dispose of instances, a cached instance has the
\* configuration its row names (the fingerprint that is withheld).
StuckIsKnown == world = "stuck" => InstanceIsKnown
\* Where no session is deleted and nobody leaves, the two jobs remove the history of
\* every session that is not used any more.
KeptReclaimed == world = "kept" => HistoryReclaimed
=============================================================================

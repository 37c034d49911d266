------------------------------- MODULE MCSync -------------------------------
(* Instances of OpenVikingSync for TLC. *)
EXTENDS OpenVikingSync, TLC

\* Requests, workers and task ids are interchangeable; so are features, as long
\* as no property names one.
Symmetry == Permutations(Requests) \cup Permutations(Workers) \cup Permutations(Tasks)
FeatureSymmetry == Permutations(Features) \cup Permutations(Tasks)
=============================================================================

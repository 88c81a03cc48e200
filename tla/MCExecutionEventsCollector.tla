--------------------- MODULE MCExecutionEventsCollector ---------------------
(* Small instances of ExecutionEventsCollector for TLC. *)
EXTENDS ExecutionEventsCollector, TLC
CONSTANTS c1, c2, p1, p2
MCComponentId == {c1, c2}
MCSnapshot == {p1, p2}
MCOneSnapshot == {p1}
MCSymmetry == Permutations(MCComponentId) \cup Permutations(MCSnapshot)
=============================================================================

----------------------- MODULE MCAsyncEventsCollector -----------------------
(* Small instances of AsyncEventsCollector for TLC. *)
EXTENDS AsyncEventsCollector, TLC
CONSTANTS p1, p2
MCSnapshot == {p1, p2}
MCSymmetry == Permutations(MCSnapshot)
=============================================================================

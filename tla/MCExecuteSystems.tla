-------------------------- MODULE MCExecuteSystems --------------------------
(* Small instances of ExecuteSystems for TLC. *)
EXTENDS ExecuteSystems, TLC
CONSTANTS a, b, cb
MCCollector == {a, b}
MCCallback == {cb}
MCSymmetry == Permutations(MCCollector)
=============================================================================

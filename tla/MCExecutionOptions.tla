------------------------- MODULE MCExecutionOptions -------------------------
(* Small instances of ExecutionOptions for TLC. *)
EXTENDS ExecutionOptions, TLC
CONSTANTS o1, o2, v1, v2
MCObject == {o1, o2}
MCView == {v1, v2}
MCSymmetry == Permutations(MCObject) \cup Permutations(MCView)
(* The growth of libstdc++ and libc++: 1, 2, 4, ...                        *)
MCDouble(n) == IF n = 0 THEN 1 ELSE 2 * n
=============================================================================

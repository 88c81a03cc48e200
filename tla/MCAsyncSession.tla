--------------------------- MODULE MCAsyncSession ---------------------------
(* Small instances of AsyncSession for TLC. *)
EXTENDS AsyncSession
CONSTANTS r1, r2
MCSnapshot == 1 .. MaxDepth
MCRequest == {r1, r2}
=============================================================================

--------------------------- MODULE MCRuntimeQueries -------------------------
(***************************************************************************)
(* Lists of up to two of three ids, and buffers from too small to too big. *)
(***************************************************************************)
EXTENDS RuntimeQueries, SequencesExt

MCId == 0 .. 2
MCContents == {l \in SeqOf(MCId, 2) : IsInjective(l)}
MCMaxSizes == 0 .. 3
=============================================================================

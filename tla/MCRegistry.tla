----------------------------- MODULE MCRegistry -----------------------------
(* Small instances of Registry for TLC. *)
EXTENDS Registry
CONSTANTS h1, h2, h3, r1, r2, r3
MCHandle == {h1, h2, h3}
MCRegistryId == {r1, r2, r3}
=============================================================================

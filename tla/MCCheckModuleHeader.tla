------------------------ MODULE MCCheckModuleHeader -------------------------
(* Small instances of CheckModuleHeader for TLC. *)
EXTENDS CheckModuleHeader, TLC
CONSTANTS core, async, other, m1, m2, bad
MCHeader == {core, async}
MCMarked == {core}
MCMisplaced == {other}
MCHeaderMisplaced == {core, async, other}
MCMethod == {m1, m2}
MCMethodMisnamed == {m1, m2, bad}
MCMisnamed == {bad}
MCNone == {}
MCLate == {m1}
=============================================================================

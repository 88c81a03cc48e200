---------------------------- MODULE DylibProofs ----------------------------
(***************************************************************************)
(* Proofs about Dylib, for any functions, modules and names, any libraries *)
(* and any number of reloads.                                              *)
(***************************************************************************)
EXTENDS Dylib, TLAPS

(* What the host has gone through leads to where it should; the rest still *)
(* leads into one of the two libraries that are in memory.                 *)
DylibInv ==
  /\ TypeOK
  /\ {target, kept} \ {NoLibrary} \subseteq mapped
  /\ \A f \in Fn : ptr[f] \in {target, kept, Null}
  /\ \A f \in Fn \ Pointer : ptr[f] = Null
  /\ \A f \in Pointer \ todo : ptr[f] = IF f \in ExportedBy(target) THEN target ELSE Null

(* The three lists of modules in dylib.cc agree, and the host goes through *)
(* every function that is a pointer.                                       *)
LEMMA OnePointerSet ==
  /\ \A f \in Fn : f \in Pointer <=> ModuleOf[f] \in load \cap SetFnModule
  /\ \A f \in Fn : f \in Pointer <=> HasFn(f)
  /\ Pointer \subseteq ApiFn
BY DEF Pointer, HasFn, DefinedModule, SetFnModule, HasFnModule, ApiFn, RuntimeModule

LEMMA ExportersAreLibraries ==
  ASSUME TypeOK, NEW f \in ExportedBy(target)
  PROVE  target \in Library
BY DEF TypeOK, ExportedBy

(* A call with the name of a function sets that pointer and no other.      *)
LEMMA AssignSetsOne ==
  ASSUME TypeOK, NEW name, NEW addr
  PROVE  Assign(name, addr) = IF name \in Pointer THEN [ptr EXCEPT ![name] = addr] ELSE ptr
<1>1. ptr = [f \in Fn |-> ptr[f]]
  BY DEF TypeOK
<1>2. \A f \in Fn : f \in Pointer <=> ModuleOf[f] \in load \cap SetFnModule
  BY OnePointerSet
<1>3. CASE name \in Pointer
  <2>1. name \in Fn
    BY <1>3 DEF Pointer
  <2>2. [ptr EXCEPT ![name] = addr] = [f \in Fn |-> IF f = name THEN addr ELSE ptr[f]]
    BY <1>1, <2>1
  <2> QED
    BY <1>2, <1>3, <2>1, <2>2 DEF Assign, Matches
<1>4. CASE name \notin Pointer
  BY <1>1, <1>2, <1>4 DEF Assign, Matches
<1> QED
  BY <1>3, <1>4

LEMMA InitDylibInv == Init => DylibInv
<1> SUFFICES ASSUME Init PROVE DylibInv
  OBVIOUS
<1>1. TypeOK
  BY DEF Init, TypeOK, Selectable
<1>2. Pointer \subseteq Fn /\ ExportedBy(target) = {}
  BY DEF Init, Pointer, ExportedBy
<1> QED
  BY <1>1, <1>2 DEF Init, DylibInv

LEMMA ReloadDylibInv == ASSUME DylibInv, NEW l \in Library, Reload(l) PROVE DylibInv'
<1>1. TypeOK'
  BY DEF DylibInv, TypeOK, Reload, build, ApiFn
<1>2. Pointer' = Pointer /\ todo' = ApiFn /\ ptr' = ptr /\ Pointer \subseteq todo'
  BY OnePointerSet DEF Reload, build, Pointer
<1>3. \A f \in Fn : ptr'[f] \in {target', kept', Null}
  BY DEF DylibInv, Reload, Pointer
<1>4. {target', kept'} \ {NoLibrary} \subseteq mapped'
  BY DEF DylibInv, Reload
<1> QED
  BY <1>1, <1>2, <1>3, <1>4 DEF DylibInv

LEMMA GiveUpDylibInv == ASSUME DylibInv, GiveUp PROVE DylibInv'
<1>1. TypeOK'
  BY DEF DylibInv, TypeOK, GiveUp, build, ApiFn
<1>2. Pointer' = Pointer /\ todo' = ApiFn /\ ptr' = ptr /\ Pointer \subseteq todo'
  BY OnePointerSet DEF GiveUp, build, Pointer
<1>3. \A f \in Fn : ptr'[f] \in {target', kept', Null}
  BY DEF DylibInv, GiveUp
<1>4. {target', kept'} \ {NoLibrary} \subseteq mapped'
  BY DEF DylibInv, GiveUp
<1> QED
  BY <1>1, <1>2, <1>3, <1>4 DEF DylibInv

LEMMA LoadFnDylibInv == ASSUME DylibInv, NEW f \in Fn, LoadFn(f) PROVE DylibInv'
<1> DEFINE addr == IF f \in ExportedBy(target) THEN target ELSE Null
<1>1. TypeOK /\ UNCHANGED <<load, debug, target>> /\ todo' = todo \ {f}
  BY DEF LoadFn, build, DylibInv
<1>2. addr \in Library \cup {Null}
  BY <1>1, ExportersAreLibraries
<1>3. ptr' = IF f \in Pointer THEN [ptr EXCEPT ![f] = addr] ELSE ptr
  BY <1>1, AssignSetsOne, OnePointerSet, FnAssumption DEF LoadFn, SetFnAddr
<1>4. aborted' \in BOOLEAN /\ Pointer' = Pointer /\ ExportedBy(target)' = ExportedBy(target)
  BY <1>1, FnAssumption DEF LoadFn, SetFnAddr, Pointer, ExportedBy, TypeOK
<1>5. ptr' \in [Fn -> Library \cup {Null}]
  BY <1>1, <1>2, <1>3 DEF TypeOK
<1>6. \A g \in Fn \ Pointer : ptr'[g] = Null
  BY <1>1, <1>3 DEF DylibInv, TypeOK
<1>7. \A g \in Pointer \ todo' : ptr'[g] = IF g \in ExportedBy(target) THEN target ELSE Null
  <2> SUFFICES ASSUME NEW g \in Pointer \ todo'
               PROVE  ptr'[g] = IF g \in ExportedBy(target) THEN target ELSE Null
    OBVIOUS
  <2>1. g \in Fn /\ ptr \in [Fn -> Library \cup {Null}]
    BY <1>1 DEF Pointer, TypeOK
  <2>2. CASE g = f
    BY <1>3, <2>1, <2>2
  <2>3. CASE g # f
    <3>1. g \in Pointer \ todo
      BY <1>1, <2>3
    <3>2. ptr'[g] = ptr[g]
      BY <1>3, <2>1, <2>3
    <3> QED
      BY <3>1, <3>2 DEF DylibInv
  <2> QED
    BY <2>2, <2>3
<1>8. mapped' = IF todo' = {} THEN {target} \ {NoLibrary} ELSE mapped
  BY DEF LoadFn
<1>9. kept' = IF todo' = {} THEN NoLibrary ELSE kept
  BY DEF LoadFn
<1>10. TypeOK'
  BY <1>1, <1>4, <1>5, <1>8, <1>9 DEF TypeOK
<1>11. {target', kept'} \ {NoLibrary} \subseteq mapped'
  BY <1>1, <1>8, <1>9 DEF DylibInv
<1>12. \A g \in Fn : ptr'[g] \in {target', kept', Null}
  <2> SUFFICES ASSUME NEW g \in Fn PROVE ptr'[g] \in {target', kept', Null}
    OBVIOUS
  <2>1. CASE g \notin Pointer
    BY <1>6, <2>1
  <2>2. CASE g \in Pointer \ todo'
    BY <1>1, <1>7, <2>2
  <2>3. CASE g \in todo'
    <3>1. g # f /\ todo' # {}
      BY <1>1, <2>3
    <3>2. ptr'[g] = ptr[g]
      BY <1>1, <1>3, <3>1 DEF TypeOK
    <3> QED
      BY <1>1, <1>9, <3>1, <3>2 DEF DylibInv
  <2> QED
    BY <2>1, <2>2, <2>3
<1> QED
  BY <1>1, <1>4, <1>6, <1>7, <1>10, <1>11, <1>12 DEF DylibInv

LEMMA SetUnaskedDylibInv ==
  ASSUME DylibInv, NEW name \in Fn \cup Foreign, SetUnasked(name) PROVE DylibInv'
<1>1. TypeOK /\ UNCHANGED <<load, debug, target, todo, kept, mapped>>
  BY DEF SetUnasked, build, DylibInv
<1>2. Pointer \subseteq Fn /\ Pointer' = Pointer /\ ExportedBy(target)' = ExportedBy(target)
  BY <1>1 DEF Pointer, ExportedBy
<1>3. /\ ptr' = IF name \in Pointer THEN [ptr EXCEPT ![name] = target] ELSE ptr
      /\ aborted' \in BOOLEAN
  <2>1. CASE debug /\ name \in Foreign
    BY <1>2, <2>1, FnAssumption DEF SetUnasked, SetFnAddr
  <2>2. CASE ~(debug /\ name \in Foreign)
    BY <1>1, <2>2, AssignSetsOne DEF SetUnasked, SetFnAddr, TypeOK
  <2> QED
    BY <2>1, <2>2
<1>4. name \in Pointer => name \in ExportedBy(target) /\ target \in Library
  BY <1>1, <1>2, ExportersAreLibraries, FnAssumption DEF SetUnasked
<1>5. ptr' \in [Fn -> Library \cup {Null}]
  BY <1>1, <1>3, <1>4 DEF TypeOK
<1>6. TypeOK'
  BY <1>1, <1>3, <1>5 DEF TypeOK
<1>7. \A f \in Fn : ptr'[f] \in {target', kept', Null}
  BY <1>1, <1>3 DEF DylibInv, TypeOK
<1>8. \A f \in Fn \ Pointer : ptr'[f] = Null
  BY <1>1, <1>3 DEF DylibInv, TypeOK
<1>9. \A f \in Pointer \ todo' :
        ptr'[f] = IF f \in ExportedBy(target) THEN target ELSE Null
  <2> SUFFICES ASSUME NEW f \in Pointer \ todo
               PROVE  ptr'[f] = IF f \in ExportedBy(target) THEN target ELSE Null
    BY <1>1
  <2>1. f \in Fn /\ ptr \in [Fn -> Library \cup {Null}]
    BY <1>1, <1>2 DEF TypeOK
  <2>2. ptr'[f] = IF f = name THEN target ELSE ptr[f]
    BY <1>3, <2>1
  <2> QED
    BY <1>4, <2>2 DEF DylibInv
<1> QED
  BY <1>1, <1>2, <1>6, <1>7, <1>8, <1>9 DEF DylibInv

LEMMA NextDylibInv == DylibInv /\ [Next]_vars => DylibInv'
<1> SUFFICES ASSUME DylibInv, [Next]_vars PROVE DylibInv'
  OBVIOUS
<1>1. CASE \E l \in Library : Reload(l)
  BY <1>1, ReloadDylibInv
<1>2. CASE GiveUp
  BY <1>2, GiveUpDylibInv
<1>3. CASE \E f \in Fn : LoadFn(f)
  BY <1>3, LoadFnDylibInv
<1>4. CASE \E name \in Fn \cup Foreign : SetUnasked(name)
  BY <1>4, SetUnaskedDylibInv
<1>5. CASE UNCHANGED vars
  BY <1>5 DEF vars, DylibInv, TypeOK, Pointer, ExportedBy
<1> QED
  BY <1>1, <1>2, <1>3, <1>4, <1>5 DEF Next

(* Every reachable state of the host and its pointers satisfies the        *)
(* invariant.                                                              *)
THEOREM DylibInvariant == Spec => []DylibInv
BY InitDylibInv, NextDylibInv, PTL DEF Spec

(* The pointers, the libraries and the host's progress keep their types.   *)
THEOREM DylibTypeCorrect == Spec => []TypeOK
<1>1. DylibInv => TypeOK
  BY DEF DylibInv
<1> QED
  BY <1>1, DylibInvariant, PTL

(* No pointer of dylib.cc leads into a library that was unloaded, whatever *)
(* libraries the host loads, in what order and how often it gives up.      *)
THEOREM DylibNeverDangling == Spec => []NeverDangling
<1>1. DylibInv => NeverDangling
  BY NullAssumption DEF DylibInv, NeverDangling, TypeOK
<1> QED
  BY <1>1, DylibInvariant, PTL

(* A reload that goes through the names of FOR_EACH_ECSACT_API_FN sets or  *)
(* resets every pointer that dylib.cc defines.                             *)
THEOREM DylibReloadComplete == Spec => []ReloadComplete
<1>1. DylibInv => ReloadComplete
  BY DEF DylibInv, ReloadComplete
<1> QED
  BY <1>1, DylibInvariant, PTL

(* ecsact_dylib_has_fn tells exactly what ecsact_dylib_set_fn_addr sets.   *)
THEOREM DylibHasFnTellsSettable == Spec => HasFnTellsSettable
<1>1. ASSUME DylibInv, NEW name \in Fn \cup Foreign, SetUnasked(name)
      PROVE  ptr' = IF HasFn(name) THEN [ptr EXCEPT ![name] = target] ELSE ptr
  <2>1. TypeOK /\ (name \in Pointer <=> HasFn(name)) /\ Pointer \subseteq Fn
    BY <1>1, OnePointerSet DEF DylibInv, Pointer, HasFn
  <2>2. CASE debug /\ name \in Foreign
    BY <1>1, <2>1, <2>2, FnAssumption DEF SetUnasked, SetFnAddr
  <2>3. CASE ~(debug /\ name \in Foreign)
    BY <1>1, <2>1, <2>3, AssignSetsOne DEF SetUnasked, SetFnAddr
  <2> QED
    BY <2>2, <2>3
<1>2. DylibInv /\ [Next]_vars =>
        [\A name \in Fn \cup Foreign : SetUnasked(name) =>
           ptr' = IF HasFn(name) THEN [ptr EXCEPT ![name] = target] ELSE ptr]_vars
  BY <1>1
<1> QED
  BY <1>2, DylibInvariant, PTL DEF Spec, HasFnTellsSettable
=============================================================================

------------------------------- MODULE Dylib --------------------------------
(***************************************************************************)
(* dylib/dylib.cc: the functions of the C API as pointers, which a program *)
(* that loads a runtime library sets by name: ecsact_dylib_has_fn,         *)
(* ecsact_dylib_set_fn_addr, and the macros of the headers that decide     *)
(* what is a pointer.                                                      *)
(*                                                                         *)
(* dylib.cc goes through the modules of the API three times: where it      *)
(* defines the pointers, where it answers has_fn, and where it sets one.   *)
(* The host that loads libraries is external: it goes through the names of *)
(* FOR_EACH_ECSACT_API_FN (ecsact/runtime.h), asks has_fn, and sets what   *)
(* the library exports, null what it does not.                             *)
(***************************************************************************)
EXTENDS Naturals

CONSTANTS
  Fn,         \* functions of the C API
  ModuleOf,   \* ModuleOf[f]: the module that declares f
  PrefixOf,   \* <<f, g>>: the name of f is the beginning of the name of g
  Foreign,    \* names that do not begin with "ecsact_"
  Library,    \* runtime libraries, or versions of one
  Exports,    \* Exports[l]: the functions l exports
  Null,       \* nullptr
  NoLibrary

ASSUME FnAssumption == Fn \cap Foreign = {}
ASSUME ExportsAssumption == Exports \in [Library -> SUBSET Fn]
ASSUME NullAssumption == Null \notin Library /\ NoLibrary \notin Library

VARIABLES
  load,     \* the modules with ECSACT_..._API_LOAD_AT_RUNTIME
  debug,    \* was dylib.cc compiled without NDEBUG?
  ptr,      \* ptr[f]: the library whose f the pointer f leads to, or null
  mapped,   \* the libraries in memory
  target,   \* the library the host uses or, while it reloads, will use
  todo,     \* the names the host has not gone through yet
  kept,     \* the library that is kept until the reload is done
  aborted   \* did an assertion fail?

build == <<load, debug>>
vars == <<load, debug, ptr, mapped, target, todo, kept, aborted>>

(* ecsact_runtime_modules (index.bzl)                                      *)
RuntimeModule == {"async", "core", "dynamic", "meta", "serialize", "static"}

(* Fault: a name that is no module is not refused.                         *)
SelectableUnchecked == SUBSET (RuntimeModule \cup {"si_wasm"})

(* cc_ecsact_dylib: each module it is given is loaded at run time.         *)
Selectable == SUBSET RuntimeModule

(* The modules for which dylib.cc defines pointers.                        *)
DefinedModule == {"async", "core", "dynamic", "meta", "serialize"}

(* Fault: one module is missing.                                           *)
HasFnModuleButMeta == {"async", "core", "dynamic", "serialize"}

(* The modules that ecsact_dylib_has_fn knows.                             *)
HasFnModule == {"async", "core", "dynamic", "meta", "serialize"}

(* Fault: one module is missing.                                           *)
SetFnModuleButSerialize == {"async", "core", "dynamic", "meta"}

(* The modules that ecsact_dylib_set_fn_addr knows.                        *)
SetFnModule == {"async", "core", "dynamic", "meta", "serialize"}

(* ECSACT_..._API_FN declares a pointer, and dylib.cc defines it.          *)
Pointer == {f \in Fn : ModuleOf[f] \in load \cap DefinedModule}

(* ecsact_dylib_has_fn                                                     *)
HasFn(f) == f \in Fn /\ ModuleOf[f] \in load \cap HasFnModule

(* Fault: strncmp with the length of the name that is asked for.           *)
MatchesPrefix(f, name) == f = name \/ <<name, f>> \in PrefixOf

(* strcmp                                                                  *)
Matches(f, name) == f = name

(* Fault: a null pointer is not stored.                                    *)
AssignNotNull(name, addr) ==
  [f \in Fn |-> IF Matches(f, name) /\ ModuleOf[f] \in load \cap SetFnModule /\ addr # Null
                  THEN addr ELSE ptr[f]]

(* ASSIGN_FN_IF for each function of each module                           *)
Assign(name, addr) ==
  [f \in Fn |-> IF Matches(f, name) /\ ModuleOf[f] \in load \cap SetFnModule
                  THEN addr ELSE ptr[f]]

(* ecsact_dylib_set_fn_addr                                                *)
SetFnAddr(name, addr) ==
  IF debug /\ name \in Foreign
    THEN aborted' = TRUE /\ UNCHANGED ptr
    ELSE ptr' = Assign(name, addr) /\ UNCHANGED aborted

Init ==
  /\ load \in Selectable
  /\ debug \in BOOLEAN
  /\ ptr = [f \in Fn |-> Null]
  /\ mapped = {}
  /\ target = NoLibrary
  /\ todo = {}
  /\ kept = NoLibrary
  /\ aborted = FALSE

(* FOR_EACH_ECSACT_API_FN: every function of every module.                 *)
ApiFn == {f \in Fn : ModuleOf[f] \in RuntimeModule}

(* The host loads a library and begins to go through the names.            *)
Reload(l) ==
  /\ ~aborted
  /\ todo = {}
  /\ l # target
  /\ mapped' = mapped \cup {l}
  /\ target' = l
  /\ kept' = target
  /\ todo' = ApiFn
  /\ UNCHANGED <<build, ptr, aborted>>

(* It gives up and goes back to the library it had.                        *)
GiveUp ==
  /\ ~aborted
  /\ todo # {}
  /\ target' = kept
  /\ kept' = target
  /\ todo' = ApiFn
  /\ UNCHANGED <<build, ptr, mapped, aborted>>

ExportedBy(l) == IF l = NoLibrary THEN {} ELSE Exports[l]

(* The next name: ask, look it up, set.  After the last one, the library   *)
(* that is no longer used is unloaded.                                     *)
LoadFn(f) ==
  /\ ~aborted
  /\ f \in todo
  /\ todo' = todo \ {f}
  /\ IF HasFn(f) THEN SetFnAddr(f, IF f \in ExportedBy(target) THEN target ELSE Null)
                 ELSE UNCHANGED <<ptr, aborted>>
  /\ mapped' = IF todo' = {} THEN {target} \ {NoLibrary} ELSE mapped
  /\ kept' = IF todo' = {} THEN NoLibrary ELSE kept
  /\ UNCHANGED <<build, target>>

(* A careless host sets a name without asking has_fn.                      *)
SetUnasked(name) ==
  /\ ~aborted
  /\ name \in ExportedBy(target) \cup (IF target = NoLibrary THEN {} ELSE Foreign)
  /\ SetFnAddr(name, target)
  /\ UNCHANGED <<build, mapped, target, todo, kept>>

Next ==
  \/ \E l \in Library : Reload(l)
  \/ GiveUp
  \/ \E f \in Fn : LoadFn(f)
  \/ \E name \in Fn \cup Foreign : SetUnasked(name)

Spec == Init /\ [][Next]_vars

-----------------------------------------------------------------------------
TypeOK ==
  /\ load \subseteq RuntimeModule
  /\ debug \in BOOLEAN
  /\ ptr \in [Fn -> Library \cup {Null}]
  /\ mapped \subseteq Library
  /\ {target, kept} \subseteq Library \cup {NoLibrary}
  /\ todo \subseteq Fn
  /\ aborted \in BOOLEAN

(* No pointer ever leads into a library that is no longer in memory,       *)
(* however often the host reloads, gives up half way, and whatever the     *)
(* libraries lack.                                                         *)
NeverDangling == \A f \in Fn : ptr[f] \in mapped \cup {Null}

(* When a reload is done, each pointer leads to the function of its name   *)
(* in the library in use, or nowhere if the library has none.              *)
ReloadComplete ==
  todo = {} /\ ~aborted =>
    \A f \in Pointer : ptr[f] = IF f \in ExportedBy(target) THEN target ELSE Null

(* dylib.h says that ecsact_dylib_has_fn "returns `true` if runtime API    *)
(* function is settable via `ecsact_dylib_set_fn_addr`": a call with a     *)
(* name sets the pointer of that name and no other, and only then.         *)
HasFnTellsSettable ==
  [][\A name \in Fn \cup Foreign : SetUnasked(name) =>
       ptr' = IF HasFn(name) THEN [ptr EXCEPT ![name] = target] ELSE ptr]_vars
=============================================================================

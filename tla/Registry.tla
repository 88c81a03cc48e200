------------------------------ MODULE Registry ------------------------------
(***************************************************************************)
(* The RAII wrapper ecsact::core::registry (ecsact/runtime/core.hh): C++   *)
(* objects that hold a registry id and a flag saying whether their         *)
(* destructor destroys the registry.  The runtime behind the C API is      *)
(* external: it hands out ids that name no live registry, and may hand out *)
(* again the id of a registry that was destroyed (core.h: "The registry ID *)
(* is invalid after this call").                                           *)
(*                                                                         *)
(* `stale' is history: it tells apart registries that had the same id one  *)
(* after the other, which the code cannot.                                 *)
(***************************************************************************)
CONSTANTS
  Handle,             \* storage for C++ objects of class registry
  RegistryId,         \* ids of the runtime
  NoId                \* what storage without an object holds

ASSUME NoIdAssumption == NoId \notin RegistryId
ASSUME HandleAssumption == {"free", "client", "lost"} \cap Handle = {}

VARIABLES
  live,         \* external: ids of the registries that exist
  clientOwned,  \* ids the client got from ecsact_create_registry itself
  alive,        \* the objects whose lifetime has begun and not ended
  id,           \* registry::_id
  owned,        \* the objects whose registry::_owned is true
  stale,        \* history: objects whose registry was destroyed since
  badDestroy    \* history: ids given to ecsact_destroy_registry while invalid

vars == <<live, clientOwned, alive, id, owned, stale, badDestroy>>

Init ==
  /\ live = {}
  /\ clientOwned = {}
  /\ alive = {}
  /\ id = [h \in Handle |-> NoId]
  /\ owned = {}
  /\ stale = {}
  /\ badDestroy = {}

-----------------------------------------------------------------------------
(* The external runtime. *)

(* ecsact_create_registry and ecsact_clone_registry return id r.           *)
BackendCreate(r) ==
  /\ r \notin live
  /\ live' = live \cup {r}

(* ecsact_destroy_registry(r): every object with this id now names nothing *)
(* (or, later, another registry).  Calling it with an invalid id is        *)
(* recorded.                                                               *)
BackendDestroy(r) ==
  /\ live' = live \ {r}
  /\ badDestroy' = badDestroy \cup ({r} \ live)

Named(r) == {h \in alive : id[h] = r}

(* The client uses the C API directly for registries of its own.           *)
ClientCreate(r) ==
  /\ BackendCreate(r)
  /\ clientOwned' = clientOwned \cup {r}
  /\ UNCHANGED <<alive, id, owned, stale, badDestroy>>

ClientDestroy(r) ==
  /\ r \in clientOwned
  /\ BackendDestroy(r)
  /\ clientOwned' = clientOwned \ {r}
  /\ stale' = stale \cup Named(r)
  /\ UNCHANGED <<alive, id, owned>>

-----------------------------------------------------------------------------
(* Members of class registry. *)

(* An object h begins its life with these members.                         *)
Construct(h, r, owns) ==
  /\ h \notin alive
  /\ alive' = alive \cup {h}
  /\ id' = [id EXCEPT ![h] = r]
  /\ owned' = owns

(* registry(const char* name) *)
Create(h, r) ==
  /\ BackendCreate(r)
  /\ Construct(h, r, owned \cup {h})
  /\ UNCHANGED <<clientOwned, stale, badDestroy>>

AdoptAs(h, r, owns) ==
  /\ r \in live
  /\ Construct(h, r, owns)
  /\ UNCHANGED <<live, clientOwned, stale, badDestroy>>

(* Fault: adopting an id also takes the ownership.                         *)
AdoptOwns(h, r) == AdoptAs(h, r, owned \cup {h})

(* explicit registry(ecsact_registry_id): an id that is valid now, the     *)
(* client's own or the id() of another object; never an owner.             *)
Adopt(h, r) == AdoptAs(h, r, owned)

MoveInto(h, other, owns) ==
  /\ other \in alive
  /\ Construct(h, id[other], owns)
  /\ stale' = IF other \in stale THEN stale \cup {h} ELSE stale
  /\ UNCHANGED <<live, clientOwned, badDestroy>>

(* Fault: `other' keeps the ownership.                                     *)
MoveConstructKeepsFlag(h, other) ==
  MoveInto(h, other, IF other \in owned THEN owned \cup {h} ELSE owned)

(* registry(registry&& other): the id stays in `other', the ownership not. *)
MoveConstruct(h, other) ==
  MoveInto(h, other, IF other \in owned THEN (owned \cup {h}) \ {other} ELSE owned)

CloneInto(h, source, r, owns) ==
  /\ source \in alive
  /\ id[source] \in live
  /\ BackendCreate(r)
  /\ Construct(h, r, owns)
  /\ UNCHANGED <<clientOwned, stale, badDestroy>>

(* Fault: the clone is adopted and stays unowned.                          *)
CloneOnlyAdopts(h, source, r) == CloneInto(h, source, r, owned)

(* auto clone(name) const: adopts the id of the clone, then sets _owned.   *)
(* The object cloned from must name a live registry.                       *)
Clone(h, source, r) == CloneInto(h, source, r, owned \cup {h})

AssignFrom(h, other, owns) ==
  /\ h \in alive /\ other \in alive
  /\ id' = [id EXCEPT ![h] = id[other]]
  /\ owned' = owns
  /\ stale' = IF other \in stale THEN stale \cup {h} ELSE stale \ {h}
  /\ UNCHANGED <<live, clientOwned, alive, badDestroy>>

(* registry::_owned of h after _owned = other._owned.                      *)
FlagCopied(h, other) == IF other \in owned THEN owned \cup {h} ELSE owned \ {h}

(* Faults: other._owned is reset before it is copied; it is not reset.     *)
MoveAssignResetsFirst(h, other) == AssignFrom(h, other, owned \ {h, other})
MoveAssignKeepsFlag(h, other) == AssignFrom(h, other, FlagCopied(h, other))

(* registry& operator=(registry&& other): three assignments in this order, *)
(* no destruction of what h owned, no test for self-assignment.            *)
MoveAssign(h, other) == AssignFrom(h, other, FlagCopied(h, other) \ {other})

DestructLeaving(h, owns) ==
  /\ h \in alive
  /\ IF h \in owned
       THEN /\ BackendDestroy(id[h])
            /\ stale' = (stale \cup Named(id[h])) \ {h}
       ELSE /\ stale' = stale \ {h}
            /\ UNCHANGED <<live, badDestroy>>
  /\ alive' = alive \ {h}
  /\ owned' = owns
  /\ id' = [id EXCEPT ![h] = NoId]
  /\ UNCHANGED clientOwned

(* Fault: the destructor leaves _owned set.                                *)
DestructKeepsFlag(h) == DestructLeaving(h, owned)

(* ~registry()                                                             *)
Destruct(h) == DestructLeaving(h, owned \ {h})

Next ==
  \/ \E r \in RegistryId : ClientCreate(r)
  \/ \E r \in RegistryId : ClientDestroy(r)
  \/ \E h \in Handle, r \in RegistryId : Create(h, r)
  \/ \E h \in Handle, r \in RegistryId : Adopt(h, r)
  \/ \E h, other \in Handle : MoveConstruct(h, other)
  \/ \E h, source \in Handle, r \in RegistryId : Clone(h, source, r)
  \/ \E h, other \in Handle : MoveAssign(h, other)
  \/ \E h \in Handle : Destruct(h)

Spec == Init /\ [][Next]_vars

-----------------------------------------------------------------------------
TypeOK ==
  /\ live \subseteq RegistryId
  /\ clientOwned \subseteq RegistryId
  /\ alive \subseteq Handle
  /\ id \in [Handle -> RegistryId \cup {NoId}]
  /\ owned \subseteq alive
  /\ stale \subseteq alive
  /\ badDestroy \subseteq RegistryId

(* At any time a registry has at most one party that will destroy it: two  *)
(* objects never own the same id (although clones, moves and adoptions     *)
(* leave the id in several objects), and no object owns an id the client   *)
(* manages itself.                                                         *)
UniqueOwner ==
  /\ \A h, g \in owned : id[h] = id[g] => h = g
  /\ \A h \in owned : id[h] \notin clientOwned

(* An owning object always names the registry it was given, still alive:   *)
(* whatever moves, adoptions and reuse of ids happened since, its id is    *)
(* valid and has not come to name a later registry.                        *)
OwnerNeverStale ==
  \A h \in owned : id[h] \in live /\ h \notin stale

(* No destructor ever gives ecsact_destroy_registry an invalid id.         *)
NoBadDestroy == badDestroy = {}

(* Registries that exist and that nobody will destroy.                     *)
Orphans == live \ (clientOwned \cup {id[h] : h \in owned})

(* Only a move assignment to an owning object, itself included, leaks: not *)
(* a destructor, a move construction, a clone or the end of an alias.      *)
LeaksOnlyByAssignment ==
  [][Orphans' \subseteq Orphans \/ \E h \in owned, g \in Handle : MoveAssign(h, g)]_vars

-----------------------------------------------------------------------------
(* The wrapper implements RegistryOwnership.                               *)
OwnerOf(r) ==
  IF r \notin live THEN "free"
  ELSE IF r \in clientOwned THEN "client"
  ELSE IF \E h \in owned : id[h] = r THEN CHOOSE h \in owned : id[h] = r
  ELSE "lost"

OwnerMap == [r \in RegistryId |-> OwnerOf(r)]

Ownership == INSTANCE RegistryOwnership WITH
  Free <- "free", Client <- "client", Lost <- "lost", owner <- OwnerMap

(* Every step of the wrapper acquires, releases or hands over registries   *)
(* the way RegistryOwnership allows, or leaves all owners alone.           *)
ImplementsOwnership == Ownership!OwnershipSpec
=============================================================================

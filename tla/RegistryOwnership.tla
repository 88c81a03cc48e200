------------------------- MODULE RegistryOwnership -------------------------
(***************************************************************************)
(* What the C++ wrapper ecsact::core::registry promises about the          *)
(* registries of the runtime, without saying how: every live registry has  *)
(* exactly one party responsible for destroying it -- a C++ object, the    *)
(* client itself (through the C API), or, once an owning object has been   *)
(* assigned to, nobody.                                                    *)
(***************************************************************************)
CONSTANTS
  Handle,       \* the C++ objects of class registry
  RegistryId,   \* the ids the runtime hands out
  Free,         \* "owner" of an id that names no live registry
  Client,       \* the program itself, holding an id from the C API
  Lost          \* "owner" of a live registry nobody will destroy

VARIABLE owner  \* owner[r]: who destroys registry r

Owner == Handle \cup {Free, Client, Lost}

OwnershipTypeOK == owner \in [RegistryId -> Owner]

OwnsNothing(o) == \A r \in RegistryId : owner[r] # o

OwnershipInit == owner = [r \in RegistryId |-> Free]

(* A new registry is born with an owner; an object owns at most one.       *)
Acquire(o, r) ==
  /\ owner[r] = Free
  /\ o = Client \/ (o \in Handle /\ OwnsNothing(o))
  /\ owner' = [owner EXCEPT ![r] = o]

(* The owner destroys its registry; nobody else ever does.                 *)
Release(o, r) ==
  /\ o \in Handle \cup {Client}
  /\ owner[r] = o
  /\ owner' = [owner EXCEPT ![r] = Free]

(* Object g hands what it owns to h, which forgets what it owned before.   *)
(* Handing to itself forgets as well.                                      *)
Give(g, h) ==
  owner' = [r \in RegistryId |->
              IF owner[r] = h THEN Lost
              ELSE IF owner[r] = g THEN h
              ELSE owner[r]]

OwnershipNext ==
  \/ \E o \in Handle \cup {Client}, r \in RegistryId : Acquire(o, r)
  \/ \E o \in Handle \cup {Client}, r \in RegistryId : Release(o, r)
  \/ \E g, h \in Handle : Give(g, h)

OwnershipSpec == OwnershipInit /\ [][OwnershipNext]_owner
=============================================================================

--------------------------- MODULE RegistryProofs ---------------------------
(***************************************************************************)
(* Proofs about Registry, for any number of objects and ids.               *)
(***************************************************************************)
EXTENDS Registry, TLAPS

(* The inductive invariant.  UniqueOwner is what makes OwnerNeverStale     *)
(* inductive (a destructor ends only its own registry), OwnerNeverStale is *)
(* what makes UniqueOwner inductive (a new id is not owned already) and    *)
(* both give NoBadDestroy.                                                 *)
RegistryInv ==
  /\ TypeOK
  /\ clientOwned \subseteq live
  /\ UniqueOwner
  /\ OwnerNeverStale
  /\ NoBadDestroy

LEMMA InitRegistryInv == Init => RegistryInv
BY DEF Init, RegistryInv, TypeOK, UniqueOwner, OwnerNeverStale, NoBadDestroy

LEMMA NextRegistryInv == RegistryInv /\ [Next]_vars => RegistryInv'
<1> SUFFICES ASSUME RegistryInv, [Next]_vars PROVE RegistryInv'
  OBVIOUS
<1> USE NoIdAssumption
       DEF RegistryInv, TypeOK, UniqueOwner, OwnerNeverStale, NoBadDestroy
<1>1. ASSUME NEW r \in RegistryId, ClientCreate(r) PROVE RegistryInv'
  BY <1>1 DEF ClientCreate, BackendCreate
<1>2. ASSUME NEW r \in RegistryId, ClientDestroy(r) PROVE RegistryInv'
  BY <1>2 DEF ClientDestroy, BackendDestroy, Named
<1>3. ASSUME NEW h \in Handle, NEW r \in RegistryId, Create(h, r)
      PROVE RegistryInv'
  BY <1>3 DEF Create, BackendCreate, Construct
<1>4. ASSUME NEW h \in Handle, NEW r \in RegistryId, Adopt(h, r)
      PROVE RegistryInv'
  BY <1>4 DEF Adopt, AdoptAs, Construct
<1>5. ASSUME NEW h \in Handle, NEW other \in Handle, MoveConstruct(h, other)
      PROVE RegistryInv'
  BY <1>5 DEF MoveConstruct, MoveInto, Construct
<1>6. ASSUME NEW h \in Handle, NEW source \in Handle, NEW r \in RegistryId,
             Clone(h, source, r)
      PROVE RegistryInv'
  BY <1>6 DEF Clone, CloneInto, BackendCreate, Construct
<1>7. ASSUME NEW h \in Handle, NEW other \in Handle, MoveAssign(h, other)
      PROVE RegistryInv'
  BY <1>7 DEF MoveAssign, AssignFrom, FlagCopied
<1>8. ASSUME NEW h \in Handle, Destruct(h) PROVE RegistryInv'
  BY <1>8 DEF Destruct, DestructLeaving, BackendDestroy, Named
<1>9. CASE UNCHANGED vars
  BY <1>9 DEF vars
<1> QED
  BY <1>1, <1>2, <1>3, <1>4, <1>5, <1>6, <1>7, <1>8, <1>9 DEF Next

(* Every reachable state of the wrapper satisfies the inductive invariant. *)
THEOREM RegistryInvariant == Spec => []RegistryInv
BY InitRegistryInv, NextRegistryInv, PTL DEF Spec

(* registry's members keep their types, whatever the client does.          *)
THEOREM RegistryTypeCorrect == Spec => []TypeOK
<1>1. RegistryInv => TypeOK
  BY DEF RegistryInv
<1> QED
  BY <1>1, RegistryInvariant, PTL

(* No two objects own one registry and none owns the client's.             *)
THEOREM RegistryUniqueOwner == Spec => []UniqueOwner
<1>1. RegistryInv => UniqueOwner
  BY DEF RegistryInv
<1> QED
  BY <1>1, RegistryInvariant, PTL

(* The id of an owning object names the registry it was given.             *)
THEOREM RegistryOwnerNeverStale == Spec => []OwnerNeverStale
<1>1. RegistryInv => OwnerNeverStale
  BY DEF RegistryInv
<1> QED
  BY <1>1, RegistryInvariant, PTL

(* ~registry() only ever destroys a live registry.                         *)
THEOREM RegistryNoBadDestroy == Spec => []NoBadDestroy
<1>1. RegistryInv => NoBadDestroy
  BY DEF RegistryInv
<1> QED
  BY <1>1, RegistryInvariant, PTL

-----------------------------------------------------------------------------
(* Leaks. *)

LEMMA StepLeaks ==
  ASSUME RegistryInv, Next,
         \A h \in owned, g \in Handle : ~MoveAssign(h, g)
  PROVE  Orphans' \subseteq Orphans
<1> USE NoIdAssumption
       DEF RegistryInv, TypeOK, UniqueOwner, OwnerNeverStale, Orphans
<1>1. ASSUME NEW r \in RegistryId, ClientCreate(r) PROVE Orphans' \subseteq Orphans
  BY <1>1 DEF ClientCreate, BackendCreate
<1>2. ASSUME NEW r \in RegistryId, ClientDestroy(r) PROVE Orphans' \subseteq Orphans
  BY <1>2 DEF ClientDestroy, BackendDestroy
<1>3. ASSUME NEW h \in Handle, NEW r \in RegistryId, Create(h, r)
      PROVE Orphans' \subseteq Orphans
  BY <1>3 DEF Create, BackendCreate, Construct
<1>4. ASSUME NEW h \in Handle, NEW r \in RegistryId, Adopt(h, r)
      PROVE Orphans' \subseteq Orphans
  BY <1>4 DEF Adopt, AdoptAs, Construct
<1>5. ASSUME NEW h \in Handle, NEW other \in Handle, MoveConstruct(h, other)
      PROVE Orphans' \subseteq Orphans
  BY <1>5 DEF MoveConstruct, MoveInto, Construct
<1>6. ASSUME NEW h \in Handle, NEW source \in Handle, NEW r \in RegistryId,
             Clone(h, source, r)
      PROVE Orphans' \subseteq Orphans
  BY <1>6 DEF Clone, CloneInto, BackendCreate, Construct
<1>7. ASSUME NEW h \in Handle \ owned, NEW other \in Handle, MoveAssign(h, other)
      PROVE Orphans' \subseteq Orphans
  BY <1>7 DEF MoveAssign, AssignFrom, FlagCopied
<1>8. ASSUME NEW h \in Handle, Destruct(h) PROVE Orphans' \subseteq Orphans
  BY <1>8 DEF Destruct, DestructLeaving, BackendDestroy
<1> QED
  BY <1>1, <1>2, <1>3, <1>4, <1>5, <1>6, <1>7, <1>8 DEF Next

(* Whatever the client does, only a move assignment to an owner leaks.     *)
THEOREM RegistryLeaks == Spec => LeaksOnlyByAssignment
<1>1. ASSUME RegistryInv, [Next]_vars
      PROVE [Orphans' \subseteq Orphans
               \/ \E h \in owned, g \in Handle : MoveAssign(h, g)]_vars
  BY <1>1, StepLeaks
<1> QED
  BY <1>1, RegistryInvariant, PTL DEF Spec, LeaksOnlyByAssignment

(* What a client does that never assigns to an owning object, and what it  *)
(* gets for it.                                                            *)
Disciplined == \A h \in owned, g \in Handle : ~MoveAssign(h, g)
NoLeak == Orphans = {}

(* A client that never assigns to an owning object leaks nothing.          *)
THEOREM RegistryNoLeak == Spec /\ [][Disciplined]_vars => []NoLeak
<1>1. Init => NoLeak
  BY DEF Init, Orphans, NoLeak
<1>2. ASSUME RegistryInv, NoLeak, [Next]_vars, [Disciplined]_vars PROVE NoLeak'
  <2>1. CASE UNCHANGED vars
    BY <1>2, <2>1 DEF vars, Orphans, NoLeak
  <2>2. CASE ~UNCHANGED vars
    <3>1. Next /\ Disciplined
      BY <1>2, <2>2
    <3> QED
      BY <1>2, <3>1, StepLeaks DEF NoLeak, Disciplined
  <2> QED
    BY <2>1, <2>2
<1> QED
  BY <1>1, <1>2, RegistryInvariant, PTL DEF Spec

-----------------------------------------------------------------------------
(* Refinement of RegistryOwnership. *)

(* OwnerOf by cases, without its CHOOSE.                                   *)
OwnerCases ==
  /\ \A r \in RegistryId \ live : OwnerMap[r] = "free"
  /\ \A r \in clientOwned : OwnerMap[r] = "client"
  /\ \A h \in owned : OwnerMap[id[h]] = h
  /\ \A r \in Orphans : OwnerMap[r] = "lost"

LEMMA OwnerMapCases == RegistryInv => OwnerCases
<1> SUFFICES ASSUME RegistryInv PROVE OwnerCases
  OBVIOUS
<1> USE NoIdAssumption DEF RegistryInv, TypeOK, UniqueOwner, OwnerNeverStale,
                           OwnerMap, OwnerOf, Orphans
<1>1. \A r \in RegistryId \ live : OwnerMap[r] = "free"
  OBVIOUS
<1>2. \A r \in clientOwned : OwnerMap[r] = "client"
  OBVIOUS
<1>3. ASSUME NEW h \in owned PROVE OwnerMap[id[h]] = h
  <2>1. id[h] \in live /\ id[h] \notin clientOwned /\ id[h] \in RegistryId
    OBVIOUS
  <2>2. \A g \in owned : id[g] = id[h] => g = h
    OBVIOUS
  <2> QED
    BY <2>1, <2>2
<1>4. \A r \in Orphans : OwnerMap[r] = "lost"
  OBVIOUS
<1> QED
  BY <1>1, <1>2, <1>3, <1>4 DEF OwnerCases

LEMMA OwnerMapCasesNext == RegistryInv' => OwnerCases'
BY OwnerMapCases, PTL

LEMMA InitImplements == Init => Ownership!OwnershipInit
BY DEF Init, Ownership!OwnershipInit, OwnerMap, OwnerOf

LEMMA StepImplements ==
  RegistryInv /\ RegistryInv' /\ [Next]_vars
    => [Ownership!OwnershipNext]_OwnerMap
<1> SUFFICES ASSUME RegistryInv, RegistryInv', [Next]_vars
             PROVE  Ownership!OwnershipNext \/ OwnerMap' = OwnerMap
  OBVIOUS
<1>c. OwnerCases /\ OwnerCases'
  BY OwnerMapCases, OwnerMapCasesNext
<1>d. /\ OwnerMap = [r \in RegistryId |-> OwnerMap[r]]
      /\ OwnerMap' = [r \in RegistryId |-> OwnerMap'[r]]
  BY DEF OwnerMap
<1> USE NoIdAssumption, HandleAssumption
    DEF RegistryInv, TypeOK, UniqueOwner, OwnerNeverStale, OwnerCases, Orphans
<1>1. ASSUME NEW r \in RegistryId, ClientCreate(r)
      PROVE Ownership!Acquire("client", r)
  <2>1. \A q \in RegistryId \ {r} : OwnerMap'[q] = OwnerMap[q]
    BY <1>c, <1>1 DEF ClientCreate, BackendCreate
  <2>2. OwnerMap[r] = "free" /\ OwnerMap'[r] = "client"
    BY <1>c, <1>1 DEF ClientCreate, BackendCreate
  <2> QED
    BY <1>d, <2>1, <2>2 DEF Ownership!Acquire
<1>2. ASSUME NEW r \in RegistryId, ClientDestroy(r)
      PROVE Ownership!Release("client", r)
  <2>1. \A q \in RegistryId \ {r} : OwnerMap'[q] = OwnerMap[q]
    BY <1>c, <1>2 DEF ClientDestroy, BackendDestroy
  <2>2. OwnerMap[r] = "client" /\ OwnerMap'[r] = "free"
    BY <1>c, <1>2 DEF ClientDestroy, BackendDestroy
  <2> QED
    BY <1>d, <2>1, <2>2 DEF Ownership!Release
<1>3. ASSUME NEW h \in Handle, NEW r \in RegistryId, Create(h, r)
      PROVE Ownership!Acquire(h, r)
  <2>1. \A q \in RegistryId \ {r} : OwnerMap'[q] = OwnerMap[q]
    BY <1>c, <1>3 DEF Create, BackendCreate, Construct
  <2>2. OwnerMap[r] = "free" /\ OwnerMap'[r] = h
    BY <1>c, <1>3 DEF Create, BackendCreate, Construct
  <2>3. Ownership!OwnsNothing(h)
    BY <1>c, <1>3 DEF Create, Construct, Ownership!OwnsNothing
  <2> QED
    BY <1>d, <2>1, <2>2, <2>3 DEF Ownership!Acquire
<1>4. ASSUME NEW h \in Handle, NEW r \in RegistryId, Adopt(h, r)
      PROVE OwnerMap' = OwnerMap
  <2>1. \A q \in RegistryId : OwnerMap'[q] = OwnerMap[q]
    BY <1>c, <1>4 DEF Adopt, AdoptAs, Construct
  <2> QED
    BY <1>d, <2>1
<1>5. ASSUME NEW h \in Handle, NEW other \in Handle, MoveConstruct(h, other)
      PROVE Ownership!Give(other, h)
  <2>1. \A q \in RegistryId : OwnerMap'[q] = IF OwnerMap[q] = other THEN h ELSE OwnerMap[q]
    BY <1>c, <1>5 DEF MoveConstruct, MoveInto, Construct
  <2>2. \A q \in RegistryId : OwnerMap[q] # h
    BY <1>c, <1>5 DEF MoveConstruct, MoveInto, Construct
  <2> QED
    BY <1>d, <2>1, <2>2 DEF Ownership!Give
<1>6. ASSUME NEW h \in Handle, NEW source \in Handle, NEW r \in RegistryId,
             Clone(h, source, r)
      PROVE Ownership!Acquire(h, r)
  <2>1. \A q \in RegistryId \ {r} : OwnerMap'[q] = OwnerMap[q]
    BY <1>c, <1>6 DEF Clone, CloneInto, BackendCreate, Construct
  <2>2. OwnerMap[r] = "free" /\ OwnerMap'[r] = h
    BY <1>c, <1>6 DEF Clone, CloneInto, BackendCreate, Construct
  <2>3. Ownership!OwnsNothing(h)
    BY <1>c, <1>6 DEF Clone, CloneInto, Construct, Ownership!OwnsNothing
  <2> QED
    BY <1>d, <2>1, <2>2, <2>3 DEF Ownership!Acquire
<1>7. ASSUME NEW h \in Handle, NEW other \in Handle, MoveAssign(h, other)
      PROVE Ownership!Give(other, h)
  <2>1. \A q \in RegistryId :
          OwnerMap'[q] = IF OwnerMap[q] = h THEN "lost"
                         ELSE IF OwnerMap[q] = other THEN h ELSE OwnerMap[q]
    BY <1>c, <1>7 DEF MoveAssign, AssignFrom, FlagCopied
  <2> QED
    BY <1>d, <2>1 DEF Ownership!Give
<1>8. ASSUME NEW h \in Handle, Destruct(h)
      PROVE OwnerMap' = OwnerMap \/ \E r \in RegistryId : Ownership!Release(h, r)
  <2>1. CASE h \in owned
    <3>1. \A q \in RegistryId \ {id[h]} : OwnerMap'[q] = OwnerMap[q]
      BY <1>c, <1>8, <2>1 DEF Destruct, DestructLeaving, BackendDestroy
    <3>2. OwnerMap[id[h]] = h /\ OwnerMap'[id[h]] = "free" /\ id[h] \in RegistryId
      BY <1>c, <1>8, <2>1 DEF Destruct, DestructLeaving, BackendDestroy
    <3> QED
      BY <1>d, <3>1, <3>2 DEF Ownership!Release
  <2>2. CASE h \notin owned
    <3>1. \A q \in RegistryId : OwnerMap'[q] = OwnerMap[q]
      BY <1>c, <1>8, <2>2 DEF Destruct, DestructLeaving
    <3> QED
      BY <1>d, <3>1
  <2> QED
    BY <2>1, <2>2
<1>9. CASE UNCHANGED vars
  BY <1>9 DEF vars, OwnerMap, OwnerOf
<1> QED
  BY <1>1, <1>2, <1>3, <1>4, <1>5, <1>6, <1>7, <1>8, <1>9
     DEF Next, Ownership!OwnershipNext

(* The wrapper implements RegistryOwnership: create and clone acquire,     *)
(* moves give, a destructor releases at most what its object owns, and     *)
(* adopting changes no owner.                                              *)
THEOREM RegistryImplementsOwnership == Spec => ImplementsOwnership
BY InitImplements, StepImplements, RegistryInvariant, PTL
   DEF Spec, ImplementsOwnership, Ownership!OwnershipSpec
=============================================================================

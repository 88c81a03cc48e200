-------------------------- MODULE ExecutionOptions --------------------------
(***************************************************************************)
(* ecsact::core::execution_options (ecsact/runtime/core.hh): a C++ object  *)
(* that queues work for ecsact_execute_systems in a dozen std::vectors,    *)
(* and c(), which gives the C API a view of it: plain pointers into those  *)
(* vectors.  The model keeps what decides whether such a view can still be *)
(* read: which buffer each vector has, how much it holds, and when a call  *)
(* moves it to another buffer.                                             *)
(*                                                                         *)
(* The data is abstracted to the number of the call that queued it: both   *)
(* the entity and the component of the n-th call on an object are n.  The  *)
(* code never looks at either.  `calls' is history: the calls made on an   *)
(* object, from which the properties compute what a view should hold.      *)
(***************************************************************************)
EXTENDS Naturals, Sequences, FiniteSets, SequencesExt

CONSTANTS
  Object,      \* storage for objects of class execution_options
  View,        \* variables of the client of type ecsact_execution_options
  NoView,      \* a View that was never set
  ClientList,  \* the lists the client uses
  MaxCalls,    \* bound on the calls in the histories of all objects together
  Grow(_)      \* capacity a full vector of n elements gets on push_back

ASSUME MaxCallsAssumption == MaxCalls \in Nat
ASSUME GrowAssumption == \A n \in 0 .. MaxCalls : Grow(n) \in Nat /\ Grow(n) > n

EntityList == {"add", "update", "remove", "destroy"}  \* lists of entity ids
DataList == {"add", "update", "remove", "action"}     \* lists of components,
                                                      \* their ids or actions
List == EntityList \cup DataList

ASSUME ClientListAssumption == ClientList \subseteq List

(* The vectors of numbers of an object; those of "create" are the scratch  *)
(* arrays c() fills: create_placeholders and entities_component_lengths.   *)
Slot == {<<"entity", k>> : k \in EntityList} \cup {<<"data", k>> : k \in DataList}
          \cup {<<"create", "placeholder">>, <<"create", "length">>}

VARIABLES
  alive,    \* objects that exist
  vec,      \* vec[o][s]: the std::vector s of o
  created,  \* created[o]: create_entities, a sequence of builder_entity
  pointers, \* pointers[o]: entities_components, the vector of the addresses
            \* of the builders' component buffers, filled by c()
  calls,    \* history: calls[o], what was called on o
  view      \* view[w]: what c() returned into w

vars == <<alive, vec, created, pointers, calls, view>>

-----------------------------------------------------------------------------
(* std::vector: a buffer, its capacity and the elements. *)

Null == <<>>   \* the pointer to no buffer

NoVec == [buf |-> Null, cap |-> 0, elems |-> <<>>]

PushBack(v, x, fresh) ==
  IF Len(v.elems) < v.cap
    THEN [v EXCEPT !.elems = Append(@, x)]
    ELSE [buf |-> fresh, cap |-> Grow(Len(v.elems)), elems |-> Append(v.elems, x)]

(* clear(): the buffer stays.                                              *)
Cleared(v) == [v EXCEPT !.elems = <<>>]

(* Fault: a new vector is assigned instead.                                *)
RefilledAnew(v, xs, fresh) == [buf |-> fresh, cap |-> Len(xs), elems |-> xs]

(* clear(), reserve(Len(xs)) and a push_back of each of xs.                *)
Refilled(v, xs, fresh) ==
  IF Len(xs) <= v.cap THEN [v EXCEPT !.elems = xs]
  ELSE [buf |-> fresh, cap |-> Len(xs), elems |-> xs]

Copied(v, fresh) ==
  IF v.elems = <<>> THEN NoVec
  ELSE [buf |-> fresh, cap |-> Len(v.elems), elems |-> v.elems]

Builders == UNION {ToSet(created[o]) : o \in alive}
Vectors == {vec[o][s] : o \in alive, s \in Slot} \cup {b.components : b \in Builders}

Buffers(w) ==
  IF view[w] = NoView THEN {}
  ELSE Range(view[w].entity) \cup Range(view[w].data)
         \cup {view[w].placeholder, view[w].length, view[w].pointer}

(* A buffer nothing refers to, for vector s of object o.                   *)
Fresh(o, s) ==
  LET used == {v.buf : v \in Vectors} \cup {pointers[p].buf : p \in alive}
                \cup UNION {ToSet(pointers[p].elems) : p \in alive}
                \cup UNION {Buffers(w) : w \in View}
  IN  <<o, s, CHOOSE n \in 0 .. Cardinality(used) : <<o, s, n>> \notin used>>

-----------------------------------------------------------------------------
(* What a client may call. *)

Init ==
  /\ alive = {}
  /\ vec = [o \in Object |-> [s \in Slot |-> NoVec]]
  /\ created = [o \in Object |-> <<>>]
  /\ pointers = [o \in Object |-> NoVec]
  /\ calls = [o \in Object |-> <<>>]
  /\ view = [w \in View |-> NoView]

(* Each object is constructed once.                                        *)
Unused(o) == o \notin alive /\ calls[o] = <<>>

(* execution_options() = default                                           *)
Construct(o) ==
  /\ Unused(o)
  /\ alive' = alive \cup {o}
  /\ calls' = [calls EXCEPT ![o] = <<"construct">>]
  /\ UNCHANGED <<vec, created, pointers, view>>

(* The end of the object frees its buffers.                                *)
Destruct(o) ==
  /\ o \in alive
  /\ alive' = alive \ {o}
  /\ vec' = [vec EXCEPT ![o] = [s \in Slot |-> NoVec]]
  /\ created' = [created EXCEPT ![o] = <<>>]
  /\ pointers' = [pointers EXCEPT ![o] = NoVec]
  /\ UNCHANGED <<calls, view>>

CallsMade == FoldFunction(LAMBDA c, n : Len(c) + n, 0, calls)

(* The second bound follows from the first.                                *)
Called(o, what) ==
  /\ o \in alive
  /\ CallsMade < MaxCalls /\ Len(calls[o]) < MaxCalls
  /\ calls' = [calls EXCEPT ![o] = Append(@, what)]

Number(o) == Len(calls[o]) + 1
Pushed(o, s) == PushBack(vec[o][s], Number(o), Fresh(o, s))

(* Fault: the entity is not appended.                                      *)
PushDataOnly(o, k) ==
  /\ Called(o, k)
  /\ vec' = [vec EXCEPT ![o] = [s \in Slot |-> IF s = <<"data", k>>
                                              THEN Pushed(o, s) ELSE vec[o][s]]]
  /\ UNCHANGED <<alive, created, pointers, view>>

(* add_component, update_component, remove_component (both overloads),     *)
(* destroy_entity and push_action append to one or both vectors of a list. *)
Push(o, k) ==
  /\ Called(o, k)
  /\ vec' = [vec EXCEPT ![o] =
               [s \in Slot |-> IF s \in {<<"entity", k>>, <<"data", k>>}
                                 THEN Pushed(o, s) ELSE vec[o][s]]]
  /\ UNCHANGED <<alive, created, pointers, view>>

(* Fault: the placeholder of the new builder is not assigned: NoView stands *)
(* for whatever is there.                                                  *)
CreateEntityNoPlaceholder(o) ==
  /\ Called(o, "create")
  /\ created' = [created EXCEPT ![o] =
                   Append(@, [placeholder |-> NoView, components |-> NoVec])]
  /\ UNCHANGED <<alive, vec, pointers, view>>

(* Fault: the builders are copied, not moved, when the vector grows.       *)
CreateEntityCopiesBuilders(o) ==
  /\ Called(o, "create")
  /\ created' = [created EXCEPT ![o] =
       Append([i \in DOMAIN @ |->
                 [@[i] EXCEPT !.components = Copied(@, Fresh(o, <<"builder", i>>))]],
              [placeholder |-> Number(o), components |-> NoVec])]
  /\ UNCHANGED <<alive, vec, pointers, view>>

(* create_entity: a builder with no components at the end of the vector.   *)
(* If the vector grows, its builders are moved and keep their buffers.     *)
CreateEntity(o) ==
  /\ Called(o, "create")
  /\ created' = [created EXCEPT ![o] =
                   Append(@, [placeholder |-> Number(o), components |-> NoVec])]
  /\ UNCHANGED <<alive, vec, pointers, view>>

(* builder_entity::add_component, through the reference create_entity      *)
(* returned last: references to earlier builders may dangle by now.        *)
Build(o) ==
  /\ created[o] # <<>>
  /\ Called(o, "build")
  /\ LET n == Len(created[o])
     IN  created' = [created EXCEPT ![o][n].components =
                       PushBack(@, Number(o), Fresh(o, <<"builder", n>>))]
  /\ UNCHANGED <<alive, vec, pointers, view>>

(* Fault: destroy_entities is not cleared.                                 *)
ClearForgetsDestroy(o) ==
  /\ Called(o, "clear")
  /\ vec' = [vec EXCEPT ![o] =
               [s \in Slot |-> IF s \in {<<"create", "placeholder">>, <<"entity", "destroy">>}
                                 THEN vec[o][s] ELSE Cleared(vec[o][s])]]
  /\ created' = [created EXCEPT ![o] = <<>>]
  /\ pointers' = [pointers EXCEPT ![o] = Cleared(@)]
  /\ UNCHANGED <<alive, view>>

(* clear(): every vector but create_placeholders; the builders are         *)
(* destroyed, and their buffers with them.                                 *)
Clear(o) ==
  /\ Called(o, "clear")
  /\ vec' = [vec EXCEPT ![o] =
               [s \in Slot |-> IF s = <<"create", "placeholder">>
                                 THEN vec[o][s] ELSE Cleared(vec[o][s])]]
  /\ created' = [created EXCEPT ![o] = <<>>]
  /\ pointers' = [pointers EXCEPT ![o] = Cleared(@)]
  /\ UNCHANGED <<alive, view>>

(* Fault: c() keeps the component addresses if their number is right.      *)
PointersIfCountDiffers(o) ==
  IF Len(pointers[o].elems) = Len(created[o]) THEN pointers[o].elems
  ELSE [i \in 1 .. Len(created[o]) |-> created[o][i].components.buf]

(* The addresses of the builders' components, as c() collects them.        *)
ComponentPointers(o) ==
  [i \in 1 .. Len(created[o]) |-> created[o][i].components.buf]

(* The scratch arrays c() computes from create_entities.                   *)
Scratch(o, s) ==
  LET n == Len(created[o])
  IN  CASE s = <<"create", "placeholder">> -> [i \in 1 .. n |-> created[o][i].placeholder]
        [] s = <<"create", "length">> -> [i \in 1 .. n |-> Len(created[o][i].components.elems)]

(* c(): refill the scratch arrays, then point at everything.  The two      *)
(* ..._indexed_fields pointers of the C struct stay null: not modelled.    *)
C(o, w) ==
  /\ o \in alive
  /\ vec' = [vec EXCEPT ![o] =
               [s \in Slot |-> IF s[1] = "create"
                                 THEN Refilled(vec[o][s], Scratch(o, s), Fresh(o, s))
                                 ELSE vec[o][s]]]
  /\ pointers' = [pointers EXCEPT ![o] =
                    Refilled(@, ComponentPointers(o), Fresh(o, <<"create", "pointer">>))]
  /\ view' = [view EXCEPT ![w] =
       [of          |-> o,
        calls       |-> calls[o],
        size        |-> [k \in List |-> Len(vec[o][IF k = "destroy" THEN <<"entity", k>>
                                                   ELSE <<"data", k>>].elems)],
        entity      |-> [k \in EntityList |-> vec[o][<<"entity", k>>].buf],
        data        |-> [k \in DataList |-> vec[o][<<"data", k>>].buf],
        createSize  |-> Len(created[o]),
        placeholder |-> vec'[o][<<"create", "placeholder">>].buf,
        length      |-> vec'[o][<<"create", "length">>].buf,
        pointer     |-> pointers'[o].buf]]
  /\ UNCHANGED <<alive, created, calls>>

(* execution_options(const execution_options&) = default copies each       *)
(* vector to a buffer of its own; the copy of entities_components still    *)
(* holds the addresses of the original's components.                       *)
Copy(o, p) ==
  /\ Unused(o) /\ p \in alive
  /\ alive' = alive \cup {o}
  /\ vec' = [vec EXCEPT ![o] = [s \in Slot |-> Copied(vec[p][s], Fresh(o, s))]]
  /\ created' = [created EXCEPT ![o] =
       [i \in DOMAIN created[p] |->
          [created[p][i] EXCEPT !.components = Copied(@, Fresh(o, <<"builder", i>>))]]]
  /\ pointers' = [pointers EXCEPT ![o] =
                    Copied(pointers[p], Fresh(o, <<"create", "pointer">>))]
  /\ calls' = [calls EXCEPT ![o] = calls[p]]
  /\ UNCHANGED view

(* Fault: a move that copies and then clears its source.                   *)
MoveByCopy(o, p) ==
  /\ Unused(o) /\ p \in alive
  /\ alive' = alive \cup {o}
  /\ vec' = [vec EXCEPT ![o] = [s \in Slot |-> Copied(vec[p][s], Fresh(o, s))],
                        ![p] = [s \in Slot |-> Cleared(vec[p][s])]]
  /\ created' = [created EXCEPT ![o] = created[p], ![p] = <<>>]
  /\ pointers' = [pointers EXCEPT ![o] = pointers[p], ![p] = Cleared(@)]
  /\ calls' = [calls EXCEPT ![o] = calls[p], ![p] = Append(@, "clear")]
  /\ UNCHANGED view

(* execution_options(execution_options&&) = default takes the buffers.     *)
Move(o, p) ==
  /\ Unused(o) /\ p \in alive
  /\ alive' = alive \cup {o}
  /\ vec' = [vec EXCEPT ![o] = vec[p], ![p] = [s \in Slot |-> NoVec]]
  /\ created' = [created EXCEPT ![o] = created[p], ![p] = <<>>]
  /\ pointers' = [pointers EXCEPT ![o] = pointers[p], ![p] = NoVec]
  /\ calls' = [calls EXCEPT ![o] = calls[p], ![p] = Append(@, "clear")]
  /\ UNCHANGED view

Next ==
  \/ \E o \in Object : Construct(o)
  \/ \E o \in Object : Destruct(o)
  \/ \E o \in Object, k \in ClientList : Push(o, k)
  \/ \E o \in Object : CreateEntity(o)
  \/ \E o \in Object : Build(o)
  \/ \E o \in Object : Clear(o)
  \/ \E o \in Object, w \in View : C(o, w)
  \/ \E o, p \in Object : Copy(o, p)
  \/ \E o, p \in Object : Move(o, p)

Spec == Init /\ [][Next]_vars

-----------------------------------------------------------------------------
(* What a view taken after the calls cs should hold. *)

(* The calls that queued what list k holds: those since the last clear().  *)
Queued(cs, k) == {i \in 1 .. Len(cs) : cs[i] = k /\ \A j \in i .. Len(cs) : cs[j] # "clear"}

(* Those that added a component to the entity created by the call c.       *)
Built(cs, c) ==
  {i \in Queued(cs, "build") : c < i /\ \A j \in c + 1 .. i : cs[j] # "create"}

(* The first n elements of xs are the members of S, in the order of calls. *)
Lists(xs, n, S) ==
  /\ n <= Len(xs)
  /\ S = {xs[i] : i \in 1 .. n}
  /\ \A i, j \in 1 .. n : i < j => xs[i] < xs[j]

(* Reading n elements from buffer b is allowed and gives S.                *)
Holds(b, n, S) ==
  IF n = 0 THEN S = {} ELSE \E v \in Vectors : v.buf = b /\ Lists(v.elems, n, S)

(* The view in w can be read from end to end and is exactly what was       *)
(* queued when it was taken: every list has its length, the n-th entity of *)
(* a list comes with the n-th component, every created entity with its own *)
(* components.                                                             *)
ValidLists(vw) ==
  /\ \A k \in EntityList : Holds(vw.entity[k], vw.size[k], Queued(vw.calls, k))
  /\ \A k \in DataList : Holds(vw.data[k], vw.size[k], Queued(vw.calls, k))

ValidCreates(vw) ==
  \E p \in Vectors :
    /\ p.buf = vw.placeholder
    /\ Lists(p.elems, vw.createSize, Queued(vw.calls, "create"))
    /\ \E l \in Vectors :
         /\ l.buf = vw.length
         /\ vw.createSize <= Len(l.elems)
         /\ \E o \in alive :
              /\ pointers[o].buf = vw.pointer
              /\ vw.createSize <= Len(pointers[o].elems)
              /\ \A j \in 1 .. vw.createSize :
                   Holds(pointers[o].elems[j], l.elems[j], Built(vw.calls, p.elems[j]))

Valid(w) ==
  /\ ValidLists(view[w])
  /\ IF view[w].createSize = 0 THEN Queued(view[w].calls, "create") = {}
     ELSE ValidCreates(view[w])

-----------------------------------------------------------------------------
IsVec(v) == v.cap \in Nat /\ v.elems \in Seq(Nat) /\ Len(v.elems) <= v.cap

TypeOK ==
  /\ alive \subseteq Object
  /\ \A o \in Object : DOMAIN vec[o] = Slot /\ \A s \in Slot : IsVec(vec[o][s])
  /\ \A o \in Object : \A b \in ToSet(created[o]) : b.placeholder \in Nat /\ IsVec(b.components)
  /\ \A o \in Object : Len(pointers[o].elems) <= pointers[o].cap

(* add_components_length and its siblings are the size of one of the two   *)
(* vectors of a list and are used for both.                                *)
ParallelLists ==
  \A o \in Object, k \in EntityList \cap DataList :
    Len(vec[o][<<"entity", k>>].elems) = Len(vec[o][<<"data", k>>].elems)

(* As long as nothing was called on an object that changes what it holds,  *)
(* every view of it is valid: the first one too after c() was called again *)
(* (by execute_systems, by enqueue_execution_options), and that of a copy  *)
(* after the original it was copied from was cleared or destroyed.         *)
CurrentViewsValid ==
  \A w \in View :
    view[w] # NoView /\ view[w].of \in alive /\ view[w].calls = calls[view[w].of]
      => Valid(w)

(* A push_back to a full vector.                                           *)
Outgrows(o) ==
  \/ \E k \in ClientList : Push(o, k) /\ \E s \in {<<"entity", k>>, <<"data", k>>} \cap Slot :
                                     Len(vec[o][s].elems) = vec[o][s].cap
  \/ Build(o) /\ LET v == created[o][Len(created[o])].components
                 IN  Len(v.elems) = v.cap

(* A view ends only with clear(), the destructor, a push_back that         *)
(* outgrows a vector, or a c() after more calls.  In particular it         *)
(* survives create_entity, whose vector may move its builders but not      *)
(* their components, every push_back within capacity, copies, and a move   *)
(* of the object it is a view of.                                          *)
ViewsEndOnlyWithReason ==
  [][\A w \in View :
       view[w] # NoView /\ view'[w] = view[w] /\ Valid(w) /\ ~Valid(w)' =>
         \E o \in Object :
           \/ Clear(o) \/ Destruct(o) \/ Outgrows(o)
           \/ view[w].calls # calls[o] /\ \E x \in View : C(o, x)]_vars
=============================================================================

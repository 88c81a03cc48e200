----------------------- MODULE ExecutionOptionsProofs -----------------------
(***************************************************************************)
(* Proofs about ExecutionOptions, for any objects, views, lists and growth *)
(* of vectors and any number of calls: what every list and builder holds   *)
(* after a history of calls (ContentsInv), what a view points to           *)
(* (ViewsInv), and from these that views are valid until a call ends them. *)
(***************************************************************************)
EXTENDS ExecutionOptions, SequenceTheorems, WellFoundedInduction, TLAPS

(* The slots of the flat lists, which only clear(), copies and moves       *)
(* change as a whole.                                                      *)
ListSlot == {<<"entity", k>> : k \in EntityList} \cup {<<"data", k>> : k \in DataList}

IsVector(v) == v = [buf |-> v.buf, cap |-> v.cap, elems |-> v.elems]

(* Stronger than ParallelLists: the two vectors of a list were appended to *)
(* by the same calls, so the n-th entity comes with the n-th component.    *)
Paired(f) ==
  /\ f = [s \in Slot |-> f[s]]
  /\ \A s \in ListSlot : IsVector(f[s])
  /\ \A k \in EntityList \cap DataList : f[<<"entity", k>>].elems = f[<<"data", k>>].elems

OptionsInv ==
  /\ vec = [o \in Object |-> vec[o]]
  /\ \A o \in Object : Paired(vec[o])

-----------------------------------------------------------------------------
(* Slots and vectors. *)

LEMMA ListSlots ==
  /\ ListSlot \subseteq Slot
  /\ \A s \in ListSlot : s[1] # "create" /\ s # <<"create", "placeholder">>
  /\ \A k \in EntityList : <<"entity", k>> \in ListSlot
  /\ \A k \in DataList : <<"data", k>> \in ListSlot
  /\ \A j, k : <<"entity", j>> # <<"data", k>>
  /\ \A j, k : <<"entity", j>> = <<"entity", k>> <=> j = k
  /\ \A j, k : <<"data", j>> = <<"data", k>> <=> j = k
BY DEF ListSlot, Slot

(* What the operations on a vector do to its elements.                     *)
LEMMA PushBackVector ==
  ASSUME NEW v, IsVector(v), NEW x, NEW fresh
  PROVE  /\ IsVector(PushBack(v, x, fresh))
         /\ PushBack(v, x, fresh).elems = Append(v.elems, x)
<1>1. CASE Len(v.elems) < v.cap
  BY <1>1 DEF PushBack, IsVector
<1>2. CASE ~(Len(v.elems) < v.cap)
  BY <1>2 DEF PushBack, IsVector
<1> QED
  BY <1>1, <1>2

LEMMA ClearedVector ==
  ASSUME NEW v, IsVector(v)
  PROVE  IsVector(Cleared(v)) /\ Cleared(v).elems = <<>>
BY DEF Cleared, IsVector

LEMMA CopiedVector ==
  ASSUME NEW v, IsVector(v), NEW fresh
  PROVE  IsVector(Copied(v, fresh)) /\ Copied(v, fresh).elems = v.elems
BY DEF Copied, NoVec, IsVector

(* An operation that does the same to the elements of every list pairs     *)
(* what was paired.                                                        *)
LEMMA SameForLists ==
  ASSUME NEW g, Paired(g), NEW f, f = [s \in Slot |-> f[s]],
         \A s \in ListSlot : IsVector(f[s]) /\ f[s].elems = g[s].elems
  PROVE  Paired(f)
BY ListSlots DEF Paired

LEMMA NoLists ==
  ASSUME NEW f, f = [s \in Slot |-> f[s]],
         \A s \in ListSlot : IsVector(f[s]) /\ f[s].elems = <<>>
  PROVE  Paired(f)
BY ListSlots DEF Paired

LEMMA NoVecs == Paired([s \in Slot |-> NoVec])
<1> DEFINE f == [s \in Slot |-> NoVec]
<1>1. f = [s \in Slot |-> f[s]]
  OBVIOUS
<1>2. \A s \in ListSlot : IsVector(f[s]) /\ f[s].elems = <<>>
  BY ListSlots DEF NoVec, IsVector
<1> HIDE DEF f
<1>3. Paired(f)
  BY <1>1, <1>2, NoLists
<1> QED
  BY <1>3 DEF f

(* A call that replaces the vectors of one object, o, by f.                *)
LEMMA OneObject ==
  ASSUME OptionsInv, NEW o \in Object, NEW f, Paired(f), vec' = [vec EXCEPT ![o] = f]
  PROVE  OptionsInv'
<1>1. vec' = [p \in Object |-> IF p = o THEN f ELSE vec[p]]
  BY DEF OptionsInv
<1>2. \A p \in Object : Paired(vec'[p])
  BY <1>1 DEF OptionsInv
<1>3. vec' = [p \in Object |-> vec'[p]]
  BY <1>1
<1> QED
  BY <1>2, <1>3 DEF OptionsInv, Paired, IsVector

-----------------------------------------------------------------------------
(* The steps. *)

LEMMA InitOptionsInv == Init => OptionsInv
BY NoVecs DEF Init, OptionsInv

LEMMA PushOptionsInv ==
  ASSUME OptionsInv, NEW o \in Object, NEW k, Push(o, k) PROVE OptionsInv'
<1> DEFINE f == [s \in Slot |-> IF s \in {<<"entity", k>>, <<"data", k>>}
                                  THEN Pushed(o, s) ELSE vec[o][s]]
<1>1. vec' = [vec EXCEPT ![o] = f]
  BY DEF Push
<1>2. \A s \in ListSlot : IsVector(vec[o][s])
  BY DEF OptionsInv, Paired
<1>3. ASSUME NEW s \in ListSlot
      PROVE  /\ IsVector(Pushed(o, s))
             /\ Pushed(o, s).elems = Append(vec[o][s].elems, Number(o))
  <2> DEFINE v == vec[o][s]
             n == Number(o)
             fresh == Fresh(o, s)
  <2>1. IsVector(v) /\ Pushed(o, s) = PushBack(v, n, fresh)
    BY <1>2 DEF Pushed
  <2> HIDE DEF v, n, fresh
  <2>2. IsVector(Pushed(o, s)) /\ Pushed(o, s).elems = Append(v.elems, n)
    BY <2>1, PushBackVector, Zenon
  <2> QED
    BY <2>2 DEF v, n
<1>4. \A s \in ListSlot : IsVector(f[s])
  BY <1>2, <1>3, ListSlots
<1>5. ASSUME NEW j \in EntityList \cap DataList
      PROVE  f[<<"entity", j>>].elems = f[<<"data", j>>].elems
  <2>1. <<"entity", j>> \in Slot \cap ListSlot /\ <<"data", j>> \in Slot \cap ListSlot
    BY ListSlots
  <2>2. vec[o][<<"entity", j>>].elems = vec[o][<<"data", j>>].elems
    BY DEF OptionsInv, Paired
  <2>3. CASE j = k
    BY <1>3, <2>1, <2>2, <2>3
  <2>4. CASE j # k
    BY <2>1, <2>2, <2>4
  <2> QED
    BY <2>3, <2>4
<1>6. f = [s \in Slot |-> f[s]]
  OBVIOUS
<1> HIDE DEF f
<1>7. Paired(f)
  BY <1>4, <1>5, <1>6 DEF Paired
<1> QED
  BY <1>1, <1>7, OneObject

LEMMA ClearOptionsInv ==
  ASSUME OptionsInv, NEW o \in Object, Clear(o) PROVE OptionsInv'
<1> DEFINE f == [s \in Slot |-> IF s = <<"create", "placeholder">>
                                  THEN vec[o][s] ELSE Cleared(vec[o][s])]
<1>1. vec' = [vec EXCEPT ![o] = f]
  BY DEF Clear
<1>2. \A s \in ListSlot : f[s] = Cleared(vec[o][s]) /\ IsVector(vec[o][s])
  BY ListSlots DEF OptionsInv, Paired
<1>3. f = [s \in Slot |-> f[s]]
  OBVIOUS
<1> HIDE DEF f
<1>4. \A s \in ListSlot : IsVector(f[s]) /\ f[s].elems = <<>>
  BY <1>2, ClearedVector
<1>5. Paired(f)
  BY <1>3, <1>4, NoLists
<1> QED
  BY <1>1, <1>5, OneObject

LEMMA COptionsInv ==
  ASSUME OptionsInv, NEW o \in Object, NEW w, C(o, w) PROVE OptionsInv'
<1> DEFINE f == [s \in Slot |-> IF s[1] = "create"
                                  THEN Refilled(vec[o][s], Scratch(o, s), Fresh(o, s))
                                  ELSE vec[o][s]]
<1>1. vec' = [vec EXCEPT ![o] = f]
  BY DEF C
<1>2. \A s \in ListSlot : f[s] = vec[o][s]
  BY ListSlots
<1>3. f = [s \in Slot |-> f[s]]
  OBVIOUS
<1> HIDE DEF f
<1>4. Paired(vec[o]) /\ \A s \in ListSlot : IsVector(f[s]) /\ f[s].elems = vec[o][s].elems
  BY <1>2 DEF OptionsInv, Paired
<1>5. Paired(f)
  BY <1>3, <1>4, SameForLists
<1> QED
  BY <1>1, <1>5, OneObject

LEMMA CopyOptionsInv ==
  ASSUME OptionsInv, NEW o \in Object, NEW p \in Object, Copy(o, p) PROVE OptionsInv'
<1> DEFINE f == [s \in Slot |-> Copied(vec[p][s], Fresh(o, s))]
<1>1. vec' = [vec EXCEPT ![o] = f]
  BY DEF Copy
<1>2. \A s \in ListSlot : f[s] = Copied(vec[p][s], Fresh(o, s)) /\ IsVector(vec[p][s])
  BY ListSlots DEF OptionsInv, Paired
<1>3. f = [s \in Slot |-> f[s]]
  OBVIOUS
<1> HIDE DEF f
<1>4. ASSUME NEW s \in ListSlot PROVE IsVector(f[s]) /\ f[s].elems = vec[p][s].elems
  <2> DEFINE v == vec[p][s]
             fresh == Fresh(o, s)
  <2>1. f[s] = Copied(v, fresh) /\ IsVector(v)
    BY <1>2
  <2> HIDE DEF v, fresh
  <2>2. IsVector(f[s]) /\ f[s].elems = v.elems
    BY <2>1, CopiedVector, Zenon
  <2> QED
    BY <2>2 DEF v
<1>5. Paired(vec[p])
  BY DEF OptionsInv
<1>6. Paired(f)
  BY <1>3, <1>4, <1>5, SameForLists
<1> QED
  BY <1>1, <1>6, OneObject

LEMMA MoveOptionsInv ==
  ASSUME OptionsInv, NEW o \in Object, NEW p \in Object, Move(o, p) PROVE OptionsInv'
<1> DEFINE none == [s \in Slot |-> NoVec]
<1>1. vec' = [vec EXCEPT ![o] = vec[p], ![p] = none]
  BY DEF Move
<1>2. Paired(none)
  BY NoVecs
<1> HIDE DEF none
<1>3. vec' = [q \in Object |-> IF q = p THEN none ELSE IF q = o THEN vec[p] ELSE vec[q]]
  BY <1>1 DEF OptionsInv
<1>4. \A q \in Object : Paired(vec'[q])
  BY <1>2, <1>3 DEF OptionsInv
<1>5. vec' = [q \in Object |-> vec'[q]]
  BY <1>3
<1> QED
  BY <1>4, <1>5 DEF OptionsInv, Paired, IsVector

LEMMA UnchangedOptionsInv == ASSUME OptionsInv, UNCHANGED vec PROVE OptionsInv'
BY DEF OptionsInv, Paired, IsVector

LEMMA NextOptionsInv == OptionsInv /\ [Next]_vars => OptionsInv'
<1> SUFFICES ASSUME OptionsInv, [Next]_vars PROVE OptionsInv'
  OBVIOUS
<1>1. ASSUME NEW o \in Object, Construct(o) \/ CreateEntity(o) \/ Build(o) PROVE OptionsInv'
  BY <1>1, UnchangedOptionsInv DEF Construct, CreateEntity, Build
<1>2. ASSUME NEW o \in Object, Destruct(o) PROVE OptionsInv'
  BY <1>2, NoVecs, OneObject DEF Destruct
<1>3. ASSUME NEW o \in Object, NEW k \in ClientList, Push(o, k) PROVE OptionsInv'
  BY <1>3, PushOptionsInv
<1>4. ASSUME NEW o \in Object, Clear(o) PROVE OptionsInv'
  BY <1>4, ClearOptionsInv
<1>5. ASSUME NEW o \in Object, NEW w \in View, C(o, w) PROVE OptionsInv'
  BY <1>5, COptionsInv
<1>6. ASSUME NEW o \in Object, NEW p \in Object, Copy(o, p) PROVE OptionsInv'
  BY <1>6, CopyOptionsInv
<1>7. ASSUME NEW o \in Object, NEW p \in Object, Move(o, p) PROVE OptionsInv'
  BY <1>7, MoveOptionsInv
<1>8. CASE UNCHANGED vars
  BY <1>8, UnchangedOptionsInv DEF vars
<1> QED
  BY <1>1, <1>2, <1>3, <1>4, <1>5, <1>6, <1>7, <1>8 DEF Next

(* Every call keeps the invariant of the lists.                            *)
THEOREM OptionsInvariant == Spec => []OptionsInv
BY InitOptionsInv, NextOptionsInv, PTL DEF Spec

(* The one length c() gives the runtime for both vectors of a list is that *)
(* of either, so reading the other never runs past its end.                *)
THEOREM OptionsParallelLists == Spec => []ParallelLists
<1>1. OptionsInv => ParallelLists
  BY DEF OptionsInv, Paired, ParallelLists
<1> QED
  BY <1>1, OptionsInvariant, PTL
-----------------------------------------------------------------------------
(* What an object holds, from the calls that were made on it. *)

Sequence(s) == s \in Seq({s[i] : i \in DOMAIN s})

VectorInv(v, n) ==
  /\ IsVector(v)
  /\ IsVec(v)
  /\ Len(v.elems) <= n

Whole(v, S) == Lists(v.elems, Len(v.elems), S)

(* What c() collects from the builders c.                                  *)
Placeholders(c) == [i \in 1 .. Len(c) |-> c[i].placeholder]
Lengths(c) == [i \in 1 .. Len(c) |-> Len(c[i].components.elems)]
Addresses(c) == [i \in 1 .. Len(c) |-> c[i].components.buf]

(* f, c and cs are the vectors, the builders and the calls of an object.   *)
VectorsInv(f, cs) ==
  /\ f = [s \in Slot |-> f[s]]
  /\ \A s \in Slot : VectorInv(f[s], Len(cs))
  /\ \A s \in Slot : f[s].cap > 0 => f[s].buf # Null /\ f[s].buf[2] = s
  /\ \A k \in EntityList : Whole(f[<<"entity", k>>], Queued(cs, k))
  /\ \A k \in DataList : Whole(f[<<"data", k>>], Queued(cs, k))

BuilderInv(b, cs) ==
  /\ b = [placeholder |-> b.placeholder, components |-> b.components]
  /\ VectorInv(b.components, Len(cs))
  /\ b.components.buf # Null => b.components.buf[2][1] = "builder"
  /\ b.components.cap > 0 => b.components.buf # Null
  /\ Whole(b.components, Built(cs, b.placeholder))

BuildersInv(c, cs) ==
  /\ Sequence(c)
  /\ Len(c) <= Len(cs)
  /\ Lists(Placeholders(c), Len(c), Queued(cs, "create"))
  /\ \A i \in 1 .. Len(c) : BuilderInv(c[i], cs)

PointersInv(v) ==
  /\ IsVector(v)
  /\ Sequence(v.elems)
  /\ v.cap \in Nat
  /\ Len(v.elems) <= v.cap
  /\ \A i \in 1 .. Len(v.elems) : v.elems[i] # Null => v.elems[i][2][1] = "builder"

Call == List \cup {"construct", "create", "build", "clear"}

ObjectInv(o) ==
  /\ PointersInv(pointers[o])
  /\ IF o \in alive
       THEN /\ calls[o] # <<>>
            /\ VectorsInv(vec[o], calls[o]) /\ BuildersInv(created[o], calls[o])
       ELSE vec[o] = [s \in Slot |-> NoVec] /\ created[o] = <<>>

ContentsInv ==
  /\ alive \subseteq Object
  /\ created = [o \in Object |-> created[o]]
  /\ pointers = [o \in Object |-> pointers[o]]
  /\ calls \in [Object -> Seq(Call)]
  /\ \A o \in Object : ObjectInv(o)

(* A view and the object it is a view of.                                  *)
ViewTags(vw) ==
  /\ vw.createSize \in Nat /\ \A k \in List : vw.size[k] \in Nat
  /\ \A k \in EntityList : vw.size[k] > 0 => vw.entity[k] # Null /\ vw.entity[k][2] = <<"entity", k>>
  /\ \A k \in DataList : vw.size[k] > 0 => vw.data[k] # Null /\ vw.data[k][2] = <<"data", k>>
  /\ vw.createSize > 0 => /\ vw.placeholder # Null /\ vw.placeholder[2] = <<"create", "placeholder">>
                          /\ vw.length # Null /\ vw.length[2] = <<"create", "length">>

Linked(vw, f, c, p) ==
  /\ \A k \in EntityList : /\ vw.entity[k] = f[<<"entity", k>>].buf
                           /\ vw.size[k] = Len(f[<<"entity", k>>].elems)
  /\ \A k \in DataList : /\ vw.data[k] = f[<<"data", k>>].buf
                         /\ vw.size[k] = Len(f[<<"data", k>>].elems)
  /\ vw.createSize = Len(c)
  /\ vw.placeholder = f[<<"create", "placeholder">>].buf
  /\ vw.length = f[<<"create", "length">>].buf
  /\ vw.pointer = p.buf
  /\ f[<<"create", "placeholder">>].elems = Placeholders(c)
  /\ f[<<"create", "length">>].elems = Lengths(c)
  /\ p.elems = Addresses(c)

ViewsInv ==
  /\ view = [w \in View |-> view[w]]
  /\ \A w \in View : view[w] # NoView =>
       /\ view[w].of \in Object
       /\ calls[view[w].of] # <<>>
       /\ Len(view[w].calls) \in Nat /\ Len(view[w].calls) <= Len(calls[view[w].of])
       /\ ViewTags(view[w])
       /\ view[w].of \in alive /\ view[w].calls = calls[view[w].of] =>
            Linked(view[w], vec[view[w].of], created[view[w].of], pointers[view[w].of])

-----------------------------------------------------------------------------
(* Calls and the lists they fill. *)

LEMMA AppendCalls ==
  ASSUME NEW cs \in Seq(Call), NEW what \in Call
  PROVE  /\ Append(cs, what) \in Seq(Call)
         /\ Append(cs, what) # <<>>
         /\ Len(cs) \in Nat
         /\ Len(Append(cs, what)) = Len(cs) + 1
         /\ \A i \in 1 .. Len(cs) : Append(cs, what)[i] = cs[i]
         /\ Append(cs, what)[Len(cs) + 1] = what
BY AppendProperties, LenProperties

(* Any call but clear() leaves what was queued, and is queued itself.      *)
LEMMA QueuedAppend ==
  ASSUME NEW cs \in Seq(Call), NEW what \in Call, what # "clear", NEW k
  PROVE  Queued(Append(cs, what), k) =
           Queued(cs, k) \cup (IF what = k THEN {Len(cs) + 1} ELSE {})
<1> DEFINE ds == Append(cs, what)
           n == Len(cs)
<1>1. /\ n \in Nat /\ Len(ds) = n + 1
      /\ \A i \in 1 .. n : ds[i] = cs[i]
      /\ ds[n + 1] = what
  BY AppendCalls
<1> HIDE DEF ds
<1>2. ASSUME NEW i \in Queued(ds, k)
      PROVE  i \in Queued(cs, k) \cup (IF what = k THEN {n + 1} ELSE {})
  <2>1. i \in 1 .. n + 1 /\ ds[i] = k /\ \A j \in i .. n + 1 : ds[j] # "clear"
    BY <1>1, <1>2 DEF Queued
  <2>2. CASE i = n + 1
    BY <1>1, <2>1, <2>2
  <2>3. CASE i # n + 1
    BY <1>1, <2>1, <2>3 DEF Queued
  <2> QED
    BY <2>2, <2>3
<1>3. ASSUME NEW i \in Queued(cs, k) PROVE i \in Queued(ds, k)
  <2>1. i \in 1 .. n /\ cs[i] = k /\ \A j \in i .. n : cs[j] # "clear"
    BY <1>3 DEF Queued
  <2>2. \A j \in i .. n + 1 : ds[j] # "clear"
    BY <1>1, <2>1
  <2> QED
    BY <1>1, <2>1, <2>2 DEF Queued
<1>4. what = k => n + 1 \in Queued(ds, k)
  BY <1>1 DEF Queued
<1> QED
  BY <1>2, <1>3, <1>4 DEF ds

LEMMA QueuedClear ==
  ASSUME NEW cs \in Seq(Call), NEW k
  PROVE  Queued(Append(cs, "clear"), k) = {}
<1>1. "clear" \in Call
  BY DEF Call
<1> QED
  BY <1>1, AppendCalls DEF Queued

(* What was added to the entity of an earlier call c is still what was     *)
(* added after any call but clear() and add_component on a builder.        *)
LEMMA BuiltAppend ==
  ASSUME NEW cs \in Seq(Call), NEW what \in Call, what \notin {"clear", "build"},
         NEW c \in Nat
  PROVE  Built(Append(cs, what), c) = Built(cs, c)
<1> DEFINE ds == Append(cs, what)
           n == Len(cs)
<1>1. n \in Nat /\ \A i \in 1 .. n : ds[i] = cs[i]
  BY AppendCalls
<1>2. Queued(ds, "build") = Queued(cs, "build")
  <2>1. Queued(ds, "build") = Queued(cs, "build") \cup (IF what = "build" THEN {n + 1} ELSE {})
    BY QueuedAppend
  <2> QED
    BY <2>1
<1>3. Queued(cs, "build") \subseteq 1 .. n
  BY DEF Queued
<1> HIDE DEF ds, n
<1>4. \A i \in Queued(cs, "build") : \A j \in c + 1 .. i : ds[j] = cs[j]
  BY <1>1, <1>3
<1> QED
  BY <1>2, <1>4 DEF Built, ds

(* A component goes to the entity created last.                            *)
LEMMA BuiltBuild ==
  ASSUME NEW cs \in Seq(Call), NEW c \in 1 .. Len(cs)
  PROVE  Built(Append(cs, "build"), c) =
           Built(cs, c) \cup (IF \A j \in c + 1 .. Len(cs) : cs[j] # "create"
                                THEN {Len(cs) + 1} ELSE {})
<1> DEFINE ds == Append(cs, "build")
           n == Len(cs)
           last == \A j \in c + 1 .. n : cs[j] # "create"
<1>1. "build" \in Call
  BY DEF Call
<1>2. /\ n \in Nat /\ \A i \in 1 .. n : ds[i] = cs[i]
      /\ ds[n + 1] = "build"
  BY <1>1, AppendCalls
<1>3. Queued(ds, "build") = Queued(cs, "build") \cup {n + 1}
  BY <1>1, QueuedAppend
<1>4. Queued(cs, "build") \subseteq 1 .. n
  BY DEF Queued
<1>5. c \in 1 .. n
  OBVIOUS
<1> HIDE DEF ds, n
<1>6. \A i \in Queued(cs, "build") : \A j \in c + 1 .. i : ds[j] = cs[j]
  BY <1>2, <1>4, <1>5
<1>7. (\A j \in c + 1 .. n + 1 : ds[j] # "create") <=> last
  <2>1. ASSUME \A j \in c + 1 .. n + 1 : ds[j] # "create" PROVE last
    BY <1>2, <1>5, <2>1
  <2>2. ASSUME last PROVE \A j \in c + 1 .. n + 1 : ds[j] # "create"
    BY <1>2, <1>5, <2>2
  <2> QED
    BY <2>1, <2>2
<1>8. c < n + 1
  BY <1>2, <1>5
<1> HIDE DEF last
<1>9. ASSUME NEW i PROVE i \in Built(ds, c) <=> i \in Built(cs, c) \cup (IF last THEN {n + 1} ELSE {})
  <2>1. CASE i = n + 1
    BY <1>2, <1>3, <1>4, <1>7, <1>8, <2>1 DEF Built
  <2>2. CASE i # n + 1
    BY <1>3, <1>6, <2>2 DEF Built
  <2> QED
    BY <2>1, <2>2
<1>10. Built(ds, c) = Built(cs, c) \cup (IF last THEN {n + 1} ELSE {})
  BY <1>9
<1> QED
  BY <1>10 DEF ds, last, n

-----------------------------------------------------------------------------
(* Lists of calls. *)

LEMMA ListsNothing ==
  ASSUME NEW S PROVE Lists(<<>>, 0, S) <=> S = {}
BY EmptySeq DEF Lists

LEMMA ListsAppend ==
  ASSUME NEW xs \in Seq(Nat), NEW S, Lists(xs, Len(xs), S),
         NEW n \in Nat, \A m \in S : m < n
  PROVE  Lists(Append(xs, n), Len(xs) + 1, S \cup {n})
<1> DEFINE l == Len(xs)
           ys == Append(xs, n)
<1>1. /\ l \in Nat /\ Len(ys) = l + 1
      /\ \A i \in 1 .. l : ys[i] = xs[i]
      /\ ys[l + 1] = n
  BY AppendProperties, LenProperties
<1>2. S = {xs[i] : i \in 1 .. l} /\ \A i, j \in 1 .. l : i < j => xs[i] < xs[j]
  BY DEF Lists
<1> HIDE DEF l, ys
<1>3. S \cup {n} = {ys[i] : i \in 1 .. l + 1}
  <2>1. \A i \in 1 .. l + 1 : i \in 1 .. l \/ i = l + 1
    BY <1>1
  <2>2. 1 .. l \subseteq 1 .. l + 1 /\ l + 1 \in 1 .. l + 1
    BY <1>1
  <2> QED
    BY <1>1, <1>2, <2>1, <2>2
<1>4. ASSUME NEW i \in 1 .. l + 1, NEW j \in 1 .. l + 1, i < j PROVE ys[i] < ys[j]
  <2>1. i \in 1 .. l
    BY <1>1, <1>4
  <2>2. CASE j = l + 1
    BY <1>1, <1>2, <2>1, <2>2
  <2>3. CASE j # l + 1
    BY <1>1, <1>2, <1>4, <2>1, <2>3
  <2> QED
    BY <2>2, <2>3
<1> QED
  BY <1>1, <1>3, <1>4 DEF Lists, l, ys

(* There is one way to list a set.                                         *)
LEMMA ListsWithin ==
  ASSUME NEW S \in SUBSET Int, NEW n \in Nat, NEW m \in Nat, NEW xs, NEW ys,
         Lists(xs, n, S), Lists(ys, m, S)
  PROVE  n <= m /\ \A i \in 1 .. n : xs[i] = ys[i]
<1> DEFINE T == {i \in 1 .. n : i > m \/ xs[i] # ys[i]}
<1>1. SUFFICES ASSUME T # {} PROVE FALSE
  <2>1. n \in T \/ n = 0 \/ n <= m
    OBVIOUS
  <2> QED
    BY <1>1, <2>1
<1>2. PICK i \in T : \A j \in T : ~(j < i)
  <2>1. T \subseteq Nat
    OBVIOUS
  <2>2. PICK i \in T : \A j \in T : ~(<<j, i>> \in OpToRel(<, Nat))
    BY <1>1, <2>1, NatLessThanWellFounded, WFMin, Zenon
  <2> QED
    BY <2>1, <2>2 DEF OpToRel
<1>3. /\ S = {xs[j] : j \in 1 .. n} /\ \A j, k \in 1 .. n : j < k => xs[j] < xs[k]
      /\ S = {ys[j] : j \in 1 .. m} /\ \A j, k \in 1 .. m : j < k => ys[j] < ys[k]
  BY DEF Lists
<1>4. i \in 1 .. n /\ \A j \in 1 .. n : j < i => j <= m /\ xs[j] = ys[j]
  BY <1>2
<1>5. PICK k \in 1 .. m : ys[k] = xs[i]
  BY <1>3, <1>4
<1>6. (\A j \in 1 .. n : xs[j] \in Int) /\ (\A j \in 1 .. m : ys[j] \in Int)
  BY <1>3
<1>7. ~(k < i)
  BY <1>3, <1>4, <1>5, <1>6
<1>8. k # i
  BY <1>2, <1>5
<1>9. i < k /\ i \in 1 .. m
  BY <1>4, <1>7, <1>8
<1>10. PICK l \in 1 .. n : xs[l] = ys[i]
  BY <1>3, <1>9
<1>11. ys[i] < xs[i]
  BY <1>3, <1>5, <1>9
<1>12. l < i
  BY <1>3, <1>4, <1>6, <1>10, <1>11
<1>13. ys[l] = ys[i] /\ l \in 1 .. m
  BY <1>4, <1>10, <1>12
<1> QED
  BY <1>3, <1>6, <1>9, <1>12, <1>13

LEMMA ListsSame ==
  ASSUME NEW S \in SUBSET Int, NEW n \in Nat, NEW m \in Nat, NEW xs, NEW ys,
         Lists(xs, n, S), Lists(ys, m, S)
  PROVE  n = m /\ \A i \in 1 .. n : xs[i] = ys[i]
<1>1. n <= m /\ m <= n
  BY ListsWithin
<1> QED
  BY <1>1, ListsWithin

-----------------------------------------------------------------------------
(* Vectors. *)

(* A buffer tells which vector of which object it was allocated for.       *)
LEMMA FreshBuffer ==
  ASSUME NEW o, NEW s PROVE Fresh(o, s) # Null /\ Fresh(o, s)[2] = s
<1>1. \E n : Fresh(o, s) = <<o, s, n>>
  BY Zenon DEF Fresh
<1> QED
  BY <1>1 DEF Null

LEMMA LaterVector ==
  ASSUME NEW v, NEW n \in Nat, NEW m \in Nat, n <= m, VectorInv(v, n) PROVE VectorInv(v, m)
<1>1. Len(v.elems) \in Nat
  BY LenProperties DEF VectorInv, IsVec
<1> QED
  BY <1>1 DEF VectorInv

LEMMA NewVector ==
  ASSUME NEW n \in Nat
  PROVE  /\ VectorInv(NoVec, n)
         /\ NoVec.cap = 0 /\ NoVec.buf = Null
         /\ Whole(NoVec, {})
BY EmptySeq, ListsNothing DEF NoVec, VectorInv, IsVector, IsVec, Whole

LEMMA ClearedVectorInv ==
  ASSUME NEW v, NEW n \in Nat, NEW m \in Nat, VectorInv(v, n)
  PROVE  /\ VectorInv(Cleared(v), m) /\ Whole(Cleared(v), {})
         /\ Cleared(v).buf = v.buf /\ Cleared(v).cap = v.cap
<1>1. Cleared(v) = [buf |-> v.buf, cap |-> v.cap, elems |-> <<>>]
  BY DEF Cleared, VectorInv, IsVector
<1> QED
  BY <1>1, EmptySeq, ListsNothing DEF VectorInv, IsVector, IsVec, Whole

LEMMA PushedVector ==
  ASSUME NEW n \in Nat, n < MaxCalls, NEW v, VectorInv(v, n), NEW x \in Nat, NEW fresh
  PROVE  /\ VectorInv(PushBack(v, x, fresh), n + 1)
         /\ PushBack(v, x, fresh).elems = Append(v.elems, x)
         /\ PushBack(v, x, fresh).cap > 0
         /\ PushBack(v, x, fresh).buf = IF Len(v.elems) < v.cap THEN v.buf ELSE fresh
<1> DEFINE l == Len(v.elems)
           ys == Append(v.elems, x)
<1>1. l \in Nat /\ v.cap \in Nat /\ l <= v.cap /\ l <= n /\ v.elems \in Seq(Nat)
  BY LenProperties DEF VectorInv, IsVec
<1>2. ys \in Seq(Nat) /\ Len(ys) = l + 1
  BY <1>1, AppendProperties
<1>3. Grow(l) \in Nat /\ Grow(l) > l
  <2>1. l \in 0 .. MaxCalls
    BY <1>1, MaxCallsAssumption
  <2> HIDE DEF l
  <2> QED
    BY <2>1, GrowAssumption
<1>4. v = [buf |-> v.buf, cap |-> v.cap, elems |-> v.elems]
  BY DEF VectorInv, IsVector
<1>5. PushBack(v, x, fresh) = IF l < v.cap THEN [buf |-> v.buf, cap |-> v.cap, elems |-> ys]
                              ELSE [buf |-> fresh, cap |-> Grow(l), elems |-> ys]
  BY <1>4 DEF PushBack
<1> HIDE DEF ys
<1>6. CASE l < v.cap
  <2>1. PushBack(v, x, fresh) = [buf |-> v.buf, cap |-> v.cap, elems |-> ys]
    BY <1>5, <1>6
  <2>2. VectorInv(PushBack(v, x, fresh), n + 1)
    BY <1>1, <1>2, <1>6, <2>1 DEF VectorInv, IsVec, IsVector
  <2> QED
    BY <1>1, <1>6, <2>1, <2>2 DEF ys
<1>7. CASE ~(l < v.cap)
  <2>1. PushBack(v, x, fresh) = [buf |-> fresh, cap |-> Grow(l), elems |-> ys]
    BY <1>5, <1>7
  <2>2. VectorInv(PushBack(v, x, fresh), n + 1)
    BY <1>1, <1>2, <1>3, <1>7, <2>1 DEF VectorInv, IsVec, IsVector
  <2> QED
    BY <1>1, <1>3, <1>7, <2>1, <2>2 DEF ys
<1> QED
  BY <1>6, <1>7

LEMMA CopiedVectorInv ==
  ASSUME NEW n \in Nat, NEW v, VectorInv(v, n), NEW fresh
  PROVE  /\ VectorInv(Copied(v, fresh), n)
         /\ Copied(v, fresh).elems = v.elems
         /\ Copied(v, fresh).cap > 0 => Copied(v, fresh).buf = fresh
         /\ Copied(v, fresh).buf \in {Null, fresh}
<1>1. CASE v.elems = <<>>
  <2>1. Copied(v, fresh) = NoVec
    BY <1>1 DEF Copied
  <2> QED
    BY <1>1, <2>1, NewVector DEF NoVec
<1>2. CASE v.elems # <<>>
  <2>1. Copied(v, fresh) = [buf |-> fresh, cap |-> Len(v.elems), elems |-> v.elems]
    BY <1>2 DEF Copied
  <2>2. v.elems \in Seq(Nat) /\ Len(v.elems) \in Nat /\ Len(v.elems) <= n
    BY LenProperties DEF VectorInv, IsVec
  <2> QED
    BY <2>1, <2>2 DEF VectorInv, IsVec, IsVector
<1> QED
  BY <1>1, <1>2

LEMMA RefilledVector ==
  ASSUME NEW n \in Nat, NEW v, VectorInv(v, n), NEW fresh,
         NEW xs \in Seq(Nat), Len(xs) <= n
  PROVE  /\ VectorInv(Refilled(v, xs, fresh), n)
         /\ Refilled(v, xs, fresh).elems = xs
         /\ Refilled(v, xs, fresh).buf = IF Len(xs) <= v.cap THEN v.buf ELSE fresh
         /\ Len(xs) <= v.cap => Refilled(v, xs, fresh).cap = v.cap
<1>1. v = [buf |-> v.buf, cap |-> v.cap, elems |-> v.elems] /\ v.cap \in Nat
  BY DEF VectorInv, IsVector, IsVec
<1>2. Len(xs) \in Nat
  BY LenProperties
<1>3. CASE Len(xs) <= v.cap
  <2>1. Refilled(v, xs, fresh) = [buf |-> v.buf, cap |-> v.cap, elems |-> xs]
    BY <1>1, <1>3 DEF Refilled
  <2> QED
    BY <1>1, <1>2, <1>3, <2>1 DEF VectorInv, IsVec, IsVector
<1>4. CASE ~(Len(xs) <= v.cap)
  <2>1. Refilled(v, xs, fresh) = [buf |-> fresh, cap |-> Len(xs), elems |-> xs]
    BY <1>4 DEF Refilled
  <2> QED
    BY <1>1, <1>2, <1>4, <2>1 DEF VectorInv, IsVec, IsVector
<1> QED
  BY <1>3, <1>4

-----------------------------------------------------------------------------
(* What each call does to the vectors of an object. *)

LEMMA SlotsOfLists ==
  ASSUME NEW cs \in Seq(Call), NEW f, VectorsInv(f, cs), NEW s \in ListSlot
  PROVE  s[2] \in List /\ Whole(f[s], Queued(cs, s[2]))
BY DEF ListSlot, VectorsInv, List

LEMMA WholeLists ==
  ASSUME NEW cs, NEW f, f = [s \in Slot |-> f[s]],
         \A s \in Slot : VectorInv(f[s], Len(cs)),
         \A s \in Slot : f[s].cap > 0 => f[s].buf # Null /\ f[s].buf[2] = s,
         \A s \in ListSlot : Whole(f[s], Queued(cs, s[2]))
  PROVE  VectorsInv(f, cs)
<1>1. \A k \in EntityList : <<"entity", k>> \in ListSlot /\ <<"entity", k>>[2] = k
  BY DEF ListSlot
<1>2. \A k \in DataList : <<"data", k>> \in ListSlot /\ <<"data", k>>[2] = k
  BY DEF ListSlot
<1> QED
  BY <1>1, <1>2 DEF VectorsInv

(* A push_back of the number of a call to the vectors of its list.         *)
LEMMA PushedVectors ==
  ASSUME NEW cs \in Seq(Call), Len(cs) < MaxCalls, NEW k \in List,
         NEW f, VectorsInv(f, cs), NEW o,
         NEW g, g = [s \in Slot |-> IF s \in {<<"entity", k>>, <<"data", k>>}
                                      THEN PushBack(f[s], Len(cs) + 1, Fresh(o, s)) ELSE f[s]]
  PROVE  VectorsInv(g, Append(cs, k))
<1> DEFINE n == Len(cs)
           ds == Append(cs, k)
           kSlots == {<<"entity", k>>, <<"data", k>>}
<1>1. k \in Call /\ k # "clear"
  BY DEF Call, List, EntityList, DataList
<1>2. n \in Nat /\ Len(ds) = n + 1
  BY <1>1, AppendCalls
<1>3. \A s \in Slot : VectorInv(f[s], n)
  BY DEF VectorsInv
<1>4. \A j : Queued(ds, j) = Queued(cs, j) \cup (IF k = j THEN {n + 1} ELSE {})
  BY <1>1, QueuedAppend
<1>5. n < MaxCalls
  OBVIOUS
<1> HIDE DEF n, ds
<1>6. ASSUME NEW s \in Slot, s \in kSlots
      PROVE  /\ VectorInv(g[s], n + 1) /\ g[s].elems = Append(f[s].elems, n + 1)
             /\ g[s].cap > 0
             /\ g[s].buf = IF Len(f[s].elems) < f[s].cap THEN f[s].buf ELSE Fresh(o, s)
  <2> DEFINE v == f[s]
             fresh == Fresh(o, s)
  <2>1. g[s] = PushBack(v, n + 1, fresh) /\ VectorInv(v, n)
    BY <1>3, <1>6 DEF n
  <2> HIDE DEF v, fresh
  <2> n + 1 \in Nat
    BY <1>2
  <2>2. /\ VectorInv(g[s], n + 1) /\ g[s].elems = Append(v.elems, n + 1)
        /\ g[s].cap > 0
        /\ g[s].buf = IF Len(v.elems) < v.cap THEN v.buf ELSE fresh
    BY <1>2, <1>5, <2>1, PushedVector
  <2> QED
    BY <2>2 DEF v, fresh
<1>7. ASSUME NEW s \in Slot, s \notin kSlots PROVE g[s] = f[s]
  BY <1>7
<1>8. g = [s \in Slot |-> g[s]]
  OBVIOUS
<1>9. \A s \in Slot : VectorInv(g[s], Len(ds))
  <2> SUFFICES ASSUME NEW s \in Slot PROVE VectorInv(g[s], n + 1)
    BY <1>2
  <2>1. CASE s \in kSlots
    BY <1>6, <2>1
  <2>2. CASE s \notin kSlots
    BY <1>2, <1>3, <1>7, <2>2, LaterVector
  <2> QED
    BY <2>1, <2>2
<1>10. \A s \in Slot : g[s].cap > 0 => g[s].buf # Null /\ g[s].buf[2] = s
  <2> SUFFICES ASSUME NEW s \in Slot, g[s].cap > 0 PROVE g[s].buf # Null /\ g[s].buf[2] = s
    OBVIOUS
  <2>1. f[s].cap > 0 => f[s].buf # Null /\ f[s].buf[2] = s
    BY DEF VectorsInv
  <2>2. CASE s \in kSlots /\ Len(f[s].elems) < f[s].cap
    <3>1. Len(f[s].elems) \in Nat /\ f[s].cap \in Nat
      BY <1>3, LenProperties DEF VectorInv, IsVec
    <3> QED
      BY <1>6, <2>1, <2>2, <3>1
  <2>3. CASE s \in kSlots /\ ~(Len(f[s].elems) < f[s].cap)
    BY <1>6, <2>3, FreshBuffer
  <2>4. CASE s \notin kSlots
    BY <1>7, <2>1, <2>4
  <2> QED
    BY <2>2, <2>3, <2>4
<1>11. ASSUME NEW s \in ListSlot PROVE Whole(g[s], Queued(ds, s[2]))
  <2>1. s \in Slot /\ s[2] \in List /\ Whole(f[s], Queued(cs, s[2]))
    BY ListSlots, SlotsOfLists
  <2>2. s \in kSlots <=> s[2] = k
    BY DEF ListSlot
  <2>3. CASE s \in kSlots
    <3> DEFINE xs == f[s].elems
               S == Queued(cs, k)
    <3>1. xs \in Seq(Nat) /\ Lists(xs, Len(xs), S)
      BY <1>3, <2>1, <2>2, <2>3 DEF VectorInv, IsVec, Whole
    <3>2. n + 1 \in Nat /\ \A m \in S : m < n + 1
      BY <1>2 DEF Queued, n
    <3> HIDE DEF xs, S
    <3>3. Lists(Append(xs, n + 1), Len(xs) + 1, S \cup {n + 1})
      BY <3>1, <3>2, ListsAppend
    <3>4. Len(Append(xs, n + 1)) = Len(xs) + 1
      BY <3>1, <3>2, AppendProperties
    <3>5. g[s].elems = Append(xs, n + 1) /\ Queued(ds, s[2]) = S \cup {n + 1}
      BY <1>4, <1>6, <2>1, <2>2, <2>3 DEF xs, S
    <3> QED
      BY <3>3, <3>4, <3>5 DEF Whole
  <2>4. CASE s \notin kSlots
    <3>1. g[s] = f[s] /\ Queued(ds, s[2]) = Queued(cs, s[2])
      BY <1>4, <1>7, <2>1, <2>2, <2>4
    <3> QED
      BY <2>1, <3>1
  <2> QED
    BY <2>3, <2>4
<1> QED
  BY <1>8, <1>9, <1>10, <1>11, WholeLists DEF ds

(* Other calls than clear() leave the vectors as they are.                 *)
LEMMA KeptVectors ==
  ASSUME NEW cs \in Seq(Call), NEW what \in {"create", "build"}, NEW f, VectorsInv(f, cs)
  PROVE  VectorsInv(f, Append(cs, what))
<1>1. what \in Call /\ what # "clear" /\ what \notin List
  BY DEF Call, List, EntityList, DataList
<1>2. Len(cs) \in Nat /\ Len(Append(cs, what)) = Len(cs) + 1
  BY <1>1, AppendCalls
<1>3. \A k \in List : Queued(Append(cs, what), k) = Queued(cs, k)
  <2> SUFFICES ASSUME NEW k \in List PROVE Queued(Append(cs, what), k) = Queued(cs, k)
    OBVIOUS
  <2>1. Queued(Append(cs, what), k) = Queued(cs, k) \cup (IF what = k THEN {Len(cs) + 1} ELSE {})
    BY <1>1, QueuedAppend
  <2> QED
    BY <1>1, <2>1
<1>4. \A s \in Slot : VectorInv(f[s], Len(Append(cs, what)))
  BY <1>2, LaterVector DEF VectorsInv
<1> QED
  BY <1>3, <1>4 DEF VectorsInv, List

LEMMA ClearedVectors ==
  ASSUME NEW cs \in Seq(Call), NEW f, VectorsInv(f, cs),
         NEW g, g = [s \in Slot |-> IF s = <<"create", "placeholder">>
                                      THEN f[s] ELSE Cleared(f[s])]
  PROVE  VectorsInv(g, Append(cs, "clear"))
<1> DEFINE ds == Append(cs, "clear")
<1>1. "clear" \in Call
  BY DEF Call
<1>2. Len(cs) \in Nat /\ Len(ds) = Len(cs) + 1
  BY <1>1, AppendCalls
<1>3. \A s \in Slot : VectorInv(f[s], Len(cs))
  BY DEF VectorsInv
<1>4. \A s \in ListSlot : s \in Slot /\ s # <<"create", "placeholder">>
  BY ListSlots
<1> HIDE DEF ds
<1>5. ASSUME NEW s \in Slot
      PROVE  VectorInv(g[s], Len(ds)) /\ g[s].buf = f[s].buf /\ g[s].cap = f[s].cap
  <2> DEFINE v == f[s]
  <2>1. VectorInv(v, Len(cs)) /\ g[s] = IF s = <<"create", "placeholder">> THEN v ELSE Cleared(v)
    BY <1>3
  <2> HIDE DEF v
  <2>2. Len(ds) \in Nat /\ Len(cs) <= Len(ds)
    BY <1>2
  <2>3. VectorInv(v, Len(ds))
    BY <1>2, <2>1, <2>2, LaterVector
  <2>4. VectorInv(Cleared(v), Len(ds)) /\ Cleared(v).buf = v.buf /\ Cleared(v).cap = v.cap
    BY <1>2, <2>1, <2>2, ClearedVectorInv
  <2>5. VectorInv(g[s], Len(ds)) /\ g[s].buf = v.buf /\ g[s].cap = v.cap
    BY <2>1, <2>3, <2>4
  <2> QED
    BY <2>5 DEF v
<1>6. \A s \in Slot : g[s].cap > 0 => g[s].buf # Null /\ g[s].buf[2] = s
  BY <1>5 DEF VectorsInv
<1>7. ASSUME NEW s \in ListSlot PROVE Whole(g[s], Queued(ds, s[2]))
  <2> DEFINE v == f[s]
  <2>1. g[s] = Cleared(v) /\ VectorInv(v, Len(cs)) /\ Queued(ds, s[2]) = {}
    BY <1>3, <1>4, QueuedClear DEF ds
  <2> HIDE DEF v
  <2> QED
    BY <1>2, <2>1, ClearedVectorInv
<1>8. g = [s \in Slot |-> g[s]]
  OBVIOUS
<1> QED
  BY <1>5, <1>6, <1>7, <1>8, WholeLists DEF ds

LEMMA CopiedVectors ==
  ASSUME NEW cs \in Seq(Call), NEW f, VectorsInv(f, cs), NEW o,
         NEW g, g = [s \in Slot |-> Copied(f[s], Fresh(o, s))]
  PROVE  VectorsInv(g, cs)
<1>1. Len(cs) \in Nat
  BY LenProperties
<1>2. ASSUME NEW s \in Slot
      PROVE  /\ VectorInv(g[s], Len(cs)) /\ g[s].elems = f[s].elems
             /\ g[s].cap > 0 => g[s].buf = Fresh(o, s)
  <2> DEFINE v == f[s]
             fresh == Fresh(o, s)
             n == Len(cs)
  <2>1. g[s] = Copied(v, fresh) /\ VectorInv(v, n)
    BY DEF VectorsInv
  <2>2. n \in Nat
    BY <1>1
  <2> HIDE DEF v, fresh, n
  <2>3. /\ VectorInv(Copied(v, fresh), n) /\ Copied(v, fresh).elems = v.elems
        /\ Copied(v, fresh).cap > 0 => Copied(v, fresh).buf = fresh
    BY <2>1, <2>2, CopiedVectorInv
  <2>4. VectorInv(g[s], n) /\ g[s].elems = v.elems /\ (g[s].cap > 0 => g[s].buf = fresh)
    BY <2>1, <2>3
  <2> QED
    BY <2>4 DEF v, fresh, n
<1>3. ASSUME NEW s \in Slot, g[s].cap > 0 PROVE g[s].buf # Null /\ g[s].buf[2] = s
  <2>1. g[s].buf = Fresh(o, s)
    BY <1>2, <1>3
  <2> QED
    BY <2>1, FreshBuffer
<1>4. ASSUME NEW s \in ListSlot PROVE Whole(g[s], Queued(cs, s[2]))
  <2>1. s \in Slot /\ Whole(f[s], Queued(cs, s[2]))
    BY ListSlots, SlotsOfLists
  <2> QED
    BY <1>2, <2>1 DEF Whole
<1>5. g = [s \in Slot |-> g[s]]
  OBVIOUS
<1>6. \A s \in Slot : VectorInv(g[s], Len(cs))
  BY <1>2
<1> HIDE DEF VectorInv
<1> QED
  BY <1>3, <1>4, <1>5, <1>6, WholeLists, Zenon

(* The vectors of an object on which nothing was queued.                   *)
LEMMA NewVectors ==
  ASSUME NEW cs \in Seq(Call), \A k \in List : Queued(cs, k) = {},
         NEW f, f = [s \in Slot |-> NoVec]
  PROVE  VectorsInv(f, cs)
<1>1. Len(cs) \in Nat
  BY LenProperties
<1>2. \A s \in Slot : f[s] = NoVec
  OBVIOUS
<1>3. /\ VectorInv(NoVec, Len(cs))
      /\ NoVec.cap = 0 /\ Whole(NoVec, {})
  BY <1>1, NewVector
<1>4. \A s \in ListSlot : s \in Slot /\ s[2] \in List
  BY ListSlots DEF ListSlot, List
<1>5. f = [s \in Slot |-> f[s]]
  BY <1>2
<1>6. \A s \in Slot : VectorInv(f[s], Len(cs)) /\ ~(f[s].cap > 0)
  BY <1>2, <1>3
<1>7. \A s \in ListSlot : Whole(f[s], Queued(cs, s[2]))
  BY <1>2, <1>3, <1>4
<1> QED
  BY <1>5, <1>6, <1>7, WholeLists

-----------------------------------------------------------------------------
(* What each call does to the builders of an object. *)

LEMMA AppendSequence ==
  ASSUME NEW c, Sequence(c), NEW b
  PROVE  /\ Sequence(Append(c, b))
         /\ Len(c) \in Nat /\ Len(Append(c, b)) = Len(c) + 1
         /\ \A i \in 1 .. Len(c) : Append(c, b)[i] = c[i]
         /\ Append(c, b)[Len(c) + 1] = b
<1> DEFINE T == {c[i] : i \in DOMAIN c}
           d == Append(c, b)
<1>1. c \in Seq(T \cup {b})
  <2>1. c \in Seq(T)
    BY DEF Sequence
  <2> HIDE DEF T
  <2> QED
    BY <2>1, SeqMonotonic
<1>2. /\ d \in Seq(T \cup {b}) /\ Len(d) = Len(c) + 1
      /\ \A i \in 1 .. Len(c) : d[i] = c[i]
      /\ d[Len(c) + 1] = b
      /\ Len(c) \in Nat
  <2> HIDE DEF T
  <2> QED
    BY <1>1, AppendProperties, LenProperties
<1>3. DOMAIN d = 1 .. Len(d)
  BY <1>2, LenProperties
<1>4. DOMAIN c = 1 .. Len(c)
  BY <1>1, LenProperties
<1> HIDE DEF d
<1>5. d \in Seq({d[i] : i \in DOMAIN d})
  <2>1. T \cup {b} \subseteq {d[i] : i \in DOMAIN d}
    <3>1. \A i \in 1 .. Len(c) : i \in DOMAIN d /\ d[i] = c[i]
      BY <1>2, <1>3
    <3>2. Len(c) + 1 \in DOMAIN d /\ d[Len(c) + 1] = b
      BY <1>2, <1>3
    <3> QED
      BY <1>4, <3>1, <3>2
  <2> HIDE DEF T
  <2> QED
    BY <1>2, <2>1, SeqMonotonic
<1> QED
  BY <1>2, <1>5 DEF Sequence, d

LEMMA EmptySequence == Sequence(<<>>) /\ Len(<<>>) = 0
BY EmptySeq DEF Sequence

(* A function on 1 .. n is a sequence.                                     *)
LEMMA FunctionSequence ==
  ASSUME NEW n \in Nat, NEW g, g = [i \in 1 .. n |-> g[i]]
  PROVE  Sequence(g) /\ Len(g) = n
<1> DEFINE T == {g[i] : i \in DOMAIN g}
<1>1. DOMAIN g = 1 .. n
  OBVIOUS
<1>2. g \in [1 .. n -> T]
  BY <1>1
<1>3. g \in Seq(T)
  <2> HIDE DEF T
  <2> QED
    BY <1>2, SeqDef
<1> QED
  BY <1>1, <1>3, LenProperties DEF Sequence

LEMMA SequenceFunction ==
  ASSUME NEW c, Sequence(c)
  PROVE  Len(c) \in Nat /\ c = [i \in 1 .. Len(c) |-> c[i]] /\ DOMAIN c = 1 .. Len(c)
<1> DEFINE T == {c[i] : i \in DOMAIN c}
<1>1. c \in Seq(T)
  BY DEF Sequence
<1> HIDE DEF T
<1> QED
  BY <1>1, LenProperties

LEMMA PlaceholderNumbers ==
  ASSUME NEW cs \in Seq(Call), NEW c, BuildersInv(c, cs), NEW i \in 1 .. Len(c)
  PROVE  /\ c[i].placeholder \in Queued(cs, "create")
         /\ c[i].placeholder \in 1 .. Len(cs)
         /\ BuilderInv(c[i], cs)
<1>1. Placeholders(c)[i] = c[i].placeholder
  BY DEF Placeholders
<1>2. Placeholders(c)[i] \in Queued(cs, "create")
  BY DEF BuildersInv, Lists
<1> QED
  BY <1>1, <1>2 DEF BuildersInv, Queued

LEMMA NewBuilders ==
  ASSUME NEW cs \in Seq(Call), Queued(cs, "create") = {}
  PROVE  BuildersInv(<<>>, cs)
<1>1. Len(cs) \in Nat
  BY LenProperties
<1>2. Placeholders(<<>>) = <<>>
  BY EmptySequence DEF Placeholders
<1> QED
  BY <1>1, <1>2, EmptySequence, ListsNothing DEF BuildersInv

(* A builder after a call that adds no component to it.                    *)
LEMMA KeptBuilder ==
  ASSUME NEW cs \in Seq(Call), NEW what \in Call, NEW b, BuilderInv(b, cs),
         Built(Append(cs, what), b.placeholder) = Built(cs, b.placeholder)
  PROVE  BuilderInv(b, Append(cs, what))
<1>1. Len(cs) \in Nat /\ Len(Append(cs, what)) = Len(cs) + 1
  BY AppendCalls
<1>2. VectorInv(b.components, Len(Append(cs, what)))
  BY <1>1, LaterVector DEF BuilderInv
<1> QED
  BY <1>2 DEF BuilderInv

LEMMA KeptBuilders ==
  ASSUME NEW cs \in Seq(Call), NEW k \in List, NEW c, BuildersInv(c, cs)
  PROVE  BuildersInv(c, Append(cs, k))
<1>1. k \in Call /\ k \notin {"clear", "create", "build"}
  BY DEF Call, List, EntityList, DataList
<1>2. Len(cs) \in Nat /\ Len(Append(cs, k)) = Len(cs) + 1 /\ Len(c) \in Nat
  BY <1>1, AppendCalls, SequenceFunction DEF BuildersInv
<1>3. Queued(Append(cs, k), "create") = Queued(cs, "create")
  <2>1. Queued(Append(cs, k), "create") =
          Queued(cs, "create") \cup (IF k = "create" THEN {Len(cs) + 1} ELSE {})
    BY <1>1, QueuedAppend
  <2> QED
    BY <1>1, <2>1
<1>4. ASSUME NEW i \in 1 .. Len(c) PROVE BuilderInv(c[i], Append(cs, k))
  <2>1. c[i].placeholder \in Nat /\ BuilderInv(c[i], cs)
    BY PlaceholderNumbers
  <2>2. Built(Append(cs, k), c[i].placeholder) = Built(cs, c[i].placeholder)
    BY <1>1, <2>1, BuiltAppend
  <2> QED
    BY <1>1, <2>1, <2>2, KeptBuilder
<1> QED
  BY <1>2, <1>3, <1>4 DEF BuildersInv

LEMMA AnotherBuilder ==
  ASSUME NEW cs \in Seq(Call), NEW c, BuildersInv(c, cs)
  PROVE  BuildersInv(Append(c, [placeholder |-> Len(cs) + 1, components |-> NoVec]),
                     Append(cs, "create"))
<1> DEFINE n == Len(cs)
           l == Len(c)
           b == [placeholder |-> n + 1, components |-> NoVec]
           d == Append(c, b)
           ds == Append(cs, "create")
<1>1. "create" \in Call /\ "create" \notin {"clear", "build"}
  BY DEF Call
<1>2. n \in Nat /\ Len(ds) = n + 1 /\ ds \in Seq(Call)
  BY <1>1, AppendCalls
<1>3. /\ Sequence(c) /\ l <= n /\ Lists(Placeholders(c), l, Queued(cs, "create"))
      /\ \A i \in 1 .. l : BuilderInv(c[i], cs)
  BY DEF BuildersInv
<1>4. /\ Sequence(d) /\ l \in Nat /\ Len(d) = l + 1
      /\ \A i \in 1 .. l : d[i] = c[i]
      /\ d[l + 1] = b
  BY <1>3, AppendSequence
<1>5. Queued(ds, "create") = Queued(cs, "create") \cup {n + 1}
  BY <1>1, QueuedAppend
<1>6. ASSUME NEW i \in 1 .. l PROVE BuilderInv(d[i], ds)
  <2>1. c[i].placeholder \in Nat /\ BuilderInv(c[i], cs) /\ d[i] = c[i]
    BY <1>4, PlaceholderNumbers
  <2>2. Built(ds, c[i].placeholder) = Built(cs, c[i].placeholder)
    BY <1>1, <2>1, BuiltAppend
  <2> QED
    BY <1>1, <2>1, <2>2, KeptBuilder
<1>7. BuilderInv(b, ds)
  <2>1. b = [placeholder |-> b.placeholder, components |-> b.components]
    OBVIOUS
  <2>2. Built(ds, n + 1) = {}
    <3>1. Queued(ds, "build") \subseteq 1 .. n + 1
      BY <1>2 DEF Queued
    <3> HIDE DEF ds, n
    <3> QED
      BY <1>2, <3>1 DEF Built
  <2>3. /\ VectorInv(NoVec, n + 1) /\ NoVec.cap = 0 /\ NoVec.buf = Null /\ Whole(NoVec, {})
    BY <1>2, NewVector
  <2>4. b.placeholder = n + 1 /\ b.components = NoVec
    OBVIOUS
  <2> HIDE DEF b, ds, n
  <2>5. VectorInv(b.components, Len(ds)) /\ Whole(b.components, Built(ds, b.placeholder))
    BY <1>2, <2>2, <2>3, <2>4
  <2>6. b.components.buf = Null /\ ~(b.components.cap > 0)
    BY <2>3, <2>4
  <2> QED
    BY <2>1, <2>5, <2>6, Zenon DEF BuilderInv
<1>8. Lists(Placeholders(d), l + 1, Queued(ds, "create"))
  <2> DEFINE ps == Placeholders(c)
             qs == Placeholders(d)
             S == Queued(cs, "create")
  <2>1. /\ \A i \in 1 .. l : qs[i] = ps[i]
        /\ qs[l + 1] = n + 1
        /\ Len(qs) = l + 1
    <3>1. qs = [i \in 1 .. l + 1 |-> d[i].placeholder]
      BY <1>4 DEF Placeholders
    <3>2. ps = [i \in 1 .. l |-> c[i].placeholder]
      BY DEF Placeholders
    <3>3. Len(qs) = l + 1
      <4>1. qs = [i \in 1 .. l + 1 |-> qs[i]]
        BY <3>1
      <4> HIDE DEF qs
      <4>2. l + 1 \in Nat
        BY <1>4
      <4> QED
        BY <4>1, <4>2, FunctionSequence
    <3>4. b.placeholder = n + 1
      OBVIOUS
    <3> HIDE DEF qs, ps, d, b, l
    <3>5. \A i \in 1 .. l : i \in 1 .. l + 1 /\ qs[i] = ps[i]
      BY <1>4, <3>1, <3>2
    <3>6. l + 1 \in 1 .. l + 1
      BY <1>4
    <3> QED
      BY <1>4, <3>1, <3>3, <3>4, <3>5, <3>6
  <2>2. /\ l <= Len(ps) /\ S = {ps[i] : i \in 1 .. l}
        /\ \A i, j \in 1 .. l : i < j => ps[i] < ps[j]
    BY <1>3 DEF Lists
  <2>3. S \subseteq 1 .. n
    BY DEF Queued
  <2> HIDE DEF qs, ps, S, d, l, n, ds, b
  <2>4. \A i \in 1 .. l + 1 : i \in 1 .. l \/ i = l + 1
    BY <1>4
  <2>5. 1 .. l \subseteq 1 .. l + 1 /\ l + 1 \in 1 .. l + 1
    BY <1>4
  <2>6. S \cup {n + 1} = {qs[i] : i \in 1 .. l + 1}
    BY <2>1, <2>2, <2>4, <2>5
  <2>7. ASSUME NEW i \in 1 .. l + 1, NEW j \in 1 .. l + 1, i < j PROVE qs[i] < qs[j]
    <3>1. i \in 1 .. l
      BY <1>4, <2>7
    <3>2. CASE j = l + 1
      <4>1. qs[i] \in 1 .. n
        BY <2>1, <2>2, <2>3, <3>1
      <4> QED
        BY <1>2, <2>1, <3>2, <4>1
    <3>3. CASE j # l + 1
      BY <2>1, <2>2, <2>4, <2>7, <3>1, <3>3
    <3> QED
      BY <3>2, <3>3
  <2>8. Lists(qs, l + 1, S \cup {n + 1})
    BY <1>4, <2>1, <2>6, <2>7 DEF Lists
  <2> QED
    BY <1>5, <2>8 DEF qs, S
<1> HIDE DEF n, l, b, d, ds
<1>9. \A i \in 1 .. l + 1 : BuilderInv(d[i], ds)
  <2>1. \A i \in 1 .. l + 1 : i \in 1 .. l \/ i = l + 1
    BY <1>4
  <2> QED
    BY <1>4, <1>6, <1>7, <2>1
<1>10. BuildersInv(d, ds)
  BY <1>2, <1>3, <1>4, <1>8, <1>9 DEF BuildersInv
<1> QED
  BY <1>10 DEF n, b, d, ds

(* add_component on the builder created last.                              *)
LEMMA BuiltUpon ==
  ASSUME NEW cs \in Seq(Call), Len(cs) < MaxCalls, NEW c, BuildersInv(c, cs), c # <<>>,
         NEW o, NEW d,
         d = [c EXCEPT ![Len(c)].components =
                PushBack(@, Len(cs) + 1, Fresh(o, <<"builder", Len(c)>>))]
  PROVE  BuildersInv(d, Append(cs, "build"))
<1> DEFINE n == Len(cs)
           l == Len(c)
           ds == Append(cs, "build")
           fresh == Fresh(o, <<"builder", l>>)
           last == c[l]
           v == PushBack(last.components, n + 1, fresh)
<1>1. "build" \in Call /\ "build" # "clear" /\ "build" # "create"
  BY DEF Call
<1>2. n \in Nat /\ Len(ds) = n + 1 /\ ds \in Seq(Call)
  BY <1>1, AppendCalls
<1>3. /\ Sequence(c) /\ l <= n /\ Lists(Placeholders(c), l, Queued(cs, "create"))
      /\ \A i \in 1 .. l : BuilderInv(c[i], cs)
  BY DEF BuildersInv
<1>4. l \in Nat /\ c = [i \in 1 .. l |-> c[i]] /\ DOMAIN c = 1 .. l /\ l \in 1 .. l
  <2>1. l \in Nat /\ c = [i \in 1 .. l |-> c[i]] /\ DOMAIN c = 1 .. l
    BY <1>3, SequenceFunction
  <2>2. l # 0
    <3> DEFINE T == {c[i] : i \in DOMAIN c}
    <3>1. c \in Seq(T)
      BY <1>3 DEF Sequence
    <3> HIDE DEF T
    <3> QED
      BY <3>1, EmptySeq
  <2> QED
    BY <2>1, <2>2
<1>5. last = [placeholder |-> last.placeholder, components |-> last.components]
  BY <1>3, <1>4 DEF BuilderInv
<1>6. d = [i \in 1 .. l |-> IF i = l THEN [last EXCEPT !.components = v] ELSE c[i]]
  BY <1>4
<1>7. [last EXCEPT !.components = v] = [placeholder |-> last.placeholder, components |-> v]
  <2> HIDE DEF v, last
  <2> QED
    BY <1>5
<1>8. Sequence(d) /\ Len(d) = l
  <2>1. d = [i \in 1 .. l |-> d[i]]
    <3> HIDE DEF v, last
    <3> QED
      BY <1>6
  <2> HIDE DEF l, v, last
  <2> QED
    BY <1>4, <2>1, FunctionSequence
<1>9. d[l] = [placeholder |-> last.placeholder, components |-> v]
      /\ \A i \in 1 .. l : i # l => d[i] = c[i]
  <2> HIDE DEF v, last, l
  <2> QED
    BY <1>4, <1>6, <1>7
<1>10. Placeholders(d) = Placeholders(c)
  <2>1. \A i \in 1 .. l : d[i].placeholder = c[i].placeholder
    <3>1. d[l].placeholder = last.placeholder
      BY <1>9
    <3> QED
      BY <1>9, <3>1
  <2> HIDE DEF l, last, v
  <2> QED
    BY <1>8, <2>1 DEF Placeholders, l
<1>11. Queued(ds, "create") = Queued(cs, "create")
  <2>1. Queued(ds, "create") = Queued(cs, "create") \cup (IF "build" = "create" THEN {n + 1} ELSE {})
    BY <1>1, QueuedAppend
  <2> QED
    BY <1>1, <2>1
<1>12. \A i \in 1 .. l : /\ c[i].placeholder \in 1 .. n
                         /\ c[i].placeholder \in Queued(cs, "create")
  BY PlaceholderNumbers
<1>13. \A i, j \in 1 .. l : i < j => c[i].placeholder < c[j].placeholder
  BY <1>3 DEF Lists, Placeholders
<1>14. ASSUME NEW i \in 1 .. l, i # l PROVE BuilderInv(d[i], ds)
  <2> DEFINE p == c[i].placeholder
             q == c[l].placeholder
  <2>1. p < q /\ q \in 1 .. n /\ p \in 1 .. n /\ cs[q] = "create"
    BY <1>4, <1>12, <1>13, <1>14 DEF Queued
  <2>2. Built(ds, p) = Built(cs, p)
    <3>1. Built(ds, p) = Built(cs, p) \cup (IF \A j \in p + 1 .. n : cs[j] # "create"
                                             THEN {n + 1} ELSE {})
      BY <2>1, BuiltBuild
    <3>2. q \in p + 1 .. n
      BY <1>2, <2>1
    <3> HIDE DEF p, q, n, ds
    <3> QED
      BY <2>1, <3>1, <3>2
  <2>3. d[i] = c[i] /\ BuilderInv(c[i], cs)
    BY <1>3, <1>9, <1>14
  <2> QED
    BY <1>1, <2>2, <2>3, KeptBuilder
<1>15. BuilderInv(d[l], ds)
  <2> DEFINE p == last.placeholder
             w == last.components
             b == [placeholder |-> p, components |-> v]
  <2>1. /\ VectorInv(w, n) /\ Whole(w, Built(cs, p))
        /\ w.buf # Null => w.buf[2][1] = "builder"
        /\ w.cap > 0 => w.buf # Null
    BY <1>3, <1>4 DEF BuilderInv
  <2>2. p \in 1 .. n /\ \A j \in p + 1 .. n : cs[j] # "create"
    <3>1. p \in 1 .. n /\ p \in Queued(cs, "create")
      BY <1>4, <1>12
    <3>2. ASSUME NEW j \in p + 1 .. n, cs[j] = "create" PROVE FALSE
      <4>1. j \in 1 .. n /\ \A m \in p .. n : cs[m] # "clear"
        BY <1>2, <3>1, <3>2 DEF Queued
      <4>2. \A m \in j .. n : cs[m] # "clear"
        BY <1>2, <3>1, <3>2, <4>1
      <4>3. j \in Queued(cs, "create")
        BY <3>2, <4>1, <4>2 DEF Queued
      <4>4. PICK i \in 1 .. l : c[i].placeholder = j
        BY <1>3, <4>3 DEF Lists, Placeholders
      <4>5. i = l \/ c[i].placeholder < p
        BY <1>4, <1>13, <4>4
      <4> HIDE DEF n, l
      <4> QED
        BY <1>12, <3>1, <3>2, <4>4, <4>5
    <3> QED
      BY <3>1, <3>2
  <2>3. Built(ds, p) = Built(cs, p) \cup {n + 1}
    <3>1. Built(ds, p) = Built(cs, p) \cup (IF \A j \in p + 1 .. n : cs[j] # "create"
                                             THEN {n + 1} ELSE {})
      BY <2>2, BuiltBuild
    <3> HIDE DEF p, n, ds
    <3> QED
      BY <2>2, <3>1
  <2>4. /\ VectorInv(v, n + 1) /\ v.elems = Append(w.elems, n + 1) /\ v.cap > 0
        /\ v.buf = IF Len(w.elems) < w.cap THEN w.buf ELSE fresh
    <3>1. n < MaxCalls /\ n + 1 \in Nat
      BY <1>2
    <3> HIDE DEF n, w, fresh
    <3> QED
      BY <1>2, <2>1, <3>1, PushedVector DEF w
  <2>5. Whole(v, Built(ds, p))
    <3> DEFINE xs == w.elems
               S == Built(cs, p)
    <3>1. xs \in Seq(Nat) /\ Lists(xs, Len(xs), S)
      BY <2>1 DEF VectorInv, IsVec, Whole
    <3>2. n + 1 \in Nat /\ \A m \in S : m < n + 1
      BY <1>2 DEF Built, Queued
    <3> HIDE DEF xs, S, v, n, ds, p
    <3>3. Lists(Append(xs, n + 1), Len(xs) + 1, S \cup {n + 1})
      BY <3>1, <3>2, ListsAppend
    <3>4. Len(Append(xs, n + 1)) = Len(xs) + 1
      BY <3>1, <3>2, AppendProperties
    <3>5. v.elems = Append(xs, n + 1) /\ Built(ds, p) = S \cup {n + 1}
      BY <2>3, <2>4 DEF xs, S
    <3> QED
      BY <3>3, <3>4, <3>5 DEF Whole
  <2>6. v.buf # Null /\ v.buf[2][1] = "builder"
    <3>1. CASE Len(w.elems) < w.cap
      <4>1. Len(w.elems) \in Nat /\ w.cap \in Nat
        BY <2>1, LenProperties DEF VectorInv, IsVec
      <4>2. v.buf = w.buf /\ w.cap > 0
        BY <2>4, <3>1, <4>1
      <4> HIDE DEF v, w
      <4> QED
        BY <2>1, <4>2
    <3>2. CASE ~(Len(w.elems) < w.cap)
      <4>1. fresh # Null /\ fresh[2] = <<"builder", l>>
        BY FreshBuffer
      <4>2. v.buf = fresh
        BY <2>4, <3>2
      <4> HIDE DEF v, fresh
      <4> QED
        BY <4>1, <4>2
    <3> QED
      BY <3>1, <3>2
  <2>7. b = [placeholder |-> b.placeholder, components |-> b.components]
        /\ b.placeholder = p /\ b.components = v
    OBVIOUS
  <2>8. d[l] = b
    BY <1>9
  <2> HIDE DEF v, b, p, ds, n
  <2>9. VectorInv(b.components, Len(ds)) /\ Whole(b.components, Built(ds, b.placeholder))
    BY <1>2, <2>4, <2>5, <2>7
  <2>10. BuilderInv(b, ds)
    BY <2>6, <2>7, <2>9, Zenon DEF BuilderInv
  <2> QED
    BY <2>8, <2>10
<1>16. \A i \in 1 .. l : BuilderInv(d[i], ds)
  BY <1>14, <1>15
<1>17. Lists(Placeholders(d), Len(d), Queued(ds, "create"))
  BY <1>3, <1>8, <1>10, <1>11
<1> HIDE DEF n, l, ds, v, last, fresh
<1>18. Len(d) <= Len(ds)
  BY <1>2, <1>3, <1>4, <1>8
<1>19. BuildersInv(d, ds)
  BY <1>8, <1>16, <1>17, <1>18, Zenon DEF BuildersInv
<1> QED
  BY <1>19 DEF ds

LEMMA ClearedBuilders ==
  ASSUME NEW cs \in Seq(Call) PROVE BuildersInv(<<>>, Append(cs, "clear"))
<1>1. "clear" \in Call
  BY DEF Call
<1>2. Append(cs, "clear") \in Seq(Call) /\ Queued(Append(cs, "clear"), "create") = {}
  BY <1>1, AppendCalls, QueuedClear
<1> QED
  BY <1>2, NewBuilders

(* The copies of the builders have buffers of their own.                   *)
LEMMA CopiedBuilders ==
  ASSUME NEW cs \in Seq(Call), NEW c, BuildersInv(c, cs), NEW o, NEW d,
         d = [i \in DOMAIN c |->
                [c[i] EXCEPT !.components = Copied(@, Fresh(o, <<"builder", i>>))]]
  PROVE  BuildersInv(d, cs)
<1> DEFINE l == Len(c)
           n == Len(cs)
           v(i) == Copied(c[i].components, Fresh(o, <<"builder", i>>))
<1>1. n \in Nat /\ l \in Nat /\ DOMAIN c = 1 .. l
  BY SequenceFunction, LenProperties DEF BuildersInv
<1>2. ASSUME NEW i \in 1 .. l
      PROVE  d[i] = [placeholder |-> c[i].placeholder, components |-> v(i)]
  <2> DEFINE b == c[i]
             x == v(i)
  <2>1. d[i] = [b EXCEPT !.components = x]
    BY <1>1
  <2>2. b = [placeholder |-> b.placeholder, components |-> b.components]
    BY DEF BuildersInv, BuilderInv
  <2> HIDE DEF b, x
  <2>3. d[i] = [placeholder |-> b.placeholder, components |-> x]
    BY <2>1, <2>2
  <2> QED
    BY <2>3 DEF b, x
<1>3. Sequence(d) /\ Len(d) = l
  <2>1. d = [i \in 1 .. l |-> d[i]]
    BY <1>1
  <2> HIDE DEF l
  <2> QED
    BY <1>1, <2>1, FunctionSequence
<1>4. Placeholders(d) = Placeholders(c)
  <2>1. \A i \in 1 .. l : d[i].placeholder = c[i].placeholder
    BY <1>2
  <2> QED
    BY <1>3, <2>1 DEF Placeholders
<1>5. ASSUME NEW i \in 1 .. l PROVE BuilderInv(d[i], cs)
  <2> DEFINE p == c[i].placeholder
             w == c[i].components
             fresh == Fresh(o, <<"builder", i>>)
             x == Copied(w, fresh)
             b == d[i]
  <2>1. VectorInv(w, n) /\ Whole(w, Built(cs, p))
    BY DEF BuildersInv, BuilderInv
  <2>2. fresh # Null /\ fresh[2] = <<"builder", i>>
    BY FreshBuffer
  <2>3. b = [placeholder |-> p, components |-> x]
    BY <1>2
  <2>4. /\ VectorInv(x, n) /\ x.elems = w.elems
        /\ x.cap > 0 => x.buf = fresh
        /\ x.buf \in {Null, fresh}
    <3> HIDE DEF w, fresh, n
    <3> QED
      BY <1>1, <2>1, CopiedVectorInv
  <2> HIDE DEF p, w, fresh, x, b
  <2>5. b.placeholder = p /\ b.components = x
        /\ b = [placeholder |-> b.placeholder, components |-> b.components]
    BY <2>3
  <2>6. (x.buf # Null => x.buf[2][1] = "builder") /\ (x.cap > 0 => x.buf # Null)
    BY <2>2, <2>4
  <2>7. Whole(x, Built(cs, p))
    BY <2>1, <2>4 DEF Whole
  <2>8. BuilderInv(b, cs)
    BY <2>4, <2>5, <2>6, <2>7, Zenon DEF BuilderInv
  <2> QED
    BY <2>8 DEF b
<1> QED
  BY <1>3, <1>4, <1>5 DEF BuildersInv

-----------------------------------------------------------------------------
(* entities_components. *)

LEMMA NewPointers == PointersInv(NoVec)
<1>1. Len(<<>>) = 0 /\ Sequence(<<>>)
  BY EmptySequence
<1> QED
  BY <1>1 DEF PointersInv, NoVec, IsVector

LEMMA ClearedPointers ==
  ASSUME NEW v, PointersInv(v) PROVE PointersInv(Cleared(v))
<1>1. Cleared(v) = [buf |-> v.buf, cap |-> v.cap, elems |-> <<>>] /\ v.cap \in Nat
  BY DEF Cleared, PointersInv, IsVector
<1>2. Len(<<>>) = 0 /\ Sequence(<<>>)
  BY EmptySequence
<1> QED
  BY <1>1, <1>2 DEF PointersInv, IsVector

LEMMA CopiedPointers ==
  ASSUME NEW v, PointersInv(v), NEW fresh PROVE PointersInv(Copied(v, fresh))
<1>1. CASE v.elems = <<>>
  BY <1>1, NewPointers DEF Copied
<1>2. CASE v.elems # <<>>
  <2>1. Copied(v, fresh) = [buf |-> fresh, cap |-> Len(v.elems), elems |-> v.elems]
    BY <1>2 DEF Copied
  <2>2. Len(v.elems) \in Nat
    BY SequenceFunction DEF PointersInv
  <2> QED
    BY <2>1, <2>2 DEF PointersInv, IsVector
<1> QED
  BY <1>1, <1>2

LEMMA RefilledPointers ==
  ASSUME NEW v, PointersInv(v), NEW fresh, NEW xs, Sequence(xs),
         \A i \in 1 .. Len(xs) : xs[i] # Null => xs[i][2][1] = "builder"
  PROVE  /\ PointersInv(Refilled(v, xs, fresh))
         /\ Refilled(v, xs, fresh).elems = xs
         /\ Refilled(v, xs, fresh).buf = IF Len(xs) <= v.cap THEN v.buf ELSE fresh
<1>1. v = [buf |-> v.buf, cap |-> v.cap, elems |-> v.elems] /\ v.cap \in Nat
  BY DEF PointersInv, IsVector
<1>2. Len(xs) \in Nat
  BY SequenceFunction
<1>3. CASE Len(xs) <= v.cap
  <2>1. Refilled(v, xs, fresh) = [buf |-> v.buf, cap |-> v.cap, elems |-> xs]
    BY <1>1, <1>3 DEF Refilled
  <2> QED
    BY <1>1, <1>2, <1>3, <2>1 DEF PointersInv, IsVector
<1>4. CASE ~(Len(xs) <= v.cap)
  <2>1. Refilled(v, xs, fresh) = [buf |-> fresh, cap |-> Len(xs), elems |-> xs]
    BY <1>4 DEF Refilled
  <2> QED
    BY <1>1, <1>2, <1>4, <2>1 DEF PointersInv, IsVector
<1> QED
  BY <1>3, <1>4

(* What c() collects.                                                      *)
LEMMA Collected ==
  ASSUME NEW cs \in Seq(Call), NEW c, BuildersInv(c, cs)
  PROVE  /\ Len(c) \in Nat /\ Len(c) <= Len(cs)
         /\ Placeholders(c) \in Seq(Nat) /\ Len(Placeholders(c)) = Len(c)
         /\ Lengths(c) \in Seq(Nat) /\ Len(Lengths(c)) = Len(c)
         /\ Sequence(Addresses(c)) /\ Len(Addresses(c)) = Len(c)
         /\ \A i \in 1 .. Len(c) : Addresses(c)[i] # Null => Addresses(c)[i][2][1] = "builder"
<1> DEFINE l == Len(c)
<1>1. l \in Nat /\ l <= Len(cs)
  BY SequenceFunction DEF BuildersInv
<1>2. \A i \in 1 .. l : c[i].placeholder \in Nat /\ BuilderInv(c[i], cs)
  BY PlaceholderNumbers
<1>3. \A i \in 1 .. l : Len(c[i].components.elems) \in Nat
  BY <1>2, LenProperties DEF BuilderInv, VectorInv, IsVec
<1>4. Placeholders(c) \in [1 .. l -> Nat] /\ Lengths(c) \in [1 .. l -> Nat]
  BY <1>2, <1>3 DEF Placeholders, Lengths
<1>5. Placeholders(c) \in Seq(Nat) /\ Lengths(c) \in Seq(Nat)
  <2> HIDE DEF l
  <2> QED
    BY <1>1, <1>4, SeqDef
<1>6. Len(Placeholders(c)) = l /\ Len(Lengths(c)) = l
  <2> HIDE DEF l
  <2>1. /\ Placeholders(c) = [i \in 1 .. l |-> Placeholders(c)[i]]
        /\ Lengths(c) = [i \in 1 .. l |-> Lengths(c)[i]]
    BY <1>4
  <2> QED
    BY <1>1, <2>1, FunctionSequence
<1>7. Sequence(Addresses(c)) /\ Len(Addresses(c)) = l
  <2>1. Addresses(c) = [i \in 1 .. l |-> Addresses(c)[i]]
    BY DEF Addresses
  <2> HIDE DEF l
  <2> QED
    BY <1>1, <2>1, FunctionSequence
<1>8. \A i \in 1 .. l : Addresses(c)[i] # Null => Addresses(c)[i][2][1] = "builder"
  BY <1>2 DEF Addresses, BuilderInv
<1> QED
  BY <1>1, <1>5, <1>6, <1>7, <1>8

LEMMA ScratchIs ==
  ASSUME NEW o
  PROVE  /\ Scratch(o, <<"create", "placeholder">>) = Placeholders(created[o])
         /\ Scratch(o, <<"create", "length">>) = Lengths(created[o])
         /\ ComponentPointers(o) = Addresses(created[o])
BY DEF Scratch, ComponentPointers, Placeholders, Lengths, Addresses

(* The vectors of an object after c().                                     *)
LEMMA RefilledVectors ==
  ASSUME NEW cs \in Seq(Call), NEW f, VectorsInv(f, cs), NEW o, BuildersInv(created[o], cs),
         NEW g, g = [s \in Slot |-> IF s[1] = "create"
                                      THEN Refilled(f[s], Scratch(o, s), Fresh(o, s))
                                      ELSE f[s]]
  PROVE  /\ VectorsInv(g, cs)
         /\ \A s \in ListSlot : g[s] = f[s]
         /\ \A s \in {<<"create", "placeholder">>, <<"create", "length">>} :
              /\ g[s].elems = Scratch(o, s)
              /\ g[s].buf = IF Len(created[o]) <= f[s].cap THEN f[s].buf ELSE Fresh(o, s)
<1> DEFINE n == Len(cs)
           l == Len(created[o])
           scratch == {<<"create", "placeholder">>, <<"create", "length">>}
<1>1. n \in Nat
  BY LenProperties
<1>2. \A s \in ListSlot : s \in Slot /\ g[s] = f[s]
  BY ListSlots
<1>3. \A s \in scratch : s \in Slot /\ s[1] = "create"
  BY DEF Slot
<1>4. \A s \in Slot : s \in ListSlot \/ s \in scratch
  BY DEF Slot, ListSlot
<1>5. ASSUME NEW s \in scratch
      PROVE  /\ VectorInv(g[s], n)
             /\ g[s].elems = Scratch(o, s)
             /\ g[s].buf = IF l <= f[s].cap THEN f[s].buf ELSE Fresh(o, s)
             /\ l <= f[s].cap => g[s].cap = f[s].cap
  <2> DEFINE v == f[s]
             xs == Scratch(o, s)
             fresh == Fresh(o, s)
  <2>1. g[s] = Refilled(v, xs, fresh) /\ VectorInv(v, n)
    BY <1>3 DEF VectorsInv
  <2>2. xs \in Seq(Nat) /\ Len(xs) = l /\ l <= n
    BY Collected, ScratchIs
  <2> HIDE DEF v, xs, fresh, n, l
  <2>3. /\ VectorInv(Refilled(v, xs, fresh), n)
        /\ Refilled(v, xs, fresh).elems = xs
        /\ Refilled(v, xs, fresh).buf = IF Len(xs) <= v.cap THEN v.buf ELSE fresh
        /\ Len(xs) <= v.cap => Refilled(v, xs, fresh).cap = v.cap
    BY <1>1, <2>1, <2>2, RefilledVector
  <2>4. /\ VectorInv(g[s], n)
        /\ g[s].elems = xs
        /\ g[s].buf = IF l <= v.cap THEN v.buf ELSE fresh
        /\ l <= v.cap => g[s].cap = v.cap
    BY <2>1, <2>2, <2>3
  <2> QED
    BY <2>4 DEF v, xs, fresh
<1>6. \A s \in Slot : VectorInv(g[s], n)
  BY <1>2, <1>4, <1>5 DEF VectorsInv
<1>7. ASSUME NEW s \in Slot, g[s].cap > 0 PROVE g[s].buf # Null /\ g[s].buf[2] = s
  <2>1. f[s].cap > 0 => f[s].buf # Null /\ f[s].buf[2] = s
    BY DEF VectorsInv
  <2>2. CASE s \in ListSlot
    BY <1>2, <1>7, <2>1, <2>2
  <2>3. CASE s \in scratch /\ l <= f[s].cap
    BY <1>5, <1>7, <2>1, <2>3
  <2>4. CASE s \in scratch /\ ~(l <= f[s].cap)
    <3>1. g[s].buf = Fresh(o, s)
      BY <1>5, <2>4
    <3> QED
      BY <3>1, FreshBuffer
  <2> QED
    BY <1>4, <2>2, <2>3, <2>4
<1>8. \A s \in ListSlot : Whole(g[s], Queued(cs, s[2]))
  BY <1>2, SlotsOfLists
<1>9. g = [s \in Slot |-> g[s]]
  OBVIOUS
<1>10. VectorsInv(g, cs)
  BY <1>6, <1>7, <1>8, <1>9, WholeLists
<1> QED
  BY <1>2, <1>5, <1>10

-----------------------------------------------------------------------------
(* The steps keep what objects hold. *)

LEMMA CalledFacts ==
  ASSUME ContentsInv, NEW o \in Object, NEW what \in Call, Called(o, what)
  PROVE  /\ o \in alive
         /\ calls[o] \in Seq(Call) /\ Len(calls[o]) \in Nat
         /\ Len(calls[o]) < MaxCalls
         /\ calls' = [calls EXCEPT ![o] = Append(calls[o], what)]
         /\ Append(calls[o], what) \in Seq(Call) /\ Append(calls[o], what) # <<>>
         /\ Len(Append(calls[o], what)) = Len(calls[o]) + 1
         /\ VectorsInv(vec[o], calls[o]) /\ BuildersInv(created[o], calls[o])
         /\ PointersInv(pointers[o])
<1>1. calls[o] \in Seq(Call)
  BY DEF ContentsInv
<1>2. o \in alive /\ Len(calls[o]) < MaxCalls /\ calls' = [calls EXCEPT ![o] = Append(calls[o], what)]
  BY DEF Called
<1> QED
  BY <1>1, <1>2, AppendCalls DEF ContentsInv, ObjectInv

(* A step that makes of object o what f, c, p and cs say.                  *)
LEMMA ObjectStep ==
  ASSUME OptionsInv, ContentsInv, NEW o \in Object,
         NEW f, NEW c, NEW p, NEW cs \in Seq(Call), cs # <<>>,
         VectorsInv(f, cs), BuildersInv(c, cs), PointersInv(p),
         alive' = alive \cup {o},
         vec' = [vec EXCEPT ![o] = f], created' = [created EXCEPT ![o] = c],
         pointers' = [pointers EXCEPT ![o] = p], calls' = [calls EXCEPT ![o] = cs]
  PROVE  ContentsInv'
<1>1. /\ vec' = [q \in Object |-> IF q = o THEN f ELSE vec[q]]
      /\ created' = [q \in Object |-> IF q = o THEN c ELSE created[q]]
      /\ pointers' = [q \in Object |-> IF q = o THEN p ELSE pointers[q]]
      /\ calls' = [q \in Object |-> IF q = o THEN cs ELSE calls[q]]
  BY DEF OptionsInv, ContentsInv
<1>2. /\ alive' \subseteq Object
      /\ created' = [q \in Object |-> created'[q]]
      /\ pointers' = [q \in Object |-> pointers'[q]]
      /\ calls' \in [Object -> Seq(Call)]
  BY <1>1 DEF ContentsInv
<1>3. ASSUME NEW q \in Object PROVE ObjectInv(q)'
  <2>1. CASE q = o
    BY <1>1, <2>1 DEF ObjectInv
  <2>2. CASE q # o
    <3>1. ObjectInv(q)
      BY DEF ContentsInv
    <3> QED
      BY <1>1, <2>2, <3>1 DEF ObjectInv
  <2> QED
    BY <2>1, <2>2
<1> QED
  BY <1>2, <1>3 DEF ContentsInv

LEMMA ConstructContents ==
  ASSUME OptionsInv, ContentsInv, NEW o \in Object, Construct(o) PROVE ContentsInv'
<1> DEFINE cs == <<"construct">>
<1>1. cs \in Seq(Call) /\ cs # <<>>
  BY DEF Call
<1>2. \A k : k # "construct" => Queued(cs, k) = {}
  BY DEF Queued
<1>3. \A k \in List : Queued(cs, k) = {}
  BY <1>2 DEF List, EntityList, DataList
<1>4. vec[o] = [s \in Slot |-> NoVec] /\ created[o] = <<>> /\ PointersInv(pointers[o])
  BY DEF Construct, Unused, ContentsInv, ObjectInv
<1>5. calls' = [calls EXCEPT ![o] = cs] /\ alive' = alive \cup {o}
  BY DEF Construct
<1>6. /\ vec' = [vec EXCEPT ![o] = vec[o]]
      /\ created' = [created EXCEPT ![o] = created[o]]
      /\ pointers' = [pointers EXCEPT ![o] = pointers[o]]
  BY DEF Construct, OptionsInv, ContentsInv
<1> HIDE DEF cs
<1>7. VectorsInv(vec[o], cs)
  BY <1>1, <1>3, <1>4, NewVectors
<1>8. BuildersInv(created[o], cs)
  BY <1>1, <1>2, <1>4, NewBuilders
<1> QED
  BY <1>1, <1>4, <1>5, <1>6, <1>7, <1>8, ObjectStep

LEMMA DestructContents ==
  ASSUME OptionsInv, ContentsInv, NEW o \in Object, Destruct(o) PROVE ContentsInv'
<1>1. /\ vec' = [q \in Object |-> IF q = o THEN [s \in Slot |-> NoVec] ELSE vec[q]]
      /\ created' = [q \in Object |-> IF q = o THEN <<>> ELSE created[q]]
      /\ pointers' = [q \in Object |-> IF q = o THEN NoVec ELSE pointers[q]]
      /\ calls' = calls
      /\ alive' = alive \ {o}
  BY DEF OptionsInv, ContentsInv, Destruct
<1>2. ASSUME NEW q \in Object PROVE ObjectInv(q)'
  <2>1. ObjectInv(q)
    BY DEF ContentsInv
  <2>2. CASE q = o
    BY <1>1, <2>2, NewPointers DEF ObjectInv
  <2>3. CASE q # o
    BY <1>1, <2>1, <2>3 DEF ObjectInv
  <2> QED
    BY <2>2, <2>3
<1> QED
  BY <1>1, <1>2 DEF ContentsInv

LEMMA PushContents ==
  ASSUME OptionsInv, ContentsInv, NEW o \in Object, NEW k \in List, Push(o, k)
  PROVE  ContentsInv'
<1> DEFINE cs == calls[o]
           old == vec[o]
           f == [s \in Slot |-> IF s \in {<<"entity", k>>, <<"data", k>>}
                                  THEN PushBack(old[s], Len(cs) + 1, Fresh(o, s)) ELSE old[s]]
<1>1. k \in Call /\ Called(o, k)
  BY DEF Call, Push
<1>2. /\ o \in alive /\ cs \in Seq(Call) /\ Len(cs) < MaxCalls
      /\ calls' = [calls EXCEPT ![o] = Append(cs, k)]
      /\ Append(cs, k) \in Seq(Call) /\ Append(cs, k) # <<>>
      /\ VectorsInv(old, cs) /\ BuildersInv(created[o], cs) /\ PointersInv(pointers[o])
  BY <1>1, CalledFacts
<1>3. vec' = [vec EXCEPT ![o] = f] /\ alive' = alive \cup {o}
  BY <1>2 DEF Push, Pushed, Number
<1>4. /\ created' = [created EXCEPT ![o] = created[o]]
      /\ pointers' = [pointers EXCEPT ![o] = pointers[o]]
  BY DEF Push, ContentsInv
<1>5. \E g : g = f
  OBVIOUS
<1> HIDE DEF cs, old
<1>6. VectorsInv(f, Append(cs, k))
  <2>1. PICK g : g = f
    BY <1>5
  <2>2. g = [s \in Slot |-> IF s \in {<<"entity", k>>, <<"data", k>>}
                              THEN PushBack(old[s], Len(cs) + 1, Fresh(o, s)) ELSE old[s]]
    BY <2>1
  <2> HIDE DEF f
  <2>3. VectorsInv(g, Append(cs, k))
    BY <1>2, <2>2, PushedVectors
  <2> QED
    BY <2>1, <2>3
<1>7. BuildersInv(created[o], Append(cs, k))
  BY <1>2, KeptBuilders
<1> HIDE DEF f
<1> QED
  BY <1>2, <1>3, <1>4, <1>6, <1>7, ObjectStep

LEMMA CreateEntityContents ==
  ASSUME OptionsInv, ContentsInv, NEW o \in Object, CreateEntity(o) PROVE ContentsInv'
<1> DEFINE cs == calls[o]
           ds == Append(cs, "create")
           c == Append(created[o], [placeholder |-> Len(cs) + 1, components |-> NoVec])
<1>1. "create" \in Call /\ Called(o, "create")
  BY DEF Call, CreateEntity
<1>2. /\ o \in alive /\ cs \in Seq(Call) /\ calls' = [calls EXCEPT ![o] = ds]
      /\ ds \in Seq(Call) /\ ds # <<>>
      /\ VectorsInv(vec[o], cs) /\ BuildersInv(created[o], cs) /\ PointersInv(pointers[o])
  BY <1>1, CalledFacts
<1>3. created' = [created EXCEPT ![o] = c] /\ alive' = alive \cup {o}
  BY <1>2 DEF CreateEntity, Number
<1>4. /\ vec' = [vec EXCEPT ![o] = vec[o]]
      /\ pointers' = [pointers EXCEPT ![o] = pointers[o]]
  BY DEF CreateEntity, ContentsInv, OptionsInv
<1>5. VectorsInv(vec[o], ds)
  BY <1>2, KeptVectors
<1>6. BuildersInv(c, ds)
  BY <1>2, AnotherBuilder
<1> HIDE DEF c, ds, cs
<1> QED
  BY <1>2, <1>3, <1>4, <1>5, <1>6, ObjectStep

LEMMA BuildContents ==
  ASSUME OptionsInv, ContentsInv, NEW o \in Object, Build(o) PROVE ContentsInv'
<1> DEFINE cs == calls[o]
           ds == Append(cs, "build")
           c == created[o]
           d == [c EXCEPT ![Len(c)].components =
                   PushBack(@, Len(cs) + 1, Fresh(o, <<"builder", Len(c)>>))]
<1>1. "build" \in Call /\ Called(o, "build") /\ c # <<>>
  BY DEF Call, Build
<1>2. /\ o \in alive /\ cs \in Seq(Call) /\ Len(cs) < MaxCalls
      /\ calls' = [calls EXCEPT ![o] = ds]
      /\ ds \in Seq(Call) /\ ds # <<>>
      /\ VectorsInv(vec[o], cs) /\ BuildersInv(c, cs) /\ PointersInv(pointers[o])
  BY <1>1, CalledFacts
<1>3. created' = [created EXCEPT ![o] = d] /\ alive' = alive \cup {o}
  BY <1>2 DEF Build, Number
<1>4. /\ vec' = [vec EXCEPT ![o] = vec[o]]
      /\ pointers' = [pointers EXCEPT ![o] = pointers[o]]
  BY DEF Build, ContentsInv, OptionsInv
<1>5. VectorsInv(vec[o], ds)
  BY <1>2, KeptVectors
<1>6. BuildersInv(d, ds)
  BY <1>1, <1>2, BuiltUpon
<1> HIDE DEF c, d, ds, cs
<1> QED
  BY <1>2, <1>3, <1>4, <1>5, <1>6, ObjectStep

LEMMA ClearContents ==
  ASSUME OptionsInv, ContentsInv, NEW o \in Object, Clear(o) PROVE ContentsInv'
<1> DEFINE cs == calls[o]
           ds == Append(cs, "clear")
           old == vec[o]
           p == Cleared(pointers[o])
           f == [s \in Slot |-> IF s = <<"create", "placeholder">>
                                  THEN old[s] ELSE Cleared(old[s])]
<1>1. "clear" \in Call /\ Called(o, "clear")
  BY DEF Call, Clear
<1>2. /\ o \in alive /\ cs \in Seq(Call) /\ calls' = [calls EXCEPT ![o] = ds]
      /\ ds \in Seq(Call) /\ ds # <<>>
      /\ VectorsInv(old, cs) /\ PointersInv(pointers[o])
  BY <1>1, CalledFacts
<1>3. /\ vec' = [vec EXCEPT ![o] = f] /\ alive' = alive \cup {o}
      /\ created' = [created EXCEPT ![o] = <<>>] /\ pointers' = [pointers EXCEPT ![o] = p]
  BY <1>2 DEF Clear
<1>4. BuildersInv(<<>>, ds) /\ PointersInv(p)
  BY <1>2, ClearedBuilders, ClearedPointers
<1> HIDE DEF cs, old, p
<1>5. VectorsInv(f, ds)
  BY <1>2, ClearedVectors
<1> HIDE DEF f, ds
<1> QED
  BY <1>2, <1>3, <1>4, <1>5, ObjectStep

LEMMA CContents ==
  ASSUME OptionsInv, ContentsInv, NEW o \in Object, NEW w, C(o, w) PROVE ContentsInv'
<1> DEFINE cs == calls[o]
           old == vec[o]
           f == [s \in Slot |-> IF s[1] = "create"
                                  THEN Refilled(old[s], Scratch(o, s), Fresh(o, s))
                                  ELSE old[s]]
           xs == ComponentPointers(o)
           fresh == Fresh(o, <<"create", "pointer">>)
           p == Refilled(pointers[o], xs, fresh)
<1>1. /\ o \in alive /\ cs \in Seq(Call) /\ cs # <<>>
      /\ VectorsInv(old, cs) /\ BuildersInv(created[o], cs) /\ PointersInv(pointers[o])
  BY DEF C, ContentsInv, ObjectInv
<1>2. /\ vec' = [vec EXCEPT ![o] = f] /\ alive' = alive \cup {o}
      /\ pointers' = [pointers EXCEPT ![o] = p]
      /\ calls' = calls /\ created' = created
  BY <1>1 DEF C
<1>3. /\ calls' = [calls EXCEPT ![o] = cs]
      /\ created' = [created EXCEPT ![o] = created[o]]
  BY <1>2 DEF ContentsInv
<1>4. PointersInv(p)
  <2>1. Sequence(xs) /\ \A i \in 1 .. Len(xs) : xs[i] # Null => xs[i][2][1] = "builder"
    BY <1>1, Collected, ScratchIs
  <2> HIDE DEF xs, fresh
  <2> QED
    BY <1>1, <2>1, RefilledPointers
<1> HIDE DEF cs, old, p
<1>5. VectorsInv(f, cs)
  BY <1>1, RefilledVectors
<1> HIDE DEF f
<1> QED
  BY <1>1, <1>2, <1>3, <1>4, <1>5, ObjectStep

LEMMA CopyContents ==
  ASSUME OptionsInv, ContentsInv, NEW o \in Object, NEW q \in Object, Copy(o, q)
  PROVE  ContentsInv'
<1> DEFINE cs == calls[q]
           old == vec[q]
           c == created[q]
           f == [s \in Slot |-> Copied(old[s], Fresh(o, s))]
           d == [i \in DOMAIN c |->
                   [c[i] EXCEPT !.components = Copied(@, Fresh(o, <<"builder", i>>))]]
           p == Copied(pointers[q], Fresh(o, <<"create", "pointer">>))
<1>1. /\ q \in alive /\ cs \in Seq(Call) /\ cs # <<>>
      /\ VectorsInv(old, cs) /\ BuildersInv(c, cs) /\ PointersInv(pointers[q])
  BY DEF Copy, ContentsInv, ObjectInv
<1>2. /\ vec' = [vec EXCEPT ![o] = f] /\ alive' = alive \cup {o}
      /\ created' = [created EXCEPT ![o] = d]
      /\ pointers' = [pointers EXCEPT ![o] = p]
      /\ calls' = [calls EXCEPT ![o] = cs]
  BY DEF Copy
<1>3. PointersInv(p)
  BY <1>1, CopiedPointers
<1> HIDE DEF cs, old, c, p
<1>4. VectorsInv(f, cs)
  BY <1>1, CopiedVectors
<1>5. BuildersInv(d, cs)
  BY <1>1, CopiedBuilders
<1> HIDE DEF f, d
<1> QED
  BY <1>1, <1>2, <1>3, <1>4, <1>5, ObjectStep

LEMMA MoveContents ==
  ASSUME OptionsInv, ContentsInv, NEW o \in Object, NEW q \in Object, Move(o, q)
  PROVE  ContentsInv'
<1> DEFINE cs == calls[q]
           ds == Append(cs, "clear")
           none == [s \in Slot |-> NoVec]
<1>1. q \in alive /\ o \notin alive /\ o # q
  BY DEF Move, Unused
<1>2. /\ cs \in Seq(Call) /\ cs # <<>>
      /\ VectorsInv(vec[q], cs) /\ BuildersInv(created[q], cs) /\ PointersInv(pointers[q])
  BY <1>1 DEF ContentsInv, ObjectInv
<1>3. ds \in Seq(Call) /\ ds # <<>>
  <2>1. "clear" \in Call
    BY DEF Call
  <2> QED
    BY <1>2, <2>1, AppendCalls
<1>4. /\ vec' = [r \in Object |-> IF r = q THEN none ELSE IF r = o THEN vec[q] ELSE vec[r]]
      /\ created' = [r \in Object |-> IF r = q THEN <<>>
                                      ELSE IF r = o THEN created[q] ELSE created[r]]
      /\ pointers' = [r \in Object |-> IF r = q THEN NoVec
                                       ELSE IF r = o THEN pointers[q] ELSE pointers[r]]
      /\ calls' = [r \in Object |-> IF r = q THEN ds ELSE IF r = o THEN cs ELSE calls[r]]
      /\ alive' = alive \cup {o}
  BY <1>1 DEF Move, OptionsInv, ContentsInv
<1>5. VectorsInv(none, ds) /\ BuildersInv(<<>>, ds)
  <2>1. \A k \in List : Queued(ds, k) = {}
    BY <1>2, QueuedClear
  <2> HIDE DEF ds
  <2>2. \A f : f = [s \in Slot |-> NoVec] => VectorsInv(f, ds)
    BY <1>3, <2>1, NewVectors
  <2> QED
    BY <1>2, <2>2, ClearedBuilders DEF ds
<1> HIDE DEF cs, ds, none
<1>6. ASSUME NEW r \in Object PROVE ObjectInv(r)'
  <2>1. ObjectInv(r)
    BY DEF ContentsInv
  <2>2. CASE r = q
    BY <1>1, <1>3, <1>4, <1>5, <2>2, NewPointers DEF ObjectInv
  <2>3. CASE r = o
    BY <1>1, <1>2, <1>4, <2>3 DEF ObjectInv
  <2>4. CASE r # o /\ r # q
    BY <1>4, <2>1, <2>4 DEF ObjectInv
  <2> QED
    BY <2>2, <2>3, <2>4
<1>7. /\ alive' \subseteq Object
      /\ created' = [r \in Object |-> created'[r]]
      /\ pointers' = [r \in Object |-> pointers'[r]]
      /\ calls' \in [Object -> Seq(Call)]
  BY <1>2, <1>3, <1>4 DEF ContentsInv
<1> QED
  BY <1>6, <1>7 DEF ContentsInv

LEMMA UnchangedContents ==
  ASSUME ContentsInv, UNCHANGED <<alive, vec, created, pointers, calls>> PROVE ContentsInv'
<1>1. \A r \in Object : ObjectInv(r)'
  BY DEF ContentsInv, ObjectInv
<1> QED
  BY <1>1 DEF ContentsInv

LEMMA InitContents == Init => ContentsInv
<1> SUFFICES ASSUME Init PROVE ContentsInv
  OBVIOUS
<1>1. \A r \in Object : ObjectInv(r)
  BY NewPointers DEF Init, ObjectInv
<1>2. \A r \in Object : calls[r] \in Seq(Call)
  BY EmptySeq DEF Init
<1> QED
  BY <1>1, <1>2 DEF Init, ContentsInv

LEMMA NextContents == OptionsInv /\ ContentsInv /\ [Next]_vars => ContentsInv'
<1> SUFFICES ASSUME OptionsInv, ContentsInv, [Next]_vars PROVE ContentsInv'
  OBVIOUS
<1>1. ASSUME NEW o \in Object, Construct(o) PROVE ContentsInv'
  BY <1>1, ConstructContents
<1>2. ASSUME NEW o \in Object, Destruct(o) PROVE ContentsInv'
  BY <1>2, DestructContents
<1>3. ASSUME NEW o \in Object, NEW k \in ClientList, Push(o, k) PROVE ContentsInv'
  BY <1>3, PushContents, ClientListAssumption
<1>4. ASSUME NEW o \in Object, CreateEntity(o) PROVE ContentsInv'
  BY <1>4, CreateEntityContents
<1>5. ASSUME NEW o \in Object, Build(o) PROVE ContentsInv'
  BY <1>5, BuildContents
<1>6. ASSUME NEW o \in Object, Clear(o) PROVE ContentsInv'
  BY <1>6, ClearContents
<1>7. ASSUME NEW o \in Object, NEW w \in View, C(o, w) PROVE ContentsInv'
  BY <1>7, CContents
<1>8. ASSUME NEW o \in Object, NEW q \in Object, Copy(o, q) PROVE ContentsInv'
  BY <1>8, CopyContents
<1>9. ASSUME NEW o \in Object, NEW q \in Object, Move(o, q) PROVE ContentsInv'
  BY <1>9, MoveContents
<1>10. CASE UNCHANGED vars
  BY <1>10, UnchangedContents DEF vars
<1> QED
  BY <1>1, <1>2, <1>3, <1>4, <1>5, <1>6, <1>7, <1>8, <1>9, <1>10 DEF Next

(* Every list and every builder holds exactly the calls since the last     *)
(* clear() that belong to it.                                              *)
THEOREM ContentsInvariant == Spec => []ContentsInv
BY OptionsInvariant, InitContents, NextContents, PTL DEF Spec

LEMMA ContentsTypes == ContentsInv => TypeOK
<1> SUFFICES ASSUME ContentsInv PROVE TypeOK
  OBVIOUS
<1>1. alive \subseteq Object
  BY DEF ContentsInv
<1>2. ASSUME NEW o \in Object
      PROVE  /\ DOMAIN vec[o] = Slot /\ \A s \in Slot : IsVec(vec[o][s])
             /\ \A b \in ToSet(created[o]) : b.placeholder \in Nat /\ IsVec(b.components)
             /\ Len(pointers[o].elems) <= pointers[o].cap
  <2>1. Len(pointers[o].elems) <= pointers[o].cap
    BY DEF ContentsInv, ObjectInv, PointersInv
  <2>2. CASE o \in alive
    <3> DEFINE f == vec[o]
               c == created[o]
               cs == calls[o]
    <3>1. VectorsInv(f, cs) /\ BuildersInv(c, cs) /\ cs \in Seq(Call)
      BY <2>2 DEF ContentsInv, ObjectInv
    <3>2. DOMAIN f = Slot /\ \A s \in Slot : IsVec(f[s])
      <4>1. f = [s \in Slot |-> f[s]] /\ \A s \in Slot : VectorInv(f[s], Len(cs))
        BY <3>1 DEF VectorsInv
      <4> HIDE DEF f, cs
      <4>2. DOMAIN f = Slot
        <5>1. DOMAIN [s \in Slot |-> f[s]] = Slot
          OBVIOUS
        <5> QED
          BY <4>1, <5>1, Zenon
      <4>3. \A s \in Slot : IsVec(f[s])
        BY <4>1 DEF VectorInv
      <4> QED
        BY <4>2, <4>3
    <3>3. ASSUME NEW i \in 1 .. Len(c) PROVE c[i].placeholder \in Nat /\ IsVec(c[i].components)
      <4> HIDE DEF c, cs
      <4>1. c[i].placeholder \in Nat /\ BuilderInv(c[i], cs)
        BY <3>1, PlaceholderNumbers
      <4>2. IsVec(c[i].components)
        BY <4>1 DEF BuilderInv, VectorInv
      <4> QED
        BY <4>1, <4>2
    <3>4. DOMAIN c = 1 .. Len(c)
      BY <3>1, SequenceFunction DEF BuildersInv
    <3> QED
      BY <2>1, <3>2, <3>3, <3>4 DEF ToSet
  <2>3. CASE o \notin alive
    <3>1. vec[o] = [s \in Slot |-> NoVec] /\ created[o] = <<>>
      BY <2>3 DEF ContentsInv, ObjectInv
    <3>2. IsVec(NoVec)
      BY NewVector DEF VectorInv
    <3>3. ToSet(<<>>) = {}
      BY DEF ToSet
    <3> QED
      BY <2>1, <3>1, <3>2, <3>3
  <2> QED
    BY <2>2, <2>3
<1> QED
  BY <1>1, <1>2 DEF TypeOK

(* Every vector has a capacity, holds numbers and no more of them than fit *)
(* and every builder has an entity, whatever is called, copied or moved.   *)
THEOREM OptionsTypeCorrect == Spec => []TypeOK
BY ContentsInvariant, ContentsTypes, PTL

-----------------------------------------------------------------------------
(* Views. *)

(* The views of an object on which more was called meanwhile, or that has  *)
(* come to its end, are not current; other views see no change.            *)
LEMMA ViewsKept ==
  ASSUME ContentsInv, ViewsInv, UNCHANGED view,
         \A o \in Object :
           \/ calls[o] = <<>>
           \/ calls'[o] = calls[o] /\ o \notin alive'
           \/ calls'[o] # <<>> /\ Len(calls'[o]) \in Nat /\ Len(calls'[o]) > Len(calls[o])
           \/ /\ o \in alive' => o \in alive
              /\ vec'[o] = vec[o] /\ created'[o] = created[o]
              /\ pointers'[o] = pointers[o] /\ calls'[o] = calls[o]
  PROVE  ViewsInv'
<1>1. ASSUME NEW w \in View, view[w] # NoView
      PROVE  /\ view[w].of \in Object
             /\ calls'[view[w].of] # <<>>
             /\ Len(view[w].calls) \in Nat /\ Len(view[w].calls) <= Len(calls'[view[w].of])
             /\ ViewTags(view[w])
             /\ view[w].of \in alive' /\ view[w].calls = calls'[view[w].of] =>
                  Linked(view[w], vec'[view[w].of], created'[view[w].of], pointers'[view[w].of])
  <2> DEFINE vw == view[w]
             o == vw.of
  <2>1. /\ o \in Object /\ calls[o] # <<>>
        /\ Len(vw.calls) \in Nat /\ Len(vw.calls) <= Len(calls[o])
        /\ ViewTags(vw)
        /\ o \in alive /\ vw.calls = calls[o] =>
             Linked(vw, vec[o], created[o], pointers[o])
    BY <1>1 DEF ViewsInv
  <2>2. Len(calls[o]) \in Nat
    BY <2>1, LenProperties DEF ContentsInv
  <2> HIDE DEF vw, o
  <2>3. CASE calls'[o] = calls[o] /\ o \notin alive'
    BY <2>1, <2>3 DEF vw, o
  <2>4. CASE calls'[o] # <<>> /\ Len(calls'[o]) \in Nat /\ Len(calls'[o]) > Len(calls[o])
    <3>1. vw.calls # calls'[o] /\ Len(vw.calls) <= Len(calls'[o])
      BY <2>1, <2>2, <2>4
    <3> QED
      BY <2>1, <2>4, <3>1 DEF vw, o
  <2>5. CASE /\ o \in alive' => o \in alive
             /\ vec'[o] = vec[o] /\ created'[o] = created[o]
             /\ pointers'[o] = pointers[o] /\ calls'[o] = calls[o]
    BY <2>1, <2>5 DEF vw, o
  <2> QED
    BY <2>1, <2>3, <2>4, <2>5
<1>2. view' = view /\ view = [w \in View |-> view[w]]
  BY DEF ViewsInv
<1> QED
  BY <1>1, <1>2 DEF ViewsInv

(* A call that is recorded for an object.                                  *)
LEMMA CalledViews ==
  ASSUME ContentsInv, ViewsInv, UNCHANGED <<view, alive>>,
         NEW o \in Object, NEW what \in Call, Called(o, what),
         \A q \in Object : q # o => /\ vec'[q] = vec[q] /\ created'[q] = created[q]
                                    /\ pointers'[q] = pointers[q]
  PROVE  ViewsInv'
<1>1. /\ Len(calls[o]) \in Nat
      /\ calls' = [calls EXCEPT ![o] = Append(calls[o], what)]
      /\ Append(calls[o], what) # <<>>
      /\ Len(Append(calls[o], what)) = Len(calls[o]) + 1
  BY CalledFacts
<1>2. calls = [q \in Object |-> calls[q]]
  BY DEF ContentsInv
<1>3. calls'[o] = Append(calls[o], what) /\ \A q \in Object : q # o => calls'[q] = calls[q]
  BY <1>1, <1>2
<1>4. ASSUME NEW q \in Object
      PROVE  \/ calls'[q] # <<>> /\ Len(calls'[q]) \in Nat /\ Len(calls'[q]) > Len(calls[q])
             \/ /\ q \in alive' => q \in alive
                /\ vec'[q] = vec[q] /\ created'[q] = created[q]
                /\ pointers'[q] = pointers[q] /\ calls'[q] = calls[q]
  <2>1. CASE q = o
    BY <1>1, <1>3, <2>1
  <2>2. CASE q # o
    BY <1>3, <2>2
  <2> QED
    BY <2>1, <2>2
<1> QED
  BY <1>4, ViewsKept

(* c() called again on an object finds its scratch arrays as it would fill *)
(* them, if nothing else was called in between: no buffer moves.           *)
LEMMA StillLinked ==
  ASSUME NEW cs \in Seq(Call), NEW f, VectorsInv(f, cs), NEW c, BuildersInv(c, cs),
         NEW p, PointersInv(p), NEW g, NEW r,
         \A s \in ListSlot : g[s] = f[s],
         g[<<"create", "placeholder">>].elems = Placeholders(c),
         g[<<"create", "length">>].elems = Lengths(c),
         \A s \in {<<"create", "placeholder">>, <<"create", "length">>} :
           Len(c) <= f[s].cap => g[s].buf = f[s].buf,
         r.elems = Addresses(c), Len(c) <= p.cap => r.buf = p.buf,
         NEW vw, Linked(vw, f, c, p)
  PROVE  Linked(vw, g, c, r)
<1>1. \A s \in {<<"create", "placeholder">>, <<"create", "length">>} :
        s \in Slot /\ Len(f[s].elems) <= f[s].cap
  BY DEF Slot, VectorsInv, VectorInv, IsVec
<1>2. /\ Len(f[<<"create", "placeholder">>].elems) = Len(c)
      /\ Len(f[<<"create", "length">>].elems) = Len(c)
      /\ Len(p.elems) = Len(c)
  BY Collected DEF Linked
<1>3. /\ g[<<"create", "placeholder">>].buf = f[<<"create", "placeholder">>].buf
      /\ g[<<"create", "length">>].buf = f[<<"create", "length">>].buf
      /\ r.buf = p.buf
  BY <1>1, <1>2 DEF PointersInv
<1>4. /\ \A k \in EntityList : g[<<"entity", k>>] = f[<<"entity", k>>]
      /\ \A k \in DataList : g[<<"data", k>>] = f[<<"data", k>>]
  BY ListSlots
<1> QED
  BY <1>3, <1>4 DEF Linked

(* A view of an object points to buffers of the vectors it is named for.   *)
LEMMA LinkedTags ==
  ASSUME NEW cs \in Seq(Call), NEW f, VectorsInv(f, cs), NEW c, BuildersInv(c, cs),
         NEW p, NEW vw, Linked(vw, f, c, p)
  PROVE  ViewTags(vw)
<1>1. ASSUME NEW s \in Slot, Len(f[s].elems) > 0 PROVE f[s].buf # Null /\ f[s].buf[2] = s
  <2>1. Len(f[s].elems) \in Nat /\ f[s].cap \in Nat /\ Len(f[s].elems) <= f[s].cap
    BY LenProperties DEF VectorsInv, VectorInv, IsVec
  <2>2. f[s].cap > 0
    BY <1>1, <2>1
  <2> QED
    BY <2>2 DEF VectorsInv
<1>2. /\ \A k \in EntityList : <<"entity", k>> \in Slot
      /\ \A k \in DataList : <<"data", k>> \in Slot
      /\ <<"create", "placeholder">> \in Slot /\ <<"create", "length">> \in Slot
  BY DEF Slot
<1>3. /\ Len(f[<<"create", "placeholder">>].elems) = Len(c)
      /\ Len(f[<<"create", "length">>].elems) = Len(c)
  BY Collected DEF Linked
<1>4. /\ \A k \in EntityList : vw.size[k] > 0 =>
           vw.entity[k] # Null /\ vw.entity[k][2] = <<"entity", k>>
      /\ \A k \in DataList : vw.size[k] > 0 =>
           vw.data[k] # Null /\ vw.data[k][2] = <<"data", k>>
  BY <1>1, <1>2 DEF Linked
<1>5. vw.createSize > 0 => /\ vw.placeholder # Null
                           /\ vw.placeholder[2] = <<"create", "placeholder">>
                           /\ vw.length # Null /\ vw.length[2] = <<"create", "length">>
  BY <1>1, <1>2, <1>3 DEF Linked
<1>6. vw.createSize \in Nat
  BY Collected DEF Linked
<1>7. ASSUME NEW k \in List PROVE vw.size[k] \in Nat
  <2>1. \A s \in Slot : Len(f[s].elems) \in Nat
    BY LenProperties DEF VectorsInv, VectorInv, IsVec
  <2> QED
    BY <1>2, <2>1 DEF Linked, List
<1> QED
  BY <1>4, <1>5, <1>6, <1>7 DEF ViewTags

(* The state of an object after c(), as far as the views depend on it.     *)
LEMMA AfterC ==
  ASSUME OptionsInv, ContentsInv, NEW o \in Object, NEW w, C(o, w)
  PROVE  /\ o \in alive /\ calls[o] \in Seq(Call) /\ calls[o] # <<>>
         /\ VectorsInv(vec[o], calls[o]) /\ VectorsInv(vec'[o], calls[o])
         /\ BuildersInv(created[o], calls[o]) /\ PointersInv(pointers[o])
         /\ \A s \in ListSlot : vec'[o][s] = vec[o][s]
         /\ vec'[o][<<"create", "placeholder">>].elems = Placeholders(created[o])
         /\ vec'[o][<<"create", "length">>].elems = Lengths(created[o])
         /\ \A s \in {<<"create", "placeholder">>, <<"create", "length">>} :
              Len(created[o]) <= vec[o][s].cap => vec'[o][s].buf = vec[o][s].buf
         /\ pointers'[o].elems = Addresses(created[o])
         /\ Len(created[o]) <= pointers[o].cap => pointers'[o].buf = pointers[o].buf
         /\ \A q \in Object : q # o => vec'[q] = vec[q] /\ pointers'[q] = pointers[q]
         /\ UNCHANGED <<alive, created, calls>>
<1> DEFINE cs == calls[o]
           old == vec[o]
           f == [s \in Slot |-> IF s[1] = "create"
                                  THEN Refilled(old[s], Scratch(o, s), Fresh(o, s))
                                  ELSE old[s]]
           c == created[o]
           xs == ComponentPointers(o)
           fresh == Fresh(o, <<"create", "pointer">>)
           p == Refilled(pointers[o], xs, fresh)
<1>1. /\ o \in alive /\ cs \in Seq(Call) /\ cs # <<>>
      /\ VectorsInv(old, cs) /\ BuildersInv(c, cs) /\ PointersInv(pointers[o])
  BY DEF C, ContentsInv, ObjectInv
<1>2. /\ vec' = [vec EXCEPT ![o] = f] /\ pointers' = [pointers EXCEPT ![o] = p]
      /\ UNCHANGED <<alive, created, calls>>
  BY DEF C
<1>3. /\ vec'[o] = f /\ pointers'[o] = p
      /\ \A q \in Object : q # o => vec'[q] = vec[q] /\ pointers'[q] = pointers[q]
  <2>1. vec = [q \in Object |-> vec[q]] /\ pointers = [q \in Object |-> pointers[q]]
    BY DEF OptionsInv, ContentsInv
  <2> HIDE DEF f, p
  <2> QED
    BY <1>2, <2>1
<1>4. p.elems = Addresses(c) /\ (Len(c) <= pointers[o].cap => p.buf = pointers[o].buf)
  <2>1. /\ Sequence(xs) /\ \A i \in 1 .. Len(xs) : xs[i] # Null => xs[i][2][1] = "builder"
        /\ xs = Addresses(c) /\ Len(xs) = Len(c)
    <3>1. xs = Addresses(c)
      BY ScratchIs
    <3> HIDE DEF c, cs, xs
    <3>2. /\ Sequence(Addresses(c)) /\ Len(Addresses(c)) = Len(c)
          /\ \A i \in 1 .. Len(c) : Addresses(c)[i] # Null => Addresses(c)[i][2][1] = "builder"
      BY <1>1, Collected
    <3> QED
      BY <3>1, <3>2
  <2> HIDE DEF xs, fresh, c
  <2>2. p.elems = xs /\ p.buf = IF Len(xs) <= pointers[o].cap THEN pointers[o].buf ELSE fresh
    BY <1>1, <2>1, RefilledPointers
  <2> HIDE DEF p
  <2> QED
    BY <2>1, <2>2
<1>5. /\ VectorsInv(f, cs)
      /\ \A s \in ListSlot : f[s] = old[s]
      /\ \A s \in {<<"create", "placeholder">>, <<"create", "length">>} :
           /\ f[s].elems = Scratch(o, s)
           /\ f[s].buf = IF Len(c) <= old[s].cap THEN old[s].buf ELSE Fresh(o, s)
  <2> HIDE DEF cs, old
  <2> QED
    BY <1>1, RefilledVectors
<1>6. /\ f[<<"create", "placeholder">>].elems = Placeholders(c)
      /\ f[<<"create", "length">>].elems = Lengths(c)
  <2>1. /\ Scratch(o, <<"create", "placeholder">>) = Placeholders(c)
        /\ Scratch(o, <<"create", "length">>) = Lengths(c)
    BY ScratchIs
  <2>2. /\ f[<<"create", "placeholder">>].elems = Scratch(o, <<"create", "placeholder">>)
        /\ f[<<"create", "length">>].elems = Scratch(o, <<"create", "length">>)
    BY <1>5
  <2> HIDE DEF f, c
  <2> QED
    BY <2>1, <2>2
<1>7. \A s \in {<<"create", "placeholder">>, <<"create", "length">>} :
        Len(c) <= old[s].cap => f[s].buf = old[s].buf
  <2> HIDE DEF f, old, c
  <2> QED
    BY <1>5
<1> HIDE DEF f, p
<1> QED
  BY <1>1, <1>2, <1>3, <1>4, <1>5, <1>6, <1>7

LEMMA CViews ==
  ASSUME OptionsInv, ContentsInv, ViewsInv, NEW o \in Object, NEW w \in View, C(o, w)
  PROVE  ViewsInv'
<1> DEFINE vw == [of          |-> o,
        calls       |-> calls[o],
        size        |-> [k \in List |-> Len(vec[o][IF k = "destroy" THEN <<"entity", k>>
                                                   ELSE <<"data", k>>].elems)],
        entity      |-> [k \in EntityList |-> vec[o][<<"entity", k>>].buf],
        data        |-> [k \in DataList |-> vec[o][<<"data", k>>].buf],
        createSize  |-> Len(created[o]),
        placeholder |-> vec'[o][<<"create", "placeholder">>].buf,
        length      |-> vec'[o][<<"create", "length">>].buf,
        pointer     |-> pointers'[o].buf]
<1>1. view' = [view EXCEPT ![w] = vw]
  BY DEF C
<1>2. view = [x \in View |-> view[x]]
  BY DEF ViewsInv
<1>3. Linked(vw, vec'[o], created[o], pointers'[o])
  <2>1. ASSUME NEW k \in EntityList
        PROVE  /\ vw.entity[k] = vec'[o][<<"entity", k>>].buf
               /\ vw.size[k] = Len(vec'[o][<<"entity", k>>].elems)
    <3>1. vec'[o][<<"entity", k>>] = vec[o][<<"entity", k>>]
      BY AfterC, ListSlots
    <3>2. k # "destroy" => vec[o][<<"entity", k>>].elems = vec[o][<<"data", k>>].elems
      BY DEF OptionsInv, Paired, EntityList, DataList
    <3>3. k \in List
      BY DEF List
    <3>4. CASE k = "destroy"
      BY <3>1, <3>3, <3>4
    <3>5. CASE k # "destroy"
      BY <3>1, <3>2, <3>3, <3>5
    <3> QED
      BY <3>4, <3>5
  <2>2. ASSUME NEW k \in DataList
        PROVE  /\ vw.data[k] = vec'[o][<<"data", k>>].buf
               /\ vw.size[k] = Len(vec'[o][<<"data", k>>].elems)
    <3>1. vec'[o][<<"data", k>>] = vec[o][<<"data", k>>]
      BY AfterC, ListSlots
    <3>2. k \in List /\ k # "destroy"
      BY DEF List, DataList
    <3> QED
      BY <3>1, <3>2
  <2>3. /\ vw.createSize = Len(created[o])
        /\ vw.placeholder = vec'[o][<<"create", "placeholder">>].buf
        /\ vw.length = vec'[o][<<"create", "length">>].buf
        /\ vw.pointer = pointers'[o].buf
    OBVIOUS
  <2> HIDE DEF vw
  <2>4. /\ vec'[o][<<"create", "placeholder">>].elems = Placeholders(created[o])
        /\ vec'[o][<<"create", "length">>].elems = Lengths(created[o])
        /\ pointers'[o].elems = Addresses(created[o])
    BY AfterC
  <2> QED
    BY <2>1, <2>2, <2>3, <2>4 DEF Linked
<1>4. vw.of = o /\ vw.calls = calls[o]
  OBVIOUS
<1> HIDE DEF vw
<1>5. view'[w] = vw /\ \A x \in View : x # w => view'[x] = view[x]
  BY <1>1, <1>2
<1>6. view' = [x \in View |-> view'[x]]
  BY <1>1, <1>2
<1>7. /\ o \in alive /\ calls[o] \in Seq(Call) /\ calls[o] # <<>>
      /\ VectorsInv(vec[o], calls[o]) /\ VectorsInv(vec'[o], calls[o])
      /\ BuildersInv(created[o], calls[o]) /\ PointersInv(pointers[o])
      /\ alive' = alive /\ created' = created /\ calls' = calls
      /\ \A q \in Object : q # o => vec'[q] = vec[q] /\ pointers'[q] = pointers[q]
  BY AfterC
<1>8. Len(calls[o]) \in Nat
  BY <1>7, LenProperties
<1>9. ASSUME NEW x \in View, view'[x] # NoView
      PROVE  /\ view'[x].of \in Object
             /\ calls'[view'[x].of] # <<>>
             /\ Len(view'[x].calls) \in Nat /\ Len(view'[x].calls) <= Len(calls'[view'[x].of])
             /\ ViewTags(view'[x])
             /\ view'[x].of \in alive' /\ view'[x].calls = calls'[view'[x].of] =>
                  Linked(view'[x], vec'[view'[x].of], created'[view'[x].of], pointers'[view'[x].of])
  <2>1. CASE x = w
    <3>1. ViewTags(vw)
      BY <1>3, <1>7, LinkedTags
    <3> QED
      BY <1>3, <1>4, <1>5, <1>7, <1>8, <2>1, <3>1
  <2>2. CASE x # w
    <3> DEFINE q == view[x].of
    <3>1. view'[x] = view[x] /\ view[x] # NoView
      BY <1>5, <1>9, <2>2
    <3>2. /\ q \in Object /\ calls[q] # <<>>
          /\ Len(view[x].calls) \in Nat /\ Len(view[x].calls) <= Len(calls[q])
          /\ ViewTags(view[x])
          /\ q \in alive /\ view[x].calls = calls[q] =>
               Linked(view[x], vec[q], created[q], pointers[q])
      BY <3>1 DEF ViewsInv
    <3>3. q \in alive /\ view[x].calls = calls[q] =>
            Linked(view[x], vec'[q], created[q], pointers'[q])
      <4>1. SUFFICES ASSUME q \in alive, view[x].calls = calls[q]
                     PROVE  Linked(view[x], vec'[q], created[q], pointers'[q])
        OBVIOUS
      <4>2. Linked(view[x], vec[q], created[q], pointers[q])
        BY <3>2, <4>1
      <4>3. CASE q = o
        <5> DEFINE u == view[x]
        <5>1. Linked(u, vec[o], created[o], pointers[o])
          BY <4>2, <4>3
        <5> HIDE DEF q, u
        <5>2. Linked(u, vec'[o], created[o], pointers'[o])
          BY <1>7, <5>1, AfterC, StillLinked
        <5> QED
          BY <4>3, <5>2 DEF u
      <4>4. CASE q # o
        BY <1>7, <3>2, <4>2, <4>4
      <4> QED
        BY <4>3, <4>4
    <3> QED
      BY <1>7, <3>1, <3>2, <3>3
  <2> QED
    BY <2>1, <2>2
<1> QED
  BY <1>6, <1>9 DEF ViewsInv

LEMMA InitViews == Init => ViewsInv
BY DEF Init, ViewsInv

LEMMA NextViews == OptionsInv /\ ContentsInv /\ ViewsInv /\ [Next]_vars => ViewsInv'
<1> SUFFICES ASSUME OptionsInv, ContentsInv, ViewsInv, [Next]_vars PROVE ViewsInv'
  OBVIOUS
<1>1. /\ vec = [q \in Object |-> vec[q]] /\ created = [q \in Object |-> created[q]]
      /\ pointers = [q \in Object |-> pointers[q]] /\ calls = [q \in Object |-> calls[q]]
  BY DEF OptionsInv, ContentsInv
<1>2. ASSUME NEW o \in Object, Construct(o) PROVE ViewsInv'
  <2>1. \A q \in Object :
          \/ calls[q] = <<>>
          \/ /\ q \in alive' => q \in alive
             /\ vec'[q] = vec[q] /\ created'[q] = created[q]
             /\ pointers'[q] = pointers[q] /\ calls'[q] = calls[q]
    BY <1>1, <1>2 DEF Construct, Unused
  <2> QED
    BY <1>2, <2>1, ViewsKept DEF Construct
<1>3. ASSUME NEW o \in Object, Destruct(o) PROVE ViewsInv'
  <2>1. \A q \in Object :
          \/ calls'[q] = calls[q] /\ q \notin alive'
          \/ /\ q \in alive' => q \in alive
             /\ vec'[q] = vec[q] /\ created'[q] = created[q]
             /\ pointers'[q] = pointers[q] /\ calls'[q] = calls[q]
    BY <1>1, <1>3 DEF Destruct
  <2> QED
    BY <1>3, <2>1, ViewsKept DEF Destruct
<1>4. ASSUME NEW o \in Object, NEW k \in ClientList, Push(o, k) PROVE ViewsInv'
  <2>1. k \in Call
    BY ClientListAssumption DEF Call
  <2>2. \A q \in Object : q # o => /\ vec'[q] = vec[q] /\ created'[q] = created[q]
                                   /\ pointers'[q] = pointers[q]
    BY <1>1, <1>4 DEF Push
  <2> QED
    BY <1>4, <2>1, <2>2, CalledViews DEF Push
<1>5. ASSUME NEW o \in Object, CreateEntity(o) PROVE ViewsInv'
  <2>1. "create" \in Call
    BY DEF Call
  <2>2. \A q \in Object : q # o => /\ vec'[q] = vec[q] /\ created'[q] = created[q]
                                   /\ pointers'[q] = pointers[q]
    BY <1>1, <1>5 DEF CreateEntity
  <2> QED
    BY <1>5, <2>1, <2>2, CalledViews DEF CreateEntity
<1>6. ASSUME NEW o \in Object, Build(o) PROVE ViewsInv'
  <2>1. "build" \in Call
    BY DEF Call
  <2>2. \A q \in Object : q # o => /\ vec'[q] = vec[q] /\ created'[q] = created[q]
                                   /\ pointers'[q] = pointers[q]
    BY <1>1, <1>6 DEF Build
  <2> QED
    BY <1>6, <2>1, <2>2, CalledViews DEF Build
<1>7. ASSUME NEW o \in Object, Clear(o) PROVE ViewsInv'
  <2>1. "clear" \in Call
    BY DEF Call
  <2>2. \A q \in Object : q # o => /\ vec'[q] = vec[q] /\ created'[q] = created[q]
                                   /\ pointers'[q] = pointers[q]
    BY <1>1, <1>7 DEF Clear
  <2> QED
    BY <1>7, <2>1, <2>2, CalledViews DEF Clear
<1>8. ASSUME NEW o \in Object, NEW w \in View, C(o, w) PROVE ViewsInv'
  BY <1>8, CViews
<1>9. ASSUME NEW o \in Object, NEW p \in Object, Copy(o, p) PROVE ViewsInv'
  <2>1. \A q \in Object :
          \/ calls[q] = <<>>
          \/ /\ q \in alive' => q \in alive
             /\ vec'[q] = vec[q] /\ created'[q] = created[q]
             /\ pointers'[q] = pointers[q] /\ calls'[q] = calls[q]
    <3> SUFFICES ASSUME NEW q \in Object, q # o
                 PROVE  /\ q \in alive' => q \in alive
                        /\ vec'[q] = vec[q] /\ created'[q] = created[q]
                        /\ pointers'[q] = pointers[q] /\ calls'[q] = calls[q]
      BY <1>9 DEF Copy, Unused
    <3> QED
      BY <1>1, <1>9 DEF Copy
  <2> QED
    BY <1>9, <2>1, ViewsKept DEF Copy
<1>10. ASSUME NEW o \in Object, NEW p \in Object, Move(o, p) PROVE ViewsInv'
  <2>1. o # p /\ calls[o] = <<>> /\ calls[p] \in Seq(Call) /\ "clear" \in Call
    BY <1>10 DEF Move, Unused, ContentsInv, Call
  <2>2. /\ Append(calls[p], "clear") # <<>> /\ Len(calls[p]) \in Nat
        /\ Len(Append(calls[p], "clear")) = Len(calls[p]) + 1
    BY <2>1, AppendCalls
  <2>3. calls'[p] = Append(calls[p], "clear")
    BY <1>1, <1>10, <2>1 DEF Move
  <2>4. ASSUME NEW q \in Object, q # o, q # p
        PROVE  /\ q \in alive' => q \in alive
               /\ vec'[q] = vec[q] /\ created'[q] = created[q]
               /\ pointers'[q] = pointers[q] /\ calls'[q] = calls[q]
    BY <1>1, <1>10, <2>4 DEF Move
  <2>5. \A q \in Object :
          \/ calls[q] = <<>>
          \/ calls'[q] # <<>> /\ Len(calls'[q]) \in Nat /\ Len(calls'[q]) > Len(calls[q])
          \/ /\ q \in alive' => q \in alive
             /\ vec'[q] = vec[q] /\ created'[q] = created[q]
             /\ pointers'[q] = pointers[q] /\ calls'[q] = calls[q]
    BY <2>1, <2>2, <2>3, <2>4
  <2> QED
    BY <1>10, <2>5, ViewsKept DEF Move
<1>11. CASE UNCHANGED vars
  BY <1>11, ViewsKept DEF vars
<1> QED
  BY <1>2, <1>3, <1>4, <1>5, <1>6, <1>7, <1>8, <1>9, <1>10, <1>11 DEF Next

-----------------------------------------------------------------------------
(* Current views are valid. *)

LEMMA VectorsAre ==
  /\ \A o \in alive : \A s \in Slot : vec[o][s] \in Vectors
  /\ \A o \in alive : \A i \in DOMAIN created[o] : created[o][i].components \in Vectors
  /\ \A v \in Vectors : \/ \E o \in alive : \E s \in Slot : v = vec[o][s]
                        \/ \E o \in alive : \E i \in DOMAIN created[o] :
                             v = created[o][i].components
BY DEF Vectors, Builders, ToSet

LEMMA HoldsWhole ==
  ASSUME NEW v \in Vectors, NEW S, Whole(v, S) PROVE Holds(v.buf, Len(v.elems), S)
<1>1. Lists(v.elems, Len(v.elems), S)
  BY DEF Whole
<1>2. CASE Len(v.elems) = 0
  <2>1. 1 .. 0 = {}
    OBVIOUS
  <2> QED
    BY <1>1, <1>2, <2>1 DEF Lists, Holds
<1>3. CASE Len(v.elems) # 0
  BY <1>1, <1>3 DEF Holds
<1> QED
  BY <1>2, <1>3

LEMMA LinkedValid ==
  ASSUME ContentsInv, NEW w \in View, NEW o \in alive,
         view[w].calls = calls[o], Linked(view[w], vec[o], created[o], pointers[o])
  PROVE  Valid(w)
<1> DEFINE vw == view[w]
           cs == calls[o]
           f == vec[o]
           c == created[o]
           p == pointers[o]
<1>1. /\ o \in Object /\ cs \in Seq(Call)
      /\ VectorsInv(f, cs) /\ BuildersInv(c, cs) /\ PointersInv(p)
  BY DEF ContentsInv, ObjectInv
<1>2. vw.calls = cs /\ Linked(vw, f, c, p)
  OBVIOUS
<1>3. \A s \in Slot : f[s] \in Vectors
  BY VectorsAre
<1>4. \A i \in 1 .. Len(c) : c[i].components \in Vectors
  <2>1. DOMAIN c = 1 .. Len(c)
    BY <1>1, SequenceFunction DEF BuildersInv
  <2> QED
    BY <2>1, VectorsAre
<1>5. o \in alive /\ p = pointers[o]
  OBVIOUS
<1>6. Valid(w) <=> /\ ValidLists(vw)
                   /\ IF vw.createSize = 0 THEN Queued(vw.calls, "create") = {}
                      ELSE ValidCreates(vw)
  BY DEF Valid
<1> HIDE DEF vw, cs, f, c, p
<1>7. ValidLists(vw)
  <2>1. ASSUME NEW k \in EntityList PROVE Holds(vw.entity[k], vw.size[k], Queued(cs, k))
    <3>1. f[<<"entity", k>>] \in Vectors /\ Whole(f[<<"entity", k>>], Queued(cs, k))
      BY <1>1, <1>3 DEF Slot, VectorsInv
    <3>2. /\ vw.entity[k] = f[<<"entity", k>>].buf
          /\ vw.size[k] = Len(f[<<"entity", k>>].elems)
      BY <1>2 DEF Linked
    <3> QED
      BY <3>1, <3>2, HoldsWhole
  <2>2. ASSUME NEW k \in DataList PROVE Holds(vw.data[k], vw.size[k], Queued(cs, k))
    <3>1. f[<<"data", k>>] \in Vectors /\ Whole(f[<<"data", k>>], Queued(cs, k))
      BY <1>1, <1>3 DEF Slot, VectorsInv
    <3>2. /\ vw.data[k] = f[<<"data", k>>].buf
          /\ vw.size[k] = Len(f[<<"data", k>>].elems)
      BY <1>2 DEF Linked
    <3> QED
      BY <3>1, <3>2, HoldsWhole
  <2> QED
    BY <1>2, <2>1, <2>2 DEF ValidLists
<1>8. Lists(Placeholders(c), Len(c), Queued(cs, "create")) /\ vw.createSize = Len(c)
  BY <1>1, <1>2 DEF BuildersInv, Linked
<1>9. CASE Len(c) = 0
  <2>1. 1 .. 0 = {}
    OBVIOUS
  <2>2. Queued(cs, "create") = {}
    BY <1>8, <1>9, <2>1 DEF Lists
  <2> QED
    BY <1>2, <1>6, <1>7, <1>8, <1>9, <2>2
<1>10. CASE Len(c) # 0
  <2> DEFINE pv == f[<<"create", "placeholder">>]
             lv == f[<<"create", "length">>]
  <2>1. pv \in Vectors /\ lv \in Vectors
    BY <1>3 DEF Slot
  <2>2. /\ pv.buf = vw.placeholder /\ pv.elems = Placeholders(c)
        /\ lv.buf = vw.length /\ lv.elems = Lengths(c)
        /\ p.buf = vw.pointer /\ p.elems = Addresses(c)
    BY <1>2 DEF Linked
  <2>3. /\ Len(c) \in Nat /\ Len(lv.elems) = Len(c) /\ Len(p.elems) = Len(c)
    BY <1>1, <2>2, Collected
  <2> HIDE DEF pv, lv
  <2>4. ASSUME NEW j \in 1 .. Len(c)
        PROVE  Holds(p.elems[j], lv.elems[j], Built(cs, pv.elems[j]))
    <3> DEFINE v == c[j].components
    <3>1. v \in Vectors /\ Whole(v, Built(cs, c[j].placeholder))
      BY <1>1, <1>4 DEF BuildersInv, BuilderInv
    <3>2. /\ p.elems[j] = v.buf /\ lv.elems[j] = Len(v.elems)
          /\ pv.elems[j] = c[j].placeholder
      BY <2>2 DEF Placeholders, Lengths, Addresses
    <3> HIDE DEF v
    <3> QED
      BY <3>1, <3>2, HoldsWhole
  <2>5. ValidCreates(vw)
    BY <1>2, <1>5, <1>8, <2>1, <2>2, <2>3, <2>4 DEF ValidCreates
  <2> QED
    BY <1>6, <1>7, <1>8, <1>10, <2>5
<1> QED
  BY <1>9, <1>10

(* A view always points into buffers of the vectors it is named for, and   *)
(* while nothing else was called on its object, to the current ones.       *)
THEOREM ViewsInvariant == Spec => [](OptionsInv /\ ContentsInv /\ ViewsInv)
BY OptionsInvariant, ContentsInvariant, InitViews, NextViews, PTL DEF Spec

(* A view of an object can be read from end to end and holds exactly what  *)
(* was queued, as long as nothing else is called on the object: however    *)
(* often c() refills its scratch arrays, whatever happens to the object it *)
(* was copied or moved from, and however vectors grow.                     *)
THEOREM OptionsCurrentViewsValid == Spec => []CurrentViewsValid
<1>1. ContentsInv /\ ViewsInv => CurrentViewsValid
  BY LinkedValid DEF ViewsInv, CurrentViewsValid
<1> QED
  BY <1>1, ViewsInvariant, PTL

-----------------------------------------------------------------------------
(* What ends a view. *)

(* Every vector keeps its buffer and what is in it, in the same object or  *)
(* in another.                                                             *)
Extends(u, v) ==
  /\ u.buf = v.buf
  /\ Len(v.elems) \in Nat /\ Len(u.elems) \in Nat /\ Len(v.elems) <= Len(u.elems)
  /\ \A i \in 1 .. Len(v.elems) : u.elems[i] = v.elems[i]

Kept ==
  /\ \A v \in Vectors : \E u \in Vectors' : Extends(u, v)
  /\ \A o \in alive : \E q \in alive' : pointers'[q] = pointers[o]

LEMMA VectorTypes ==
  ASSUME ContentsInv, NEW v \in Vectors
  PROVE  v.elems \in Seq(Nat) /\ Len(v.elems) \in Nat /\ IsVec(v)
<1>1. IsVec(v)
  <2>1. ASSUME NEW o \in alive, NEW s \in Slot PROVE IsVec(vec[o][s])
    BY DEF ContentsInv, ObjectInv, VectorsInv, VectorInv
  <2>2. ASSUME NEW o \in alive, NEW i \in DOMAIN created[o]
        PROVE  IsVec(created[o][i].components)
    <3>1. BuildersInv(created[o], calls[o])
      BY DEF ContentsInv, ObjectInv
    <3>2. i \in 1 .. Len(created[o])
      BY <3>1, SequenceFunction DEF BuildersInv
    <3> QED
      BY <3>1, <3>2 DEF BuildersInv, BuilderInv, VectorInv
  <2> QED
    BY <2>1, <2>2, VectorsAre
<1> QED
  BY <1>1, LenProperties DEF IsVec

LEMMA ExtendsLists ==
  ASSUME NEW u, NEW v, Extends(u, v), NEW n \in Nat, n <= Len(v.elems)
  PROVE  /\ n <= Len(u.elems) /\ \A i \in 1 .. n : u.elems[i] = v.elems[i]
         /\ \A S : Lists(v.elems, n, S) => Lists(u.elems, n, S)
<1>1. n <= Len(u.elems) /\ \A i \in 1 .. n : u.elems[i] = v.elems[i]
  BY DEF Extends
<1>2. ASSUME NEW S, Lists(v.elems, n, S) PROVE Lists(u.elems, n, S)
  BY <1>1, <1>2 DEF Lists
<1> QED
  BY <1>1, <1>2

LEMMA KeptHolds ==
  ASSUME Kept, NEW b, NEW n \in Nat, NEW S, Holds(b, n, S) PROVE Holds(b, n, S)'
<1>1. CASE n = 0
  BY <1>1 DEF Holds
<1>2. CASE n # 0
  <2>1. PICK v \in Vectors : v.buf = b /\ Lists(v.elems, n, S)
    BY <1>2 DEF Holds
  <2>2. PICK u \in Vectors' : Extends(u, v)
    BY DEF Kept
  <2>3. n <= Len(v.elems)
    BY <2>1 DEF Lists
  <2>4. u.buf = b /\ Lists(u.elems, n, S)
    BY <2>1, <2>2, <2>3, ExtendsLists DEF Extends
  <2> QED
    BY <1>2, <2>4 DEF Holds
<1> QED
  BY <1>1, <1>2

LEMMA KeptValid ==
  ASSUME ContentsInv, ViewsInv, Kept, NEW w \in View, view[w] # NoView,
         view'[w] = view[w], Valid(w)
  PROVE  Valid(w)'
<1> DEFINE vw == view[w]
           n == vw.createSize
           cs == vw.calls
<1>1. n \in Nat /\ \A k \in List : vw.size[k] \in Nat
  BY DEF ViewsInv, ViewTags
<1>2. /\ ValidLists(vw)
      /\ IF n = 0 THEN Queued(cs, "create") = {} ELSE ValidCreates(vw)
  BY DEF Valid
<1>3. view'[w] = vw
  OBVIOUS
<1>4. \E x : x = vw
  OBVIOUS
<1>5. PICK x : x = vw
  BY <1>4
<1>6. ValidLists(x)'
  <2>1. ASSUME NEW k \in EntityList PROVE Holds(x.entity[k], x.size[k], Queued(x.calls, k))'
    <3>1. Holds(x.entity[k], x.size[k], Queued(x.calls, k)) /\ x.size[k] \in Nat
      BY <1>1, <1>2, <1>5 DEF ValidLists, List
    <3> QED
      BY <3>1, KeptHolds
  <2>2. ASSUME NEW k \in DataList PROVE Holds(x.data[k], x.size[k], Queued(x.calls, k))'
    <3>1. Holds(x.data[k], x.size[k], Queued(x.calls, k)) /\ x.size[k] \in Nat
      BY <1>1, <1>2, <1>5 DEF ValidLists, List
    <3> QED
      BY <3>1, KeptHolds
  <2> QED
    BY <2>1, <2>2 DEF ValidLists
<1>7. ASSUME n # 0 PROVE ValidCreates(x)'
  <2>1. ValidCreates(x) /\ x.createSize \in Nat
    BY <1>1, <1>2, <1>5, <1>7
  <2>2. PICK p \in Vectors :
          /\ p.buf = x.placeholder
          /\ Lists(p.elems, x.createSize, Queued(x.calls, "create"))
          /\ \E l \in Vectors :
               /\ l.buf = x.length
               /\ x.createSize <= Len(l.elems)
               /\ \E o \in alive :
                    /\ pointers[o].buf = x.pointer
                    /\ x.createSize <= Len(pointers[o].elems)
                    /\ \A j \in 1 .. x.createSize :
                         Holds(pointers[o].elems[j], l.elems[j], Built(x.calls, p.elems[j]))
    BY <2>1 DEF ValidCreates
  <2>3. PICK l \in Vectors :
          /\ l.buf = x.length
          /\ x.createSize <= Len(l.elems)
          /\ \E o \in alive :
               /\ pointers[o].buf = x.pointer
               /\ x.createSize <= Len(pointers[o].elems)
               /\ \A j \in 1 .. x.createSize :
                    Holds(pointers[o].elems[j], l.elems[j], Built(x.calls, p.elems[j]))
    BY <2>2
  <2>4. PICK o \in alive :
          /\ pointers[o].buf = x.pointer
          /\ x.createSize <= Len(pointers[o].elems)
          /\ \A j \in 1 .. x.createSize :
               Holds(pointers[o].elems[j], l.elems[j], Built(x.calls, p.elems[j]))
    BY <2>3
  <2>5. PICK r \in Vectors' : Extends(r, p)
    BY DEF Kept
  <2>6. PICK m \in Vectors' : Extends(m, l)
    BY DEF Kept
  <2>7. PICK q \in alive' : pointers'[q] = pointers[o]
    BY DEF Kept
  <2>8. /\ r.buf = x.placeholder /\ Lists(r.elems, x.createSize, Queued(x.calls, "create"))
        /\ \A j \in 1 .. x.createSize : r.elems[j] = p.elems[j]
    <3>1. x.createSize <= Len(p.elems)
      BY <2>2 DEF Lists
    <3> QED
      BY <2>1, <2>2, <2>5, <3>1, ExtendsLists DEF Extends
  <2>9. /\ m.buf = x.length /\ x.createSize <= Len(m.elems)
        /\ \A j \in 1 .. x.createSize : m.elems[j] = l.elems[j]
    BY <2>1, <2>3, <2>6, ExtendsLists DEF Extends
  <2>10. ASSUME NEW j \in 1 .. x.createSize, NEW b, NEW i, NEW S,
                b = pointers[o].elems[j], i = l.elems[j], S = Built(x.calls, p.elems[j])
         PROVE  Holds(b, i, S)'
    <3>1. j \in 1 .. Len(l.elems)
      BY <2>1, <2>3, VectorTypes
    <3>2. i \in Nat
      BY <2>10, <3>1, VectorTypes, ElementOfSeq
    <3>3. Holds(b, i, S)
      BY <2>4, <2>10
    <3> QED
      BY <3>2, <3>3, KeptHolds
  <2>11. /\ pointers'[q].buf = x.pointer
         /\ x.createSize <= Len(pointers'[q].elems)
    BY <2>4, <2>7
  <2>12. ASSUME NEW j \in 1 .. x.createSize
         PROVE  Holds(pointers[q].elems[j], m.elems[j], Built(x.calls, r.elems[j]))'
    <3>1. /\ pointers'[q].elems[j] = pointers[o].elems[j]
          /\ m.elems[j] = l.elems[j]
          /\ Built(x.calls, r.elems[j]) = Built(x.calls, p.elems[j])
      BY <2>7, <2>8, <2>9
    <3> QED
      BY <2>10, <3>1 DEF Holds
  <2> QED
    BY <2>8, <2>9, <2>11, <2>12 DEF ValidCreates
<1>8. view'[w] = x /\ n = x.createSize /\ cs = x.calls
  BY <1>3, <1>5
<1> HIDE DEF vw, n, cs
<1> QED
  BY <1>2, <1>6, <1>7, <1>8 DEF Valid

LEMMA SameExtends == ASSUME ContentsInv, NEW v \in Vectors PROVE Extends(v, v)
BY VectorTypes DEF Extends

LEMMA NextVectors ==
  /\ \A o \in alive' : \A s \in Slot : vec'[o][s] \in Vectors'
  /\ \A o \in alive' : \A i \in DOMAIN created'[o] : created'[o][i].components \in Vectors'
BY DEF Vectors, Builders, ToSet

LEMMA BuilderDomain ==
  ASSUME ContentsInv, NEW o \in alive
  PROVE  o \in Object /\ DOMAIN created[o] = 1 .. Len(created[o]) /\ Len(created[o]) \in Nat
BY SequenceFunction DEF ContentsInv, ObjectInv, BuildersInv

(* Steps after which there is a vector like every one before.              *)
LEMMA KeptVectorsOfAll ==
  ASSUME ContentsInv,
         \A q \in alive : \A s \in Slot : \E u \in Vectors' : Extends(u, vec[q][s]),
         \A q \in alive : \A i \in 1 .. Len(created[q]) :
           \E u \in Vectors' : Extends(u, created[q][i].components),
         \A q \in alive : \E r \in alive' : pointers'[r] = pointers[q]
  PROVE  Kept
<1>1. ASSUME NEW v \in Vectors PROVE \E u \in Vectors' : Extends(u, v)
  <2>1. CASE \E q \in alive : \E s \in Slot : v = vec[q][s]
    BY <2>1
  <2>2. CASE \E q \in alive : \E i \in DOMAIN created[q] : v = created[q][i].components
    BY <2>2, BuilderDomain
  <2> QED
    BY <2>1, <2>2, VectorsAre
<1> QED
  BY <1>1 DEF Kept

LEMMA UnchangedKept ==
  ASSUME ContentsInv, alive \subseteq alive',
         \A q \in alive : vec'[q] = vec[q] /\ created'[q] = created[q] /\ pointers'[q] = pointers[q]
  PROVE  Kept
<1>1. ASSUME NEW q \in alive, NEW s \in Slot PROVE \E u \in Vectors' : Extends(u, vec[q][s])
  <2>1. vec[q][s] \in Vectors
    BY VectorsAre
  <2>2. vec'[q][s] \in Vectors' /\ vec'[q][s] = vec[q][s]
    BY NextVectors
  <2> QED
    BY <2>1, <2>2, SameExtends
<1>2. ASSUME NEW q \in alive, NEW i \in 1 .. Len(created[q])
      PROVE  \E u \in Vectors' : Extends(u, created[q][i].components)
  <2>1. created[q][i].components \in Vectors /\ i \in DOMAIN created[q]
    BY VectorsAre, BuilderDomain
  <2>2. created'[q] = created[q] /\ q \in alive'
    OBVIOUS
  <2>3. created'[q][i].components \in Vectors'
    BY <2>1, <2>2, NextVectors
  <2>4. created'[q][i].components = created[q][i].components
    BY <2>2
  <2> QED
    BY <2>1, <2>3, <2>4, SameExtends
<1> QED
  BY <1>1, <1>2, KeptVectorsOfAll

LEMMA PushExtends ==
  ASSUME NEW n \in Nat, n < MaxCalls, NEW v, VectorInv(v, n), NEW x \in Nat, NEW fresh,
         Len(v.elems) # v.cap
  PROVE  Extends(PushBack(v, x, fresh), v)
<1>1. v.elems \in Seq(Nat) /\ Len(v.elems) \in Nat /\ Len(v.elems) < v.cap
  <2>1. v.elems \in Seq(Nat) /\ Len(v.elems) \in Nat /\ v.cap \in Nat /\ Len(v.elems) <= v.cap
    BY LenProperties DEF VectorInv, IsVec
  <2> QED
    BY <2>1
<1>2. PushBack(v, x, fresh).elems = Append(v.elems, x) /\ PushBack(v, x, fresh).buf = v.buf
  BY <1>1, PushedVector
<1>3. /\ Len(Append(v.elems, x)) = Len(v.elems) + 1
      /\ \A i \in 1 .. Len(v.elems) : Append(v.elems, x)[i] = v.elems[i]
  BY <1>1, AppendProperties
<1> HIDE DEF PushBack
<1> QED
  BY <1>1, <1>2, <1>3 DEF Extends

LEMMA PushKept ==
  ASSUME OptionsInv, ContentsInv, NEW o \in Object, NEW k \in ClientList, Push(o, k),
         ~Outgrows(o)
  PROVE  Kept
<1> DEFINE cs == calls[o]
           kSlots == {<<"entity", k>>, <<"data", k>>}
<1>1. k \in Call /\ Called(o, k)
  BY ClientListAssumption DEF Call, Push
<1>2. o \in alive /\ Len(cs) \in Nat /\ Len(cs) < MaxCalls /\ VectorsInv(vec[o], cs)
  BY <1>1, CalledFacts
<1>3. \A s \in Slot : vec'[o][s] = IF s \in kSlots THEN PushBack(vec[o][s], Len(cs) + 1, Fresh(o, s))
                                   ELSE vec[o][s]
  BY DEF Push, Pushed, Number, OptionsInv
<1>4. \A q \in alive : q # o => vec'[q] = vec[q]
  BY DEF Push, OptionsInv, ContentsInv
<1>5. UNCHANGED <<alive, created, pointers>>
  BY DEF Push
<1>6. \A s \in Slot : s \in kSlots => Len(vec[o][s].elems) # vec[o][s].cap
  BY DEF Outgrows
<1>7. ASSUME NEW q \in alive, NEW s \in Slot PROVE \E u \in Vectors' : Extends(u, vec[q][s])
  <2>1. vec'[q][s] \in Vectors'
    BY <1>5, NextVectors
  <2>2. CASE q = o /\ s \in kSlots
    <3> DEFINE v == vec[o][s]
               n == Len(cs)
    <3>1. VectorInv(v, n) /\ Len(v.elems) # v.cap
      BY <1>2, <1>6, <2>2 DEF VectorsInv
    <3>2. n \in Nat /\ n < MaxCalls /\ n + 1 \in Nat
      BY <1>2
    <3>3. vec'[q][s] = PushBack(v, n + 1, Fresh(o, s)) /\ vec[q][s] = v
      BY <1>3, <2>2
    <3> HIDE DEF v, n
    <3>4. Extends(PushBack(v, n + 1, Fresh(o, s)), v)
      BY <3>1, <3>2, PushExtends
    <3> QED
      BY <2>1, <3>3, <3>4
  <2>3. CASE ~(q = o /\ s \in kSlots)
    <3>1. vec'[q][s] = vec[q][s] /\ vec[q][s] \in Vectors
      BY <1>3, <1>4, <2>3, VectorsAre
    <3> QED
      BY <2>1, <3>1, SameExtends
  <2> QED
    BY <2>2, <2>3
<1>8. ASSUME NEW q \in alive, NEW i \in 1 .. Len(created[q])
      PROVE  \E u \in Vectors' : Extends(u, created[q][i].components)
  <2>1. created[q][i].components \in Vectors /\ i \in DOMAIN created[q]
    BY VectorsAre, BuilderDomain
  <2>2. created[q][i].components \in Vectors'
    <3>1. created' = created /\ alive' = alive
      BY <1>5
    <3>2. created'[q][i].components \in Vectors'
      BY <2>1, <3>1, NextVectors
    <3> QED
      BY <3>1, <3>2
  <2> QED
    BY <2>1, <2>2, SameExtends
<1> QED
  BY <1>5, <1>7, <1>8, KeptVectorsOfAll

LEMMA BuildersKept ==
  ASSUME OptionsInv, ContentsInv, NEW o \in alive, UNCHANGED <<alive, vec, pointers>>,
         \A q \in alive : q # o => created'[q] = created[q],
         \A i \in 1 .. Len(created[o]) :
           /\ i \in DOMAIN created'[o]
           /\ Extends(created'[o][i].components, created[o][i].components)
  PROVE  Kept
<1>1. ASSUME NEW q \in alive, NEW s \in Slot PROVE \E u \in Vectors' : Extends(u, vec[q][s])
  <2>1. vec[q][s] \in Vectors
    BY VectorsAre
  <2>2. vec'[q][s] \in Vectors' /\ vec'[q][s] = vec[q][s]
    BY NextVectors
  <2> QED
    BY <2>1, <2>2, SameExtends
<1>2. ASSUME NEW q \in alive, NEW i \in 1 .. Len(created[q])
      PROVE  \E u \in Vectors' : Extends(u, created[q][i].components)
  <2>1. created[q][i].components \in Vectors /\ i \in DOMAIN created[q]
    BY VectorsAre, BuilderDomain
  <2>2. CASE q = o
    <3>1. created'[o][i].components \in Vectors'
      BY <2>2, NextVectors
    <3> QED
      BY <2>2, <3>1
  <2>3. CASE q # o
    <3>1. created'[q] = created[q] /\ q \in alive'
      BY <2>3
    <3>2. created'[q][i].components \in Vectors'
      BY <2>1, <3>1, NextVectors
    <3>3. created'[q][i].components = created[q][i].components
      BY <3>1
    <3> QED
      BY <2>1, <3>2, <3>3, SameExtends
  <2> QED
    BY <2>2, <2>3
<1> QED
  BY <1>1, <1>2, KeptVectorsOfAll

LEMMA CreateEntityKept ==
  ASSUME OptionsInv, ContentsInv, NEW o \in Object, CreateEntity(o) PROVE Kept
<1> DEFINE c == created[o]
           b == [placeholder |-> Number(o), components |-> NoVec]
<1>1. o \in alive
  BY DEF CreateEntity, Called
<1>2. Sequence(c)
  BY <1>1 DEF ContentsInv, ObjectInv, BuildersInv
<1>3. /\ created'[o] = Append(c, b) /\ \A q \in alive : q # o => created'[q] = created[q]
      /\ UNCHANGED <<alive, vec, pointers>>
  BY DEF CreateEntity, ContentsInv
<1>4. ASSUME NEW i \in 1 .. Len(c)
      PROVE  i \in DOMAIN created'[o] /\ Extends(created'[o][i].components, c[i].components)
  <2>1. i \in DOMAIN c /\ c[i].components \in Vectors
    BY <1>1, BuilderDomain, VectorsAre
  <2> HIDE DEF b, c
  <2>2. /\ Sequence(Append(c, b)) /\ Len(Append(c, b)) = Len(c) + 1 /\ Len(c) \in Nat
        /\ Append(c, b)[i] = c[i]
    BY <1>2, AppendSequence
  <2>3. i \in DOMAIN Append(c, b)
    BY <2>2, SequenceFunction
  <2> QED
    BY <1>3, <2>1, <2>2, <2>3, SameExtends
<1> QED
  BY <1>1, <1>3, <1>4, BuildersKept

LEMMA BuildKept ==
  ASSUME OptionsInv, ContentsInv, NEW o \in Object, Build(o), ~Outgrows(o) PROVE Kept
<1> DEFINE cs == calls[o]
           n == Len(cs)
           c == created[o]
           l == Len(c)
           old == c[l].components
           new == PushBack(old, n + 1, Fresh(o, <<"builder", l>>))
<1>1. "build" \in Call /\ Called(o, "build") /\ c # <<>>
  BY DEF Call, Build
<1>2. /\ o \in alive /\ cs \in Seq(Call) /\ n \in Nat /\ n < MaxCalls
      /\ BuildersInv(c, cs)
  BY <1>1, CalledFacts
<1>3. /\ created'[o] = [c EXCEPT ![l].components = PushBack(@, n + 1, Fresh(o, <<"builder", l>>))]
      /\ \A q \in alive : q # o => created'[q] = created[q]
      /\ UNCHANGED <<alive, vec, pointers>>
  BY DEF Build, ContentsInv, Number
<1>4. DOMAIN c = 1 .. l /\ l \in Nat
  BY <1>2, BuilderDomain
<1>5. created'[o] = [c EXCEPT ![l] = [c[l] EXCEPT !.components = new]]
  BY <1>3
<1>6. Len(old.elems) # old.cap
  BY DEF Outgrows
<1>7. ASSUME NEW i \in 1 .. l
      PROVE  i \in DOMAIN created'[o] /\ Extends(created'[o][i].components, c[i].components)
  <2>1. i \in DOMAIN c /\ c[i].components \in Vectors /\ BuilderInv(c[i], cs)
    BY <1>2, <1>4, VectorsAre DEF BuildersInv
  <2>2. DOMAIN created'[o] = DOMAIN c
    <3> HIDE DEF c, l, new
    <3> QED
      BY <1>5
  <2>3. CASE i = l
    <3>1. VectorInv(old, n) /\ c[l] = [placeholder |-> c[l].placeholder, components |-> old]
      BY <2>1, <2>3 DEF BuilderInv
    <3>2. n + 1 \in Nat
      BY <1>2
    <3>3. Extends(new, old)
      <4> HIDE DEF old, n
      <4> QED
        BY <1>2, <1>6, <3>1, <3>2, PushExtends
    <3>4. created'[o][l] = [c[l] EXCEPT !.components = new] /\ i \in DOMAIN c
      <4> HIDE DEF c, l, new
      <4> QED
        BY <1>5, <2>1, <2>3
    <3>5. [c[l] EXCEPT !.components = new].components = new
      <4> DEFINE b == c[l]
      <4> HIDE DEF new, old, b
      <4>1. b = [placeholder |-> b.placeholder, components |-> old]
        BY <3>1 DEF b
      <4>2. [b EXCEPT !.components = new].components = new
        BY <4>1
      <4> QED
        BY <4>2 DEF b
    <3>6. c[i].components = old
      BY <2>3
    <3> HIDE DEF old, new, l, c
    <3> QED
      BY <2>1, <2>2, <2>3, <3>3, <3>4, <3>5, <3>6
  <2>4. CASE i # l
    <3>1. created'[o][i] = c[i]
      <4> HIDE DEF c, l, new
      <4> QED
        BY <1>5, <2>1, <2>4
    <3> HIDE DEF c, l, new
    <3> QED
      BY <2>1, <2>2, <3>1, SameExtends
  <2> QED
    BY <2>3, <2>4
<1> HIDE DEF n, new
<1> QED
  BY <1>2, <1>3, <1>7, BuildersKept

LEMMA MoveKept ==
  ASSUME OptionsInv, ContentsInv, NEW o \in Object, NEW p \in Object, Move(o, p) PROVE Kept
<1>1. o # p /\ o \notin alive /\ p \in alive /\ alive' = alive \cup {o}
  BY DEF Move, Unused
<1>2. vec'[o] = vec[p] /\ created'[o] = created[p] /\ pointers'[o] = pointers[p]
  BY <1>1 DEF Move, OptionsInv, ContentsInv
<1>3. ASSUME NEW q \in alive
      PROVE  \E r \in alive' : vec'[r] = vec[q] /\ created'[r] = created[q] /\ pointers'[r] = pointers[q]
  <2>1. CASE q = p
    BY <1>1, <1>2, <2>1
  <2>2. CASE q # p
    <3>1. q \in Object /\ q # o
      BY <1>1 DEF ContentsInv
    <3>2. vec'[q] = vec[q] /\ created'[q] = created[q] /\ pointers'[q] = pointers[q]
      BY <1>1, <2>2, <3>1 DEF Move, OptionsInv, ContentsInv
    <3> QED
      BY <1>1, <3>2
  <2> QED
    BY <2>1, <2>2
<1>4. ASSUME NEW q \in alive, NEW s \in Slot PROVE \E u \in Vectors' : Extends(u, vec[q][s])
  <2>1. PICK r \in alive' : vec'[r] = vec[q]
    BY <1>3
  <2>2. vec'[r][s] \in Vectors'
    BY NextVectors
  <2>3. vec[q][s] \in Vectors /\ vec'[r][s] = vec[q][s]
    BY <2>1, VectorsAre
  <2> QED
    BY <2>2, <2>3, SameExtends
<1>5. ASSUME NEW q \in alive, NEW i \in 1 .. Len(created[q])
      PROVE  \E u \in Vectors' : Extends(u, created[q][i].components)
  <2>1. created[q][i].components \in Vectors /\ i \in DOMAIN created[q]
    BY VectorsAre, BuilderDomain
  <2>2. PICK r \in alive' : created'[r] = created[q]
    BY <1>3
  <2>3. created'[r][i].components \in Vectors'
    BY <2>1, <2>2, NextVectors
  <2>4. created'[r][i].components = created[q][i].components
    BY <2>2
  <2> QED
    BY <2>1, <2>3, <2>4, SameExtends
<1> QED
  BY <1>3, <1>4, <1>5, KeptVectorsOfAll

(* c() replaces its two scratch vectors and the addresses, nothing else.   *)
ScratchSlot == {<<"create", "placeholder">>, <<"create", "length">>}

LEMMA VectorsAfterC ==
  ASSUME OptionsInv, ContentsInv, NEW o \in Object, NEW x, C(o, x)
  PROVE  /\ \A v \in Vectors : v \in Vectors' \/ \E s \in ScratchSlot : v = vec[o][s]
         /\ \A i \in 1 .. Len(created[o]) : created[o][i].components \in Vectors'
         /\ \A s \in ScratchSlot : vec'[o][s] \in Vectors'
<1>1. /\ o \in alive /\ UNCHANGED <<alive, created, calls>>
      /\ \A s \in ListSlot : vec'[o][s] = vec[o][s]
      /\ \A q \in Object : q # o => vec'[q] = vec[q]
  BY AfterC
<1>2. ASSUME NEW q \in alive, NEW i \in DOMAIN created[q]
      PROVE  created[q][i].components \in Vectors'
  <2>1. created' = created /\ alive' = alive
    BY <1>1
  <2>2. created'[q][i].components \in Vectors'
    BY <2>1, NextVectors
  <2> QED
    BY <2>1, <2>2
<1>3. ASSUME NEW q \in alive, NEW s \in Slot, ~(q = o /\ s \in ScratchSlot)
      PROVE  vec[q][s] \in Vectors'
  <2>1. vec'[q][s] \in Vectors'
    BY <1>1, NextVectors
  <2>2. s \in ListSlot \/ s \in ScratchSlot
    BY DEF Slot, ListSlot, ScratchSlot
  <2>3. vec'[q][s] = vec[q][s]
    BY <1>1, <1>3, <2>2 DEF ContentsInv
  <2> QED
    BY <2>1, <2>3
<1>4. \A s \in ScratchSlot : s \in Slot
  BY DEF ScratchSlot, Slot
<1>5. \A s \in ScratchSlot : vec'[o][s] \in Vectors'
  BY <1>1, <1>4, NextVectors
<1>6. \A v \in Vectors : v \in Vectors' \/ \E s \in ScratchSlot : v = vec[o][s]
  BY <1>2, <1>3, VectorsAre
<1> QED
  BY <1>1, <1>2, <1>5, <1>6, BuilderDomain

LEMMA ScratchBuffer ==
  ASSUME ContentsInv, NEW o \in alive, NEW s \in ScratchSlot,
         NEW n \in Nat, n # 0, n <= Len(vec[o][s].elems)
  PROVE  vec[o][s].buf # Null /\ vec[o][s].buf[2] = s /\ n <= vec[o][s].cap
<1>1. VectorsInv(vec[o], calls[o]) /\ s \in Slot
  BY DEF ContentsInv, ObjectInv, ScratchSlot, Slot
<1>2. /\ Len(vec[o][s].elems) \in Nat /\ vec[o][s].cap \in Nat
      /\ Len(vec[o][s].elems) <= vec[o][s].cap
  BY <1>1, LenProperties DEF VectorsInv, VectorInv, IsVec
<1>3. vec[o][s].cap > 0 /\ n <= vec[o][s].cap
  BY <1>2
<1> QED
  BY <1>1, <1>3 DEF VectorsInv

LEMMA HoldsAfterC ==
  ASSUME OptionsInv, ContentsInv, NEW o \in Object, NEW x, C(o, x),
         NEW b, NEW n \in Nat, NEW S, Holds(b, n, S),
         b # Null => b[2] \notin ScratchSlot
  PROVE  Holds(b, n, S)'
<1>1. CASE n = 0
  BY <1>1 DEF Holds
<1>2. CASE n # 0
  <2>1. PICK v \in Vectors : v.buf = b /\ Lists(v.elems, n, S)
    BY <1>2 DEF Holds
  <2>2. n <= Len(v.elems)
    BY <2>1 DEF Lists
  <2>3. o \in alive
    BY AfterC
  <2>4. ~ \E s \in ScratchSlot : v = vec[o][s]
    BY <1>2, <2>1, <2>2, <2>3, ScratchBuffer
  <2>5. v \in Vectors'
    BY <2>4, VectorsAfterC
  <2> QED
    BY <1>2, <2>1, <2>5 DEF Holds
<1> QED
  BY <1>1, <1>2

LEMMA HoldsCount ==
  ASSUME NEW b, NEW n \in Nat, NEW S \in SUBSET Int, Holds(b, n, S),
         NEW ys, NEW m \in Nat, Lists(ys, m, S)
  PROVE  n = m
<1>1. CASE n = 0
  <2>1. S = {} /\ S = {ys[i] : i \in 1 .. m}
    BY <1>1 DEF Holds, Lists
  <2>2. 1 .. m = {}
    BY <2>1
  <2> QED
    BY <1>1, <2>2
<1>2. CASE n # 0
  <2>1. PICK v \in Vectors : Lists(v.elems, n, S)
    BY <1>2 DEF Holds
  <2> QED
    BY <2>1, ListsSame
<1> QED
  BY <1>1, <1>2

(* What the entities of the created entities are in a view of the calls.   *)
LEMMA PlaceholdersAfterC ==
  ASSUME OptionsInv, ContentsInv, NEW o \in Object, NEW x, C(o, x),
         NEW p \in Vectors, NEW n \in Nat, n # 0,
         p.buf # Null, p.buf[2] = <<"create", "placeholder">>,
         Lists(p.elems, n, Queued(calls[o], "create"))
  PROVE  /\ n = Len(created[o])
         /\ \A j \in 1 .. n : p.elems[j] = created[o][j].placeholder
         /\ \E r \in Vectors' : /\ r.buf = p.buf
                                /\ Lists(r.elems, n, Queued(calls[o], "create"))
                                /\ \A j \in 1 .. n : r.elems[j] = p.elems[j]
<1> DEFINE c == created[o]
           cs == calls[o]
           S == Queued(cs, "create")
           slot == <<"create", "placeholder">>
<1>1. /\ o \in alive /\ cs \in Seq(Call) /\ BuildersInv(c, cs)
      /\ vec'[o][slot].elems = Placeholders(c)
      /\ Len(c) <= vec[o][slot].cap => vec'[o][slot].buf = vec[o][slot].buf
  BY AfterC
<1>2. Len(c) \in Nat /\ Lists(Placeholders(c), Len(c), S)
  BY <1>1, Collected DEF BuildersInv
<1>3. S \in SUBSET Int
  <2>1. Len(cs) \in Nat
    BY <1>1, LenProperties
  <2> QED
    BY <2>1 DEF Queued
<1>4. n = Len(c) /\ \A j \in 1 .. n : p.elems[j] = Placeholders(c)[j]
  <2> HIDE DEF c, S
  <2> QED
    BY <1>2, <1>3, ListsSame DEF S
<1>5. \A j \in 1 .. n : p.elems[j] = c[j].placeholder
  BY <1>4 DEF Placeholders
<1>6. n <= Len(p.elems)
  BY DEF Lists
<1>7. CASE p \in Vectors'
  BY <1>4, <1>5, <1>7
<1>8. CASE p \notin Vectors'
  <2>1. PICK s \in ScratchSlot : p = vec[o][s]
    BY <1>8, VectorsAfterC
  <2>2. p.buf[2] = s /\ n <= vec[o][s].cap
    BY <1>1, <1>6, <2>1, ScratchBuffer
  <2>3. s = slot
    BY <2>2
  <2>4. vec'[o][slot] \in Vectors'
    BY <2>3, VectorsAfterC
  <2>5. vec'[o][slot].buf = p.buf
    BY <1>1, <1>4, <2>1, <2>2, <2>3
  <2> QED
    BY <1>1, <1>2, <1>4, <1>5, <2>4, <2>5
<1> QED
  BY <1>7, <1>8

(* c() after no more calls leaves every view of those calls as it was.     *)
LEMMA ValidAfterC ==
  ASSUME OptionsInv, ContentsInv, ViewsInv, NEW o \in Object, NEW x, C(o, x),
         NEW w \in View, view[w] # NoView, view'[w] = view[w],
         view[w].calls = calls[o], Valid(w)
  PROVE  Valid(w)'
<1>1. PICK y : y = view[w]
  OBVIOUS
<1>2. ViewTags(y) /\ y.createSize \in Nat /\ \A k \in List : y.size[k] \in Nat
  BY <1>1 DEF ViewsInv, ViewTags
<1>3. /\ ValidLists(y)
      /\ IF y.createSize = 0 THEN Queued(y.calls, "create") = {} ELSE ValidCreates(y)
  BY <1>1 DEF Valid
<1>4. ValidLists(y)'
  <2>1. ASSUME NEW k \in EntityList PROVE Holds(y.entity[k], y.size[k], Queued(y.calls, k))'
    <3>1. Holds(y.entity[k], y.size[k], Queued(y.calls, k)) /\ y.size[k] \in Nat
      BY <1>2, <1>3 DEF ValidLists, List
    <3>2. CASE y.size[k] = 0
      BY <3>1, <3>2 DEF Holds
    <3>3. CASE y.size[k] # 0
      <4>1. y.entity[k][2] = <<"entity", k>>
        BY <1>2, <3>1, <3>3 DEF ViewTags
      <4>2. y.entity[k][2] \notin ScratchSlot
        BY <4>1 DEF ScratchSlot
      <4> QED
        BY <3>1, <4>2, HoldsAfterC
    <3> QED
      BY <3>2, <3>3
  <2>2. ASSUME NEW k \in DataList PROVE Holds(y.data[k], y.size[k], Queued(y.calls, k))'
    <3>1. Holds(y.data[k], y.size[k], Queued(y.calls, k)) /\ y.size[k] \in Nat
      BY <1>2, <1>3 DEF ValidLists, List
    <3>2. CASE y.size[k] = 0
      BY <3>1, <3>2 DEF Holds
    <3>3. CASE y.size[k] # 0
      <4>1. y.data[k][2] = <<"data", k>>
        BY <1>2, <3>1, <3>3 DEF ViewTags
      <4>2. y.data[k][2] \notin ScratchSlot
        BY <4>1 DEF ScratchSlot
      <4> QED
        BY <3>1, <4>2, HoldsAfterC
    <3> QED
      BY <3>2, <3>3
  <2> QED
    BY <2>1, <2>2 DEF ValidLists
<1>5. ASSUME y.createSize # 0 PROVE ValidCreates(y)'
  <2>1. PICK n : n = y.createSize
    OBVIOUS
  <2>2. n \in Nat /\ n # 0
    BY <1>2, <1>5, <2>1
  <2>3. PICK p \in Vectors :
          /\ p.buf = y.placeholder
          /\ Lists(p.elems, n, Queued(y.calls, "create"))
          /\ \E l \in Vectors :
               /\ l.buf = y.length
               /\ n <= Len(l.elems)
               /\ \E q \in alive :
                    /\ pointers[q].buf = y.pointer
                    /\ n <= Len(pointers[q].elems)
                    /\ \A j \in 1 .. n :
                         Holds(pointers[q].elems[j], l.elems[j], Built(y.calls, p.elems[j]))
    BY <1>3, <1>5, <2>1 DEF ValidCreates
  <2>4. PICK l \in Vectors :
          /\ l.buf = y.length
          /\ n <= Len(l.elems)
          /\ \E q \in alive :
               /\ pointers[q].buf = y.pointer
               /\ n <= Len(pointers[q].elems)
               /\ \A j \in 1 .. n :
                    Holds(pointers[q].elems[j], l.elems[j], Built(y.calls, p.elems[j]))
    BY <2>3
  <2>5. PICK q \in alive :
          /\ pointers[q].buf = y.pointer
          /\ n <= Len(pointers[q].elems)
          /\ \A j \in 1 .. n :
               Holds(pointers[q].elems[j], l.elems[j], Built(y.calls, p.elems[j]))
    BY <2>4
  <2>6. PICK c : c = created[o]
    OBVIOUS
  <2>7. /\ o \in alive /\ calls[o] = y.calls /\ calls[o] \in Seq(Call)
        /\ BuildersInv(c, calls[o])
        /\ vec'[o][<<"create", "length">>].elems = Lengths(c)
        /\ Len(c) <= vec[o][<<"create", "length">>].cap =>
             vec'[o][<<"create", "length">>].buf = vec[o][<<"create", "length">>].buf
        /\ pointers'[o].elems = Addresses(c)
        /\ Len(c) <= pointers[o].cap => pointers'[o].buf = pointers[o].buf
        /\ \A r \in Object : r # o => pointers'[r] = pointers[r]
        /\ alive' = alive
    BY <1>1, <2>6, AfterC
  <2>8. /\ y.placeholder # Null /\ y.placeholder[2] = <<"create", "placeholder">>
        /\ y.length # Null /\ y.length[2] = <<"create", "length">>
    BY <1>2, <2>1, <2>2 DEF ViewTags
  <2>9. /\ n = Len(c) /\ \A j \in 1 .. n : p.elems[j] = c[j].placeholder
        /\ \E r \in Vectors' : /\ r.buf = p.buf
                               /\ Lists(r.elems, n, Queued(calls[o], "create"))
                               /\ \A j \in 1 .. n : r.elems[j] = p.elems[j]
    <3>1. p.buf # Null /\ p.buf[2] = <<"create", "placeholder">>
      BY <2>3, <2>8
    <3>2. Lists(p.elems, n, Queued(calls[o], "create"))
      BY <2>3, <2>7
    <3>3. /\ n = Len(created[o])
          /\ \A j \in 1 .. n : p.elems[j] = created[o][j].placeholder
          /\ \E r \in Vectors' : /\ r.buf = p.buf
                                 /\ Lists(r.elems, n, Queued(calls[o], "create"))
                                 /\ \A j \in 1 .. n : r.elems[j] = p.elems[j]
      BY <2>2, <3>1, <3>2, PlaceholdersAfterC
    <3> QED
      BY <2>6, <3>3
  <2>10. PICK r \in Vectors' : /\ r.buf = p.buf
                               /\ Lists(r.elems, n, Queued(calls[o], "create"))
                               /\ \A j \in 1 .. n : r.elems[j] = p.elems[j]
    BY <2>9
  <2>11. ASSUME NEW j \in 1 .. n
         PROVE  /\ l.elems[j] \in Nat
                /\ l.elems[j] = Len(c[j].components.elems)
                /\ c[j].components \in Vectors'
                /\ Whole(c[j].components, Built(y.calls, p.elems[j]))
                /\ Holds(pointers[q].elems[j], l.elems[j], Built(y.calls, p.elems[j]))
    <3> DEFINE v == c[j].components
               S == Built(y.calls, p.elems[j])
    <3>1. VectorInv(v, Len(calls[o])) /\ Whole(v, S)
      BY <2>7, <2>9 DEF BuildersInv, BuilderInv
    <3>2. v \in Vectors'
      BY <2>6, <2>9, VectorsAfterC
    <3>3. Len(v.elems) \in Nat /\ Lists(v.elems, Len(v.elems), S)
      BY <3>1, LenProperties DEF VectorInv, IsVec, Whole
    <3>4. S \in SUBSET Int
      <4>1. Len(y.calls) \in Nat
        BY <2>7, LenProperties
      <4> QED
        BY <4>1 DEF Built, Queued
    <3>5. Holds(pointers[q].elems[j], l.elems[j], S)
      BY <2>5
    <3>6. l.elems[j] \in Nat
      <4>1. j \in 1 .. Len(l.elems)
        BY <2>2, <2>4, VectorTypes
      <4> QED
        BY <4>1, VectorTypes, ElementOfSeq
    <3> HIDE DEF v, S
    <3>7. l.elems[j] = Len(v.elems)
      BY <3>3, <3>4, <3>5, <3>6, HoldsCount
    <3> QED
      BY <3>1, <3>2, <3>5, <3>6, <3>7 DEF v, S
  <2>12. \E m \in Vectors' : /\ m.buf = y.length
                             /\ n <= Len(m.elems)
                             /\ \A j \in 1 .. n : m.elems[j] = l.elems[j]
    <3>1. CASE l \in Vectors'
      BY <2>4, <3>1
    <3>2. CASE l \notin Vectors'
      <4> DEFINE m == vec'[o][<<"create", "length">>]
      <4>1. PICK s \in ScratchSlot : l = vec[o][s]
        BY <3>2, VectorsAfterC
      <4>2. l.buf[2] = s /\ n <= vec[o][s].cap
        BY <2>2, <2>4, <2>7, <4>1, ScratchBuffer
      <4>3. s = <<"create", "length">>
        BY <2>4, <2>8, <4>2
      <4>4. m \in Vectors'
        BY <4>3, VectorsAfterC
      <4>5. m.buf = y.length
        BY <2>4, <2>7, <2>9, <4>1, <4>2, <4>3
      <4>6. Len(m.elems) = n
        BY <2>7, <2>9, Collected
      <4>7. \A j \in 1 .. n : m.elems[j] = l.elems[j]
        BY <2>7, <2>9, <2>11 DEF Lengths
      <4> HIDE DEF m
      <4> QED
        BY <2>2, <4>4, <4>5, <4>6, <4>7
    <3> QED
      BY <3>1, <3>2
  <2>13. PICK m \in Vectors' : /\ m.buf = y.length
                               /\ n <= Len(m.elems)
                               /\ \A j \in 1 .. n : m.elems[j] = l.elems[j]
    BY <2>12
  <2>14. /\ pointers'[q].buf = y.pointer /\ n <= Len(pointers'[q].elems)
         /\ \A j \in 1 .. n : Holds(pointers[q].elems[j], l.elems[j], Built(y.calls, p.elems[j]))'
    <3>1. q \in Object /\ PointersInv(pointers[q])
      BY DEF ContentsInv, ObjectInv
    <3>2. CASE q # o
      <4>1. pointers'[q] = pointers[q]
        BY <2>7, <3>1, <3>2
      <4>2. ASSUME NEW j \in 1 .. n
            PROVE  Holds(pointers[q].elems[j], l.elems[j], Built(y.calls, p.elems[j]))'
        <5>1. PICK b : b = pointers[q].elems[j]
          OBVIOUS
        <5>2. j \in 1 .. Len(pointers[q].elems)
          BY <2>2, <2>5, <3>1, SequenceFunction DEF PointersInv
        <5>3. b # Null => b[2] \notin ScratchSlot
          BY <3>1, <5>1, <5>2 DEF PointersInv, ScratchSlot
        <5>4. PICK i : i = l.elems[j]
          OBVIOUS
        <5>5. PICK S : S = Built(y.calls, p.elems[j])
          OBVIOUS
        <5>6. Holds(b, i, S) /\ i \in Nat
          BY <2>11, <5>1, <5>4, <5>5
        <5>7. Holds(b, i, S)'
          BY <5>3, <5>6, HoldsAfterC
        <5> QED
          BY <4>1, <5>1, <5>4, <5>5, <5>7
      <4> QED
        BY <2>5, <4>1, <4>2
    <3>3. CASE q = o
      <4>1. /\ Len(pointers'[q].elems) = n
            /\ \A j \in 1 .. n : pointers'[q].elems[j] = c[j].components.buf
        BY <2>7, <2>9, <3>3, Collected DEF Addresses
      <4>2. n <= pointers[o].cap
        BY <2>2, <2>5, <3>1, <3>3, SequenceFunction DEF PointersInv
      <4>3. pointers'[q].buf = y.pointer
        BY <2>5, <2>7, <2>9, <3>3, <4>2
      <4>4. ASSUME NEW j \in 1 .. n
            PROVE  Holds(pointers[q].elems[j], l.elems[j], Built(y.calls, p.elems[j]))'
        <5>1. PICK v : v = c[j].components
          OBVIOUS
        <5>2. PICK S : S = Built(y.calls, p.elems[j])
          OBVIOUS
        <5>3. v \in Vectors' /\ Whole(v, S)
          BY <2>11, <5>1, <5>2
        <5>4. Holds(v.buf, Len(v.elems), S)'
          <6>1. Lists(v.elems, Len(v.elems), S)
            BY <5>3 DEF Whole
          <6>2. Len(v.elems) = 0 => S = {}
            BY <6>1 DEF Lists
          <6> QED
            BY <5>3, <6>1, <6>2 DEF Holds
        <5>5. pointers'[q].elems[j] = v.buf /\ l.elems[j] = Len(v.elems)
          BY <2>11, <4>1, <5>1
        <5> QED
          BY <5>2, <5>4, <5>5
      <4> QED
        BY <2>2, <4>1, <4>3, <4>4
    <3> QED
      BY <3>2, <3>3
  <2>15. ASSUME NEW j \in 1 .. n
         PROVE  Holds(pointers[q].elems[j], m.elems[j], Built(y.calls, r.elems[j]))'
    <3>1. /\ m.elems[j] = l.elems[j] /\ r.elems[j] = p.elems[j]
          /\ Holds(pointers[q].elems[j], l.elems[j], Built(y.calls, p.elems[j]))'
      BY <2>10, <2>13, <2>14
    <3> QED
      BY <3>1
  <2>16. r.buf = y.placeholder /\ Lists(r.elems, n, Queued(y.calls, "create")) /\ q \in alive'
    BY <2>3, <2>7, <2>10
  <2> QED
    BY <2>1, <2>13, <2>14, <2>15, <2>16 DEF ValidCreates
<1> QED
  BY <1>1, <1>3, <1>4, <1>5 DEF Valid

LEMMA ViewsEnd ==
  ASSUME OptionsInv, ContentsInv, ViewsInv, Next,
         NEW w \in View, view[w] # NoView, view'[w] = view[w], Valid(w), ~Valid(w)'
  PROVE  \E o \in Object :
           \/ Clear(o) \/ Destruct(o) \/ Outgrows(o)
           \/ view[w].calls # calls[o] /\ \E x \in View : C(o, x)
<1>1. ~Kept
  BY KeptValid
<1>2. ASSUME NEW o \in Object, Construct(o) PROVE FALSE
  BY <1>1, <1>2, UnchangedKept DEF Construct
<1>3. ASSUME NEW o \in Object, NEW k \in ClientList, Push(o, k) PROVE Outgrows(o)
  BY <1>1, <1>3, PushKept
<1>4. ASSUME NEW o \in Object, CreateEntity(o) PROVE FALSE
  BY <1>1, <1>4, CreateEntityKept
<1>5. ASSUME NEW o \in Object, Build(o) PROVE Outgrows(o)
  BY <1>1, <1>5, BuildKept
<1>6. ASSUME NEW o \in Object, NEW x \in View, C(o, x) PROVE view[w].calls # calls[o]
  BY <1>6, ValidAfterC
<1>7. ASSUME NEW o \in Object, NEW p \in Object, Copy(o, p) PROVE FALSE
  <2>1. o \notin alive /\ alive' = alive \cup {o}
    BY <1>7 DEF Copy, Unused
  <2>2. \A q \in alive : vec'[q] = vec[q] /\ created'[q] = created[q] /\ pointers'[q] = pointers[q]
    BY <1>7, <2>1 DEF Copy, OptionsInv, ContentsInv
  <2> QED
    BY <1>1, <2>1, <2>2, UnchangedKept
<1>8. ASSUME NEW o \in Object, NEW p \in Object, Move(o, p) PROVE FALSE
  BY <1>1, <1>8, MoveKept
<1> QED
  BY <1>2, <1>3, <1>4, <1>5, <1>6, <1>7, <1>8 DEF Next

(* A view ends only by clear(), the destructor, a push_back that outgrows  *)
(* a vector, or a c() after more calls: never by create_entity, by what    *)
(* fits in a vector, by a c() that finds nothing new, by copying an object *)
(* or by moving it, which takes its buffers along.                         *)
THEOREM OptionsViewsEndOnlyWithReason == Spec => ViewsEndOnlyWithReason
<1>1. ASSUME OptionsInv, ContentsInv, ViewsInv, [Next]_vars
      PROVE  [\A w \in View :
                view[w] # NoView /\ view'[w] = view[w] /\ Valid(w) /\ ~Valid(w)' =>
                  \E o \in Object :
                    \/ Clear(o) \/ Destruct(o) \/ Outgrows(o)
                    \/ view[w].calls # calls[o] /\ \E x \in View : C(o, x)]_vars
  <2>1. CASE UNCHANGED vars
    BY <2>1
  <2>2. CASE Next
    <3> SUFFICES ASSUME NEW w \in View,
                        view[w] # NoView, view'[w] = view[w], Valid(w), ~Valid(w)'
                 PROVE  \E o \in Object :
                          \/ Clear(o) \/ Destruct(o) \/ Outgrows(o)
                          \/ view[w].calls # calls[o] /\ \E x \in View : C(o, x)
      OBVIOUS
    <3> QED
      BY <1>1, <2>2, ViewsEnd
  <2> QED
    BY <1>1, <2>1, <2>2
<1> QED
  BY <1>1, ViewsInvariant, PTL DEF Spec, ViewsEndOnlyWithReason

=============================================================================

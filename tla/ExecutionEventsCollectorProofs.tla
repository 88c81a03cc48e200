------------------- MODULE ExecutionEventsCollectorProofs -------------------
(***************************************************************************)
(* Proofs about ExecutionEventsCollector, for any kinds, components and    *)
(* snapshots and any number of calls and nested callbacks.                 *)
(***************************************************************************)
EXTENDS ExecutionEventsCollector, SequenceTheorems, TLAPS

(* A slot holds a callback that nothing has destroyed, and a running one   *)
(* was registered by some call.                                            *)
CallbacksLogged ==
  /\ \A s \in Slot : callback[s] # 0 =>
       callback[s] \in 1 .. Len(log) /\ ~Destroyed(s, callback[s])
  /\ \A i \in DOMAIN stack : stack[i].callback \in 1 .. Len(log)

CollectorInv ==
  /\ TypeOK
  /\ CallbacksLogged
  /\ RunningDestroyedByOwnSlot
  /\ AnyCallbackPresent

LEMMA InitCollectorInv == Init => CollectorInv
BY DEF Init, CollectorInv, TypeOK, CallbacksLogged, RunningDestroyedByOwnSlot, AnyCallbackPresent

LEMMA SlotMembers ==
  /\ \A k \in Kind, c \in ComponentId : <<"typed", k, c>> \in Slot
  /\ \A k \in Kind : <<"any", k>> \in Slot
  /\ \A e \in EntityEvent : <<"entity", e>> \in Slot
BY DEF Slot, TypedSlot, AnySlot, EntitySlot

LEMMA StackFrames ==
  ASSUME CollectorInv
  PROVE  /\ Len(stack) \in Nat /\ DOMAIN stack = 1 .. Len(stack)
         /\ \A i \in DOMAIN stack : stack[i] \in [slot : Slot, callback : Nat]
<1>1. stack \in Seq([slot : Slot, callback : Nat])
  BY DEF CollectorInv, TypeOK
<1>2. Len(stack) \in Nat /\ DOMAIN stack = 1 .. Len(stack)
  BY <1>1, LenProperties
<1>3. \A i \in 1 .. Len(stack) : stack[i] \in [slot : Slot, callback : Nat]
  BY <1>1, ElementOfSeq
<1> QED
  BY <1>2, <1>3

(* What one more call destroys.                                            *)
LEMMA DestroyedByCall ==
  ASSUME NEW what \in Slot \cup {<<"clear">>}, log \in Seq(Slot \cup {<<"clear">>}),
         log' = Append(log, what)
  PROVE  \A s \in Slot, n \in 0 .. Len(log) :
           Destroyed(s, n)' <=>
             Destroyed(s, n) \/ what = s \/ (what = <<"clear">> /\ s \notin AnySlot)
<1>1. /\ Len(log) \in Nat /\ Len(log') = Len(log) + 1 /\ log'[Len(log) + 1] = what
      /\ \A i \in 1 .. Len(log) : log'[i] = log[i]
  BY AppendProperties, LenProperties
<1> SUFFICES ASSUME NEW s \in Slot, NEW n \in 0 .. Len(log)
             PROVE  Destroyed(s, n)' <=>
                      Destroyed(s, n) \/ what = s \/ (what = <<"clear">> /\ s \notin AnySlot)
  OBVIOUS
<1> DEFINE Ends(x) == x = s \/ (x = <<"clear">> /\ s \notin AnySlot)
<1>2. /\ Destroyed(s, n) <=> \E j \in n + 1 .. Len(log) : Ends(log[j])
      /\ Destroyed(s, n)' <=> \E j \in n + 1 .. Len(log') : Ends(log'[j])
  BY Zenon DEF Destroyed, AnySlot
<1> HIDE DEF Ends
<1>3. /\ Len(log) + 1 \in n + 1 .. Len(log')
      /\ \A j \in n + 1 .. Len(log) : j \in 1 .. Len(log) /\ j \in n + 1 .. Len(log')
      /\ \A j \in n + 1 .. Len(log') : j = Len(log) + 1 \/ j \in n + 1 .. Len(log)
  BY <1>1
<1>4. (\E j \in n + 1 .. Len(log') : Ends(log'[j]))
        <=> (\E j \in n + 1 .. Len(log) : Ends(log[j])) \/ Ends(what)
  BY <1>1, <1>3, Zenon
<1> QED
  BY <1>2, <1>4 DEF Ends

(* A call that changes the collector replaces what is in its slot, or      *)
(* resets the slots that clear() resets, and nothing else.                 *)
LEMMA CalledKeepsLog ==
  ASSUME CollectorInv, NEW what \in Slot \cup {<<"clear">>}, Called(what),
         \A s \in Slot : callback'[s] = IF what = s THEN Len(log) + 1
                                        ELSE IF what = <<"clear">> /\ s \notin AnySlot THEN 0
                                        ELSE callback[s]
  PROVE  CallbacksLogged' /\ RunningDestroyedByOwnSlot'
<1>1. /\ log \in Seq(Slot \cup {<<"clear">>}) /\ log' = Append(log, what) /\ stack' = stack
      /\ callback \in [Slot -> Nat] /\ stack \in Seq([slot : Slot, callback : Nat])
  BY DEF CollectorInv, TypeOK, Called
<1>2. Len(log) \in Nat /\ Len(log)' = Len(log) + 1
  BY <1>1, AppendProperties, LenProperties
<1>3. \A s \in Slot, n \in 0 .. Len(log) :
        Destroyed(s, n)' <=>
          Destroyed(s, n) \/ what = s \/ (what = <<"clear">> /\ s \notin AnySlot)
  BY <1>1, DestroyedByCall
<1>4. ASSUME NEW s \in Slot, NEW m, m = callback'[s], m # 0
      PROVE  m \in 1 .. Len(log)' /\ ~Destroyed(s, m)'
  <2>1. CASE what = s
    <3>1. m = Len(log)'
      BY <1>2, <1>4, <2>1
    <3>2. m \in 1 .. Len(log)' /\ \A j \in m + 1 .. Len(log)' : FALSE
      BY <1>2, <3>1
    <3> QED
      BY <3>2 DEF Destroyed
  <2>2. CASE what # s
    <3>1. m = callback[s] /\ ~(what = <<"clear">> /\ s \notin AnySlot)
      BY <1>4, <2>2
    <3>2. m \in 1 .. Len(log) /\ ~Destroyed(s, m)
      BY <1>4, <3>1 DEF CollectorInv, CallbacksLogged
    <3>3. m \in 0 .. Len(log) /\ m \in 1 .. Len(log)'
      BY <1>2, <3>2
    <3> QED
      BY <1>3, <2>2, <3>1, <3>2, <3>3
  <2> QED
    BY <2>1, <2>2
<1>5. \A i \in DOMAIN stack : stack[i].callback \in 1 .. Len(log)'
  <2>1. \A i \in DOMAIN stack : stack[i].callback \in 1 .. Len(log)
    BY DEF CollectorInv, CallbacksLogged
  <2> QED
    BY <1>2, <2>1
<1>6. CallbacksLogged'
  BY <1>1, <1>4, <1>5 DEF CallbacksLogged
<1>7. ASSUME NEW i \in DOMAIN stack, NEW s, s = stack[i].slot, NEW n, n = stack[i].callback
      PROVE  callback'[s] # n <=> Destroyed(s, n)'
  <2>1. s \in Slot /\ n \in 1 .. Len(log) /\ n \in 0 .. Len(log)
    <3>1. n \in 1 .. Len(log) /\ stack[i] \in [slot : Slot, callback : Nat]
      BY <1>7, StackFrames DEF CollectorInv, CallbacksLogged
    <3> QED
      BY <1>2, <1>7, <3>1
  <2>2. callback[s] # n <=> Destroyed(s, n)
    BY <1>7 DEF CollectorInv, RunningDestroyedByOwnSlot
  <2>3. Destroyed(s, n)' <=>
          Destroyed(s, n) \/ what = s \/ (what = <<"clear">> /\ s \notin AnySlot)
    BY <1>3, <2>1
  <2>4. n # 0 /\ n # Len(log) + 1
    BY <1>2, <2>1
  <2> QED
    BY <2>1, <2>2, <2>3, <2>4
<1>8. RunningDestroyedByOwnSlot'
  BY <1>1, <1>7 DEF RunningDestroyedByOwnSlot
<1> QED
  BY <1>6, <1>8

(* A setter stores its callback in one slot.                               *)
LEMMA Stored ==
  ASSUME CollectorInv, NEW s \in Slot, Called(s), Store(s)
  PROVE  /\ callback' \in [Slot -> Nat]
         /\ callback'[s] # 0
         /\ \A q \in Slot \ {s} : callback'[q] = callback[q]
         /\ snapshot' \in [Snapshot -> SUBSET (Kind \cup EntityEvent)]
         /\ stack' \in Seq([slot : Slot, callback : Nat])
         /\ log' \in Seq(Slot \cup {<<"clear">>})
         /\ CallbacksLogged' /\ RunningDestroyedByOwnSlot'
<1>1. log \in Seq(Slot \cup {<<"clear">>}) /\ callback \in [Slot -> Nat]
  BY DEF CollectorInv, TypeOK
<1>2. Len(log) + 1 \in Nat /\ Len(log) + 1 # 0
  BY <1>1
<1>3. /\ callback' \in [Slot -> Nat]
      /\ callback'[s] = Len(log) + 1
      /\ \A q \in Slot \ {s} : callback'[q] = callback[q]
  BY <1>1, <1>2 DEF Store
<1>4. /\ snapshot' \in [Snapshot -> SUBSET (Kind \cup EntityEvent)]
      /\ stack' \in Seq([slot : Slot, callback : Nat])
  BY DEF CollectorInv, TypeOK, Called
<1>5. log' \in Seq(Slot \cup {<<"clear">>})
  BY <1>1 DEF Called
<1>6. s # <<"clear">>
  BY DEF Slot, TypedSlot, AnySlot, EntitySlot
<1>7. CallbacksLogged' /\ RunningDestroyedByOwnSlot'
  BY <1>3, <1>6, CalledKeepsLog
<1> QED
  BY <1>2, <1>3, <1>4, <1>5, <1>7

(* What the stack and the log need not change: the rest of the members.    *)
LEMMA SameCallbacks ==
  ASSUME CollectorInv, UNCHANGED <<callback, log>>,
         \A i \in DOMAIN stack' : i \in DOMAIN stack /\ stack'[i] = stack[i]
  PROVE  CallbacksLogged' /\ RunningDestroyedByOwnSlot'
<1>1. \A s, n : Destroyed(s, n)' <=> Destroyed(s, n)
  BY DEF Destroyed
<1>2. /\ \A s \in Slot : callback[s] # 0 =>
           callback[s] \in 1 .. Len(log) /\ ~Destroyed(s, callback[s])
      /\ \A i \in DOMAIN stack : stack[i].callback \in 1 .. Len(log)
      /\ \A i \in DOMAIN stack :
           callback[stack[i].slot] # stack[i].callback
             <=> Destroyed(stack[i].slot, stack[i].callback)
  BY DEF CollectorInv, CallbacksLogged, RunningDestroyedByOwnSlot
<1>3. CallbacksLogged'
  BY <1>1, <1>2 DEF CallbacksLogged, Destroyed
<1>4. RunningDestroyedByOwnSlot'
  <2>1. \A i \in DOMAIN stack' :
          callback[stack'[i].slot] # stack'[i].callback
            <=> Destroyed(stack'[i].slot, stack'[i].callback)
    BY <1>2
  <2> QED
    BY <2>1 DEF RunningDestroyedByOwnSlot, Destroyed
<1> QED
  BY <1>3, <1>4

(* An event puts the callback its slot holds on the stack.                 *)
LEMMA Running ==
  ASSUME CollectorInv, NEW s \in Slot, Run(s)
  PROVE  CollectorInv'
<1> DEFINE frame == [slot |-> s, callback |-> callback[s]]
<1>1. stack \in Seq([slot : Slot, callback : Nat]) /\ callback[s] \in Nat
  BY DEF CollectorInv, TypeOK
<1>2. frame \in [slot : Slot, callback : Nat] /\ stack' = Append(stack, frame)
      /\ UNCHANGED <<current, callback, snapshot, log>>
  BY <1>1 DEF Run
<1>3. TypeOK'
  BY <1>1, <1>2 DEF CollectorInv, TypeOK
<1>4. \A i \in DOMAIN stack' : stack'[i] = frame \/ (i \in DOMAIN stack /\ stack'[i] = stack[i])
  <2>1. DOMAIN stack = 1 .. Len(stack) /\ DOMAIN stack' = 1 .. Len(stack) + 1 /\ Len(stack) \in Nat
        /\ stack'[Len(stack) + 1] = frame /\ \A i \in 1 .. Len(stack) : stack'[i] = stack[i]
    BY <1>1, <1>2, AppendProperties, LenProperties
  <2> HIDE DEF frame
  <2> QED
    BY <2>1
<1>5. callback[s] \in 1 .. Len(log) /\ ~Destroyed(s, callback[s])
  BY DEF Run, CollectorInv, CallbacksLogged
<1>6. /\ frame.slot = s /\ frame.callback = callback[s]
  OBVIOUS
<1> HIDE DEF frame
<1>7. \A q, n : Destroyed(q, n)' <=> Destroyed(q, n)
  BY <1>2 DEF Destroyed
<1>8. CallbacksLogged'
  <2>1. \A i \in DOMAIN stack' : stack'[i].callback \in 1 .. Len(log)
    BY <1>4, <1>5, <1>6 DEF CollectorInv, CallbacksLogged
  <2>2. \A q \in Slot : callback[q] # 0 =>
          callback[q] \in 1 .. Len(log) /\ ~Destroyed(q, callback[q])
    BY DEF CollectorInv, CallbacksLogged
  <2> QED
    BY <1>2, <2>1, <2>2 DEF CallbacksLogged, Destroyed
<1>9. RunningDestroyedByOwnSlot'
  <2>1. \A i \in DOMAIN stack' :
          callback[stack'[i].slot] # stack'[i].callback
            <=> Destroyed(stack'[i].slot, stack'[i].callback)
    BY <1>4, <1>5, <1>6 DEF CollectorInv, RunningDestroyedByOwnSlot
  <2> QED
    BY <1>2, <2>1 DEF RunningDestroyedByOwnSlot, Destroyed
<1>10. AnyCallbackPresent'
  BY <1>2 DEF CollectorInv, AnyCallbackPresent
<1> QED
  BY <1>3, <1>8, <1>9, <1>10 DEF CollectorInv

LEMMA NextCollectorInv == CollectorInv /\ [Next]_vars => CollectorInv'
<1> SUFFICES ASSUME CollectorInv, [Next]_vars PROVE CollectorInv'
  OBVIOUS
<1>1. ASSUME NEW k \in Kind, NEW c \in ComponentId, SetTyped(k, c) PROVE CollectorInv'
  <2>1. <<"typed", k, c>> \in Slot /\ \A j \in Kind : <<"any", j>> \in Slot \ {<<"typed", k, c>>}
    BY SlotMembers
  <2> QED
    BY <1>1, <2>1, Stored DEF SetTyped, CollectorInv, TypeOK, AnyCallbackPresent
<1>2. ASSUME NEW k \in Kind, SetAny(k) PROVE CollectorInv'
  <2>1. <<"any", k>> \in Slot /\ \A j \in Kind \ {k} : <<"any", j>> \in Slot \ {<<"any", k>>}
    BY SlotMembers
  <2> QED
    BY <1>2, <2>1, Stored DEF SetAny, CollectorInv, TypeOK, AnyCallbackPresent
<1>3. ASSUME NEW e \in EntityEvent, SetEntity(e) PROVE CollectorInv'
  <2>1. <<"entity", e>> \in Slot /\ \A j \in Kind : <<"any", j>> \in Slot \ {<<"entity", e>>}
    BY SlotMembers
  <2> QED
    BY <1>3, <2>1, Stored DEF SetEntity, CollectorInv, TypeOK, AnyCallbackPresent
<1>4. CASE Clear
  <2>1. TypeOK'
    BY <1>4 DEF Clear, Called, CollectorInv, TypeOK
  <2>2. \A s \in Slot : s # <<"clear">>
    BY DEF Slot, TypedSlot, AnySlot, EntitySlot
  <2>3. CallbacksLogged' /\ RunningDestroyedByOwnSlot'
    BY <1>4, <2>2, CalledKeepsLog DEF Clear
  <2>4. AnyCallbackPresent'
    BY <1>4 DEF Clear, AnyCallbackPresent
  <2> QED
    BY <2>1, <2>3, <2>4 DEF CollectorInv
<1>5. ASSUME NEW p \in Snapshot, C(p) PROVE CollectorInv'
  <2>1. CallbacksLogged' /\ RunningDestroyedByOwnSlot'
    BY <1>5, SameCallbacks DEF C
  <2> QED
    BY <1>5, <2>1 DEF C, Events, CollectorInv, TypeOK, AnyCallbackPresent
<1>6. ASSUME NEW p \in Snapshot, NEW k \in Kind, NEW c \in ComponentId,
             ComponentEvent(p, k, c)
      PROVE CollectorInv'
  BY <1>6, Running, SlotMembers DEF ComponentEvent, ComponentSlot
<1>7. ASSUME NEW p \in Snapshot, NEW e \in EntityEvent, EntityCallback(p, e)
      PROVE CollectorInv'
  BY <1>7, Running, SlotMembers DEF EntityCallback
<1>8. CASE Return
  <2> DEFINE n == Len(stack) - 1
  <2>1. stack \in Seq([slot : Slot, callback : Nat]) /\ n \in Nat
    BY <1>8, EmptySeq DEF Return, CollectorInv, TypeOK
  <2>a. stack' = SubSeq(stack, 1, n)
    BY <1>8 DEF Return
  <2>b. \A i \in 1 .. n : i \in DOMAIN stack /\ stack[i] \in [slot : Slot, callback : Nat]
    <3>1. DOMAIN stack = 1 .. n + 1 /\ \A i \in 1 .. n : i \in 1 .. n + 1
      BY <2>1, StackFrames
    <3>2. \A i \in DOMAIN stack : stack[i] \in [slot : Slot, callback : Nat]
      BY StackFrames
    <3> HIDE DEF n
    <3> QED
      BY <3>1, <3>2
  <2>c. /\ stack' \in Seq([slot : Slot, callback : Nat])
        /\ Len(stack') = n
        /\ \A i \in 1 .. n : stack'[i] = stack[i]
    <3> HIDE DEF n
    <3>1. /\ SubSeq(stack, 1, n) \in Seq([slot : Slot, callback : Nat])
          /\ Len(SubSeq(stack, 1, n)) = IF 1 <= n THEN n - 1 + 1 ELSE 0
          /\ \A i \in 1 .. n - 1 + 1 : SubSeq(stack, 1, n)[i] = stack[1 + i - 1]
      BY <2>1, <2>b, SubSeqProperties
    <3> QED
      BY <3>1, <2>1, <2>a
  <2>2. /\ stack' \in Seq([slot : Slot, callback : Nat])
        /\ \A i \in DOMAIN stack' : i \in DOMAIN stack /\ stack'[i] = stack[i]
    BY <2>b, <2>c, LenProperties
  <2> QED
    <3>1. CallbacksLogged' /\ RunningDestroyedByOwnSlot'
      BY <1>8, <2>2, SameCallbacks DEF Return
    <3> QED
      BY <1>8, <2>2, <3>1 DEF Return, CollectorInv, TypeOK, AnyCallbackPresent
<1>9. CASE UNCHANGED vars
  <2>1. CallbacksLogged' /\ RunningDestroyedByOwnSlot'
    BY <1>9, SameCallbacks DEF vars
  <2> QED
    BY <1>9, <2>1 DEF vars, CollectorInv, TypeOK, AnyCallbackPresent
<1> QED
  BY <1>1, <1>2, <1>3, <1>4, <1>5, <1>6, <1>7, <1>8, <1>9 DEF Next

(* Every reachable state of the collector satisfies the invariant.         *)
THEOREM CollectorInvariant == Spec => []CollectorInv
BY InitCollectorInv, NextCollectorInv, PTL DEF Spec

(* The members of the collector and the snapshots keep their types.        *)
THEOREM CollectorTypeCorrect == Spec => []TypeOK
<1>1. CollectorInv => TypeOK
  BY DEF CollectorInv
<1> QED
  BY <1>1, CollectorInvariant, PTL

(* A callback is destroyed while it runs by a registration in its own slot *)
(* and, unless it is one for any component, by clear(), and by nothing     *)
(* else that set_..._callback, clear(), c() and nested callbacks do.       *)
THEOREM CollectorRunningDestroyedByOwnSlot == Spec => []RunningDestroyedByOwnSlot
<1>1. CollectorInv => RunningDestroyedByOwnSlot
  BY DEF CollectorInv
<1> QED
  BY <1>1, CollectorInvariant, PTL

(* No trampoline ever calls an empty callback for any component.           *)
THEOREM CollectorAnyCallbackPresent == Spec => []AnyCallbackPresent
<1>1. CollectorInv => AnyCallbackPresent
  BY DEF CollectorInv
<1> QED
  BY <1>1, CollectorInvariant, PTL

-----------------------------------------------------------------------------
(* Which registration an event finds. *)

LEMMA SlotsDiffer ==
  /\ <<"clear">> \notin Slot
  /\ \A k \in Kind : SlotsOf(k) \subseteq Slot
  /\ \A j, k \in Kind, c \in ComponentId : <<"typed", k, c>> \in SlotsOf(j) <=> j = k
  /\ \A j, k \in Kind : <<"any", k>> \in SlotsOf(j) <=> j = k
  /\ \A k \in Kind, e \in EntityEvent : <<"entity", e>> \notin SlotsOf(k)
  /\ \A j, k \in Kind, c \in ComponentId : <<"typed", k, c>> # <<"any", j>>
  /\ \A k \in Kind : <<"any", k>> \notin TypedSlot \cup EntitySlot
  /\ \A j \in Kind, e \in EntityEvent : <<"entity", e>> # <<"any", j>>
BY DEF Slot, TypedSlot, AnySlot, EntitySlot, SlotsOf

(* The calls LatestIn looks at. *)
Since(slots) ==
  {i \in DOMAIN log : /\ log[i] \in slots
                      /\ \A j \in i .. Len(log) : log[j] # <<"clear">>}

LEMMA NoneIsZero == ASSUME NEW slots, Since(slots) = {} PROVE LatestIn(slots) = 0
BY DEF LatestIn, Since

LEMMA LatestOfSince ==
  ASSUME NEW slots
  PROVE  /\ LatestIn(slots) =
              IF Since(slots) = {} THEN 0
              ELSE CHOOSE i \in Since(slots) : \A j \in Since(slots) : j <= i
         /\ LatestIn(slots)' =
              IF Since(slots)' = {} THEN 0
              ELSE CHOOSE i \in Since(slots)' : \A j \in Since(slots)' : j <= i
BY Zenon DEF LatestIn, Since

(* What one more entry does to the latest call in some slots.              *)
LEMMA LogAppended ==
  ASSUME NEW what \in Slot \cup {<<"clear">>}, log \in Seq(Slot \cup {<<"clear">>}),
         log' = Append(log, what), NEW slots \in SUBSET Slot
  PROVE  LatestIn(slots)' = IF what \in slots THEN Len(log) + 1
                            ELSE IF what = <<"clear">> THEN 0 ELSE LatestIn(slots)
<1> DEFINE n == Len(log) + 1
<1>1. /\ n \in Nat /\ n > Len(log) /\ Len(log') = n
      /\ DOMAIN log = 1 .. Len(log) /\ DOMAIN log' = 1 .. n /\ log'[n] = what
      /\ \A i \in 1 .. Len(log) : log'[i] = log[i]
      /\ log' \in Seq(Slot \cup {<<"clear">>})
  BY AppendProperties, LenProperties
<1>2. Since(slots) \subseteq 1 .. Len(log) /\ Since(slots)' \subseteq 1 .. n
  BY <1>1 DEF Since
<1>3. <<"clear">> \notin slots
  BY SlotsDiffer
<1>4. CASE what \in slots
  <2>1. n \in Since(slots)'
    BY <1>1, <1>3, <1>4 DEF Since
  <2>2. \A i \in Since(slots)' : i <= n
    BY <1>1, <1>2
  <2>3. LatestIn(slots)' = n
    <3> DEFINE latest == CHOOSE i \in Since(slots)' : \A j \in Since(slots)' : j <= i
    <3>1. latest \in Since(slots)' /\ \A j \in Since(slots)' : j <= latest
      BY <2>1, <2>2
    <3>2. latest = n
      <4> HIDE DEF latest
      <4>1. latest \in Nat /\ latest <= n /\ n <= latest
        BY <1>1, <1>2, <2>1, <2>2, <3>1
      <4> QED
        BY <1>1, <4>1
    <3>3. LatestIn(slots)' = latest
      BY <2>1, LatestOfSince
    <3> QED
      BY <3>2, <3>3
  <2> QED
    BY <1>4, <2>3
<1>5. CASE what = <<"clear">>
  <2>1. Since(slots)' = {}
    BY <1>1, <1>3, <1>5 DEF Since
  <2>2. LatestIn(slots)' = 0
    BY <2>1 DEF LatestIn, Since
  <2> QED
    BY <1>3, <1>5, <2>2
<1>6. CASE what \notin slots /\ what # <<"clear">>
  <2>1. \A i \in 1 .. n : i \in Since(slots)' <=> i \in Since(slots)
    <3> SUFFICES ASSUME NEW i \in 1 .. n
                 PROVE  i \in Since(slots)' <=> i \in Since(slots)
      OBVIOUS
    <3>1. CASE i = n
      BY <1>1, <1>6, <3>1 DEF Since
    <3>2. CASE i # n
      <4>1. i \in 1 .. Len(log) /\ log'[i] = log[i]
        BY <1>1, <3>2
      <4>2. (\A j \in i .. n : log'[j] # <<"clear">>)
              <=> (\A j \in i .. Len(log) : log[j] # <<"clear">>)
        <5>1. n \in i .. n /\ \A j \in i .. Len(log) : j \in i .. n /\ j \in 1 .. Len(log)
          BY <1>1, <4>1
        <5>2. \A j \in i .. n : j = n \/ j \in i .. Len(log)
          BY <1>1, <4>1
        <5> HIDE DEF n
        <5> QED
          BY <1>1, <1>6, <5>1, <5>2, Zenon
      <4> QED
        BY <1>1, <4>1, <4>2 DEF Since
    <3> QED
      BY <3>1, <3>2
  <2>2. Since(slots) \subseteq 1 .. n /\ Since(slots)' \subseteq 1 .. n
    BY <1>1, <1>2
  <2>3. Since(slots)' = Since(slots)
    BY <2>1, <2>2, Zenon
  <2>4. LatestIn(slots)' = LatestIn(slots)
    BY <2>3, LatestOfSince
  <2> QED
    BY <1>6, <2>4
<1> QED
  BY <1>4, <1>5, <1>6
(* What the members hold, and where the dispatch pointers point, in terms  *)
(* of the calls that were made.                                            *)
Dispatch(k) ==
  LET last == LatestIn(SlotsOf(k))
  IN  /\ last \in 0 .. Len(log)
      /\ current[k] = IF last = 0 THEN "null"
                      ELSE IF log[last] = <<"any", k>> THEN "any" ELSE "typed"
      /\ current[k] = "any" => callback[<<"any", k>>] = last

DispatchInv ==
  /\ \A k \in Kind : Dispatch(k)
  /\ \A s \in TypedSlot \cup EntitySlot : callback[s] = LatestIn({s})

LEMMA InitDispatchInv == Init => DispatchInv
<1> SUFFICES ASSUME Init PROVE DispatchInv
  OBVIOUS
<1>1. Len(log) = 0 /\ DOMAIN log = {}
  BY DEF Init
<1>2. \A slots : LatestIn(slots) = 0
  BY <1>1, NoneIsZero DEF Since
<1>3. ASSUME NEW k \in Kind PROVE Dispatch(k)
  <2>1. LatestIn(SlotsOf(k)) = 0 /\ 0 \in 0 .. Len(log) /\ current[k] = "null"
    BY <1>1, <1>2 DEF Init
  <2> QED
    BY <2>1 DEF Dispatch
<1>4. \A s \in TypedSlot \cup EntitySlot : callback[s] = LatestIn({s})
  BY <1>2 DEF Init, Slot
<1> QED
  BY <1>3, <1>4 DEF DispatchInv

(* A setter of slot s makes it the latest of the kinds it belongs to.      *)
LEMMA SetterLatest ==
  ASSUME CollectorInv, NEW s \in Slot, Called(s), Store(s)
  PROVE  /\ Len(log) \in Nat /\ Len(log') = Len(log) + 1 /\ log'[Len(log) + 1] = s
         /\ \A i \in 1 .. Len(log) : log'[i] = log[i]
         /\ \A slots \in SUBSET Slot :
              LatestIn(slots)' = IF s \in slots THEN Len(log) + 1 ELSE LatestIn(slots)
         /\ callback'[s] = Len(log) + 1
         /\ \A q \in Slot \ {s} : callback'[q] = callback[q]
<1>1. log \in Seq(Slot \cup {<<"clear">>}) /\ callback \in [Slot -> Nat]
  BY DEF CollectorInv, TypeOK
<1>2. log' = Append(log, s) /\ s # <<"clear">>
  BY SlotsDiffer DEF Called
<1>3. \A slots \in SUBSET Slot :
        LatestIn(slots)' = IF s \in slots THEN Len(log) + 1 ELSE LatestIn(slots)
  BY <1>1, <1>2, LogAppended
<1>4. callback'[s] = Len(log) + 1 /\ \A q \in Slot \ {s} : callback'[q] = callback[q]
  BY <1>1 DEF Store
<1>5. /\ Len(log) \in Nat /\ Len(log') = Len(log) + 1 /\ log'[Len(log) + 1] = s
      /\ \A i \in 1 .. Len(log) : log'[i] = log[i]
  BY <1>1, <1>2, AppendProperties, LenProperties
<1> QED
  BY <1>3, <1>4, <1>5

(* A kind that a setter does not belong to is left as it was.              *)
LEMMA OtherKind ==
  ASSUME CollectorInv, DispatchInv, NEW s \in Slot, Called(s), Store(s),
         NEW k \in Kind, s \notin SlotsOf(k), current'[k] = current[k]
  PROVE  Dispatch(k)'
<1> DEFINE last == LatestIn(SlotsOf(k))
<1>1. LatestIn(SlotsOf(k))' = last
  BY SetterLatest, SlotsDiffer
<1>2. last \in 0 .. Len(log) /\ Len(log) \in Nat
  BY SetterLatest DEF DispatchInv, Dispatch
<1>3. last # 0 => log'[last] = log[last]
  BY <1>2, SetterLatest
<1>4. callback'[<<"any", k>>] = callback[<<"any", k>>]
  BY SetterLatest, SlotsDiffer, SlotMembers
<1>5. last \in 0 .. Len(log')
  BY <1>2, SetterLatest
<1>6. SlotsOf(k)' = SlotsOf(k)
  BY DEF SlotsOf
<1>7. /\ current[k] = IF last = 0 THEN "null"
                      ELSE IF log[last] = <<"any", k>> THEN "any" ELSE "typed"
      /\ current[k] = "any" => callback[<<"any", k>>] = last
  BY DEF DispatchInv, Dispatch
<1> HIDE DEF last
<1> QED
  BY <1>1, <1>3, <1>4, <1>5, <1>6, <1>7 DEF Dispatch

LEMMA SetterSlots ==
  ASSUME CollectorInv, DispatchInv, NEW s \in Slot, Called(s), Store(s)
  PROVE  \A q \in TypedSlot \cup EntitySlot : callback'[q] = LatestIn({q})'
<1> SUFFICES ASSUME NEW q \in TypedSlot \cup EntitySlot
             PROVE  callback'[q] = LatestIn({q})'
  OBVIOUS
<1>1. q \in Slot /\ {q} \in SUBSET Slot
  BY DEF Slot
<1>2. callback[q] = LatestIn({q})
  BY DEF DispatchInv
<1> QED
  BY <1>1, <1>2, SetterLatest

LEMMA ClearDispatchInv == ASSUME CollectorInv, DispatchInv, Clear PROVE DispatchInv'
<1>1. log \in Seq(Slot \cup {<<"clear">>}) /\ log' = Append(log, <<"clear">>)
  BY DEF CollectorInv, TypeOK, Clear, Called
<1>2. \A slots \in SUBSET Slot : LatestIn(slots)' = 0
  BY <1>1, SlotsDiffer, LogAppended
<1>3. Len(log') \in Nat
  BY <1>1
<1>4. \A k \in Kind : Dispatch(k)'
  <2> SUFFICES ASSUME NEW k \in Kind PROVE Dispatch(k)'
    OBVIOUS
  <2>1. LatestIn(SlotsOf(k))' = 0 /\ SlotsOf(k)' = SlotsOf(k) /\ current'[k] = "null"
    BY <1>2, SlotsDiffer DEF Clear, SlotsOf
  <2> QED
    BY <1>3, <2>1 DEF Dispatch
<1>5. \A q \in TypedSlot \cup EntitySlot : callback'[q] = LatestIn({q})'
  <2> SUFFICES ASSUME NEW q \in TypedSlot \cup EntitySlot
               PROVE  callback'[q] = LatestIn({q})'
    OBVIOUS
  <2>1. q \in Slot /\ {q} \in SUBSET Slot /\ q \notin AnySlot
    BY DEF Slot, TypedSlot, EntitySlot, AnySlot
  <2> QED
    BY <1>2, <2>1 DEF Clear
<1> QED
  BY <1>4, <1>5 DEF DispatchInv, TypedSlot, EntitySlot

LEMMA NextDispatchInv == CollectorInv /\ DispatchInv /\ [Next]_vars => DispatchInv'
<1> SUFFICES ASSUME CollectorInv, DispatchInv, [Next]_vars PROVE DispatchInv'
  OBVIOUS
<1>a. current \in [Kind -> {"null", "typed", "any"}]
  BY DEF CollectorInv, TypeOK
<1>1. ASSUME NEW k \in Kind, NEW c \in ComponentId, SetTyped(k, c) PROVE DispatchInv'
  <2> DEFINE s == <<"typed", k, c>>
  <2>1. s \in Slot /\ Called(s) /\ Store(s) /\ current' = [current EXCEPT ![k] = "typed"]
    BY <1>1, SlotMembers DEF SetTyped
  <2>2. s \in SlotsOf(k) /\ s # <<"any", k>> /\ \A j \in Kind \ {k} : s \notin SlotsOf(j)
    BY SlotsDiffer
  <2> HIDE DEF s
  <2>3. \A j \in Kind \ {k} : Dispatch(j)'
    BY <1>a, <2>1, <2>2, OtherKind
  <2>4. Dispatch(k)'
    <3>1. LatestIn(SlotsOf(k))' = Len(log) + 1 /\ SlotsOf(k)' = SlotsOf(k)
      BY <2>1, <2>2, SetterLatest, SlotsDiffer DEF SlotsOf
    <3>2. Len(log) + 1 \in 0 .. Len(log') /\ log'[Len(log) + 1] = s /\ Len(log) + 1 # 0
      BY <2>1, SetterLatest
    <3>3. current'[k] = "typed"
      BY <1>a, <2>1
    <3> QED
      BY <2>2, <3>1, <3>2, <3>3 DEF Dispatch
  <2> QED
    BY <2>1, <2>3, <2>4, SetterSlots DEF DispatchInv, TypedSlot, EntitySlot
<1>2. ASSUME NEW k \in Kind, SetAny(k) PROVE DispatchInv'
  <2> DEFINE s == <<"any", k>>
  <2>1. s \in Slot /\ Called(s) /\ Store(s) /\ current' = [current EXCEPT ![k] = "any"]
    BY <1>2, SlotMembers DEF SetAny
  <2>2. s \in SlotsOf(k) /\ s = <<"any", k>> /\ \A j \in Kind \ {k} : s \notin SlotsOf(j)
    BY SlotsDiffer
  <2> HIDE DEF s
  <2>3. \A j \in Kind \ {k} : Dispatch(j)'
    BY <1>a, <2>1, <2>2, OtherKind
  <2>4. Dispatch(k)'
    <3>1. LatestIn(SlotsOf(k))' = Len(log) + 1 /\ SlotsOf(k)' = SlotsOf(k)
      BY <2>1, <2>2, SetterLatest, SlotsDiffer DEF SlotsOf
    <3>2. /\ Len(log) + 1 \in 0 .. Len(log') /\ log'[Len(log) + 1] = s /\ Len(log) + 1 # 0
          /\ callback'[s] = Len(log) + 1
      BY <2>1, SetterLatest
    <3>3. current'[k] = "any"
      BY <1>a, <2>1
    <3> QED
      BY <2>2, <3>1, <3>2, <3>3 DEF Dispatch
  <2> QED
    BY <2>1, <2>3, <2>4, SetterSlots DEF DispatchInv, TypedSlot, EntitySlot
<1>3. ASSUME NEW e \in EntityEvent, SetEntity(e) PROVE DispatchInv'
  <2> DEFINE s == <<"entity", e>>
  <2>1. s \in Slot /\ Called(s) /\ Store(s) /\ current' = current
    BY <1>3, SlotMembers DEF SetEntity
  <2>2. \A j \in Kind : s \notin SlotsOf(j)
    BY SlotsDiffer
  <2> HIDE DEF s
  <2>3. \A j \in Kind : Dispatch(j)'
    BY <2>1, <2>2, OtherKind
  <2> QED
    BY <2>1, <2>3, SetterSlots DEF DispatchInv, TypedSlot, EntitySlot
<1>4. CASE Clear
  BY <1>4, ClearDispatchInv
<1>5. ASSUME UNCHANGED <<current, callback, log>> PROVE DispatchInv'
  <2>1. \A slots : Since(slots)' = Since(slots)
    BY <1>5 DEF Since
  <2>2. \A slots : LatestIn(slots)' = LatestIn(slots)
    BY <2>1, LatestOfSince
  <2>3. ASSUME NEW k \in Kind PROVE Dispatch(k)'
    <3>1. SlotsOf(k)' = SlotsOf(k) /\ Dispatch(k)
      BY DEF SlotsOf, DispatchInv
    <3>2. LatestIn(SlotsOf(k))' = LatestIn(SlotsOf(k))
      BY <2>2, <3>1
    <3> QED
      BY <1>5, <3>1, <3>2 DEF Dispatch
  <2>4. ASSUME NEW s \in TypedSlot \cup EntitySlot PROVE callback'[s] = LatestIn({s})'
    <3>1. LatestIn({s})' = LatestIn({s})
      BY <2>2
    <3> QED
      BY <1>5, <3>1 DEF DispatchInv
  <2> QED
    BY <2>3, <2>4 DEF DispatchInv, TypedSlot, EntitySlot
<1>6. (\E p \in Snapshot : C(p)) \/ Return \/ UNCHANGED vars
        => UNCHANGED <<current, callback, log>>
  BY DEF C, Return, vars
<1>7. (\E p \in Snapshot, k \in Kind, c \in ComponentId : ComponentEvent(p, k, c))
        \/ (\E p \in Snapshot, e \in EntityEvent : EntityCallback(p, e))
        => UNCHANGED <<current, callback, log>>
  BY DEF ComponentEvent, EntityCallback, Run
<1> QED
  BY <1>1, <1>2, <1>3, <1>4, <1>5, <1>6, <1>7 DEF Next

(* Every reachable state of the collector satisfies both invariants.       *)
THEOREM DispatchInvariant == Spec => [](CollectorInv /\ DispatchInv)
BY InitCollectorInv, NextCollectorInv, InitDispatchInv, NextDispatchInv, PTL DEF Spec

(* An event runs the callback registered last for it since the last        *)
(* clear(), whatever was called in whatever order, nested or not.          *)
THEOREM CollectorLatestRegistrationRuns == Spec => []LatestRegistrationRuns
<1>1. ASSUME DispatchInv PROVE LatestRegistrationRuns
  <2>1. ASSUME NEW k \in Kind, NEW c \in ComponentId, LatestIn(SlotsOf(k)) # 0
        PROVE  callback[ComponentSlot(k, c)] =
                 IF log[LatestIn(SlotsOf(k))] = <<"any", k>> THEN LatestIn(SlotsOf(k))
                 ELSE LatestIn({<<"typed", k, c>>})
    <3>1. <<"typed", k, c>> \in TypedSlot
      BY DEF TypedSlot
    <3> QED
      BY <1>1, <2>1, <3>1 DEF DispatchInv, Dispatch, ComponentSlot
  <2>2. \A k \in Kind : LatestIn(SlotsOf(k)) = 0 => current[k] = "null"
    BY <1>1 DEF DispatchInv, Dispatch
  <2>3. \A e \in EntityEvent : callback[<<"entity", e>>] = LatestIn({<<"entity", e>>})
    BY <1>1 DEF DispatchInv, EntitySlot
  <2> QED
    BY <2>1, <2>2, <2>3 DEF LatestRegistrationRuns
<1> QED
  BY <1>1, DispatchInvariant, PTL

(* What c() hands out has a callback exactly for the events somebody       *)
(* registered for since the last clear(), and empty() agrees.              *)
THEOREM CollectorSnapshotComplete == Spec => SnapshotComplete
<1> DEFINE Complete(p) ==
      /\ \A k \in Kind : LatestIn(SlotsOf(k)) # 0 <=> k \in snapshot'[p]
      /\ \A e \in EntityEvent : LatestIn({<<"entity", e>>}) # 0 <=> e \in snapshot'[p]
      /\ Empty <=> snapshot'[p] = {}
<1>1. ASSUME CollectorInv, DispatchInv, NEW p \in Snapshot, C(p) PROVE Complete(p)
  <2>1. snapshot'[p] = Events
    BY <1>1 DEF C, CollectorInv, TypeOK
  <2>2. \A k \in Kind : k \in Events <=> current[k] # "null"
    BY KindAssumption DEF Events
  <2>3. \A e \in EntityEvent : e \in Events <=> callback[<<"entity", e>>] # 0
    BY KindAssumption DEF Events
  <2>4. \A k \in Kind : current[k] # "null" <=> LatestIn(SlotsOf(k)) # 0
    BY <1>1 DEF DispatchInv, Dispatch
  <2>5. \A e \in EntityEvent : callback[<<"entity", e>>] = LatestIn({<<"entity", e>>})
    BY <1>1 DEF DispatchInv, EntitySlot
  <2>6. Empty <=> Events = {}
    BY <2>2, <2>3 DEF Empty, Events
  <2> QED
    BY <2>1, <2>2, <2>3, <2>4, <2>5, <2>6
<1>2. CollectorInv /\ DispatchInv /\ [Next]_vars =>
        [\A p \in Snapshot : C(p) => Complete(p)]_vars
  BY <1>1
<1> QED
  BY <1>2, DispatchInvariant, PTL DEF Spec, SnapshotComplete
=============================================================================

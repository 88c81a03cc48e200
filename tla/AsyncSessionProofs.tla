------------------------- MODULE AsyncSessionProofs -------------------------
(***************************************************************************)
(* Proofs about AsyncEventsCollector, for any snapshots and any number of  *)
(* calls and nested callbacks, and about AsyncSession, for any requests    *)
(* and bounds: what was proved of the collector alone still holds in a     *)
(* session, and the session keeps the ledger of its requests.              *)
(***************************************************************************)
EXTENDS AsyncSession, SequenceTheorems, TLAPS

(* A snapshot never offers session events without a callback for them:     *)
(* that is what keeps the trampoline, which tests another one, from        *)
(* reading an empty optional.                                              *)
SessionOffered == \A p \in Snapshot : "session" \in snapshot[p] => callback["session"] # 0

(* A slot holds a callback that nothing has destroyed, and a running one   *)
(* was registered by some call.                                            *)
CallbacksLogged ==
  /\ \A s \in Slot : callback[s] # 0 =>
       callback[s] \in 1 .. Len(log) /\ ~Destroyed(s, callback[s])
  /\ \A i \in DOMAIN stack : stack[i].callback \in 1 .. Len(log)

AsyncInv ==
  /\ TypeOK
  /\ NeverThrows
  /\ SessionOffered
  /\ CallbacksLogged
  /\ RunningDestroyedByOwnSlot
  /\ LatestRegistrationKept

-----------------------------------------------------------------------------
(* The log. *)

LEMMA LastIsTheGreatest ==
  ASSUME NEW calls \in SUBSET Nat, NEW n \in calls, \A i \in calls : i <= n
  PROVE  Last(calls) = n
<1>1. Last(calls) \in calls /\ \A j \in calls : j <= Last(calls)
  BY DEF Last
<1>2. Last(calls) \in Nat /\ n \in Nat /\ Last(calls) <= n /\ n <= Last(calls)
  BY <1>1
<1> QED
  BY <1>2

(* What one more entry does to the registrations of a slot.                *)
LEMMA LogAppended ==
  ASSUME NEW what \in Slot \cup {"clear"}, log \in Seq(Slot \cup {"clear"}),
         log' = Append(log, what), NEW s \in Slot
  PROVE  LatestIn(s)' = IF what = s THEN Len(log) + 1
                        ELSE IF what = "clear" /\ s \in {"error", "system"} THEN 0
                        ELSE LatestIn(s)
<1> DEFINE n == Len(log) + 1
<1>1. n \in Nat /\ n > Len(log) /\ Len(log') = n /\ DOMAIN log = 1 .. Len(log)
      /\ DOMAIN log' = 1 .. n /\ log'[n] = what
      /\ \A i \in 1 .. Len(log) : log'[i] = log[i]
  BY AppendProperties, LenProperties
<1>2. Registrations(s) \subseteq 1 .. Len(log) /\ Registrations(s)' \subseteq 1 .. n
  BY <1>1 DEF Registrations
<1>3. CASE what = s
  <2>1. s # "clear"
    BY DEF Slot
  <2>2. n \in Registrations(s)'
    BY <1>1, <1>3, <2>1 DEF Registrations
  <2>3. Last(Registrations(s)') = n
    BY <1>1, <1>2, <2>2, LastIsTheGreatest
  <2> QED
    BY <1>3, <2>3 DEF LatestIn
<1>4. CASE what = "clear" /\ s \in {"error", "system"}
  <2>1. Registrations(s)' = {}
    BY <1>1, <1>4 DEF Registrations
  <2> QED
    BY <1>4, <2>1 DEF LatestIn, Last
<1>5. CASE what # s /\ ~(what = "clear" /\ s \in {"error", "system"})
  <2>1. \A i \in 1 .. n : i \in Registrations(s)' <=> i \in Registrations(s)
    <3> SUFFICES ASSUME NEW i \in 1 .. n
                 PROVE  i \in Registrations(s)' <=> i \in Registrations(s)
      OBVIOUS
    <3>1. CASE i = n
      BY <1>1, <1>5, <3>1 DEF Registrations
    <3>2. CASE i # n
      <4>1. i \in 1 .. Len(log)
        BY <1>1, <3>2
      <4>2. log'[i] = log[i]
        BY <1>1, <4>1
      <4>3. CASE s \in {"error", "system"}
        <5>1. what # "clear"
          BY <1>5, <4>3
        <5>2. (\A j \in i .. n : log'[j] # "clear")
                <=> (\A j \in i .. Len(log) : log[j] # "clear")
          BY <1>1, <4>1, <5>1
        <5> QED
          BY <1>1, <4>1, <4>2, <5>2 DEF Registrations
      <4>4. CASE s \notin {"error", "system"}
        BY <1>1, <4>1, <4>2, <4>4 DEF Registrations
      <4> QED
        BY <4>3, <4>4
    <3> QED
      BY <3>1, <3>2
  <2>2. Registrations(s) \subseteq 1 .. n /\ Registrations(s)' \subseteq 1 .. n
    BY <1>1, <1>2
  <2>3. Registrations(s)' = Registrations(s)
    BY <2>1, <2>2, Zenon
  <2> QED
    BY <1>5, <2>3 DEF LatestIn
<1> QED
  BY <1>3, <1>4, <1>5

-----------------------------------------------------------------------------
(* The inductive invariant. *)

LEMMA InitAsyncInv == Init => AsyncInv
<1> SUFFICES ASSUME Init PROVE AsyncInv
  OBVIOUS
<1>1. TypeOK
  BY EmptySeq DEF Init, TypeOK
<1>a. NeverThrows /\ SessionOffered
  BY DEF Init, NeverThrows, SessionOffered
<1>b. CallbacksLogged /\ RunningDestroyedByOwnSlot
  BY DEF Init, CallbacksLogged, RunningDestroyedByOwnSlot
<1>2. \A s \in Slot : Registrations(s) = {}
  BY DEF Init, Registrations
<1>3. LatestRegistrationKept
  BY <1>2 DEF Init, LatestRegistrationKept, LatestIn, Last
<1> QED
  BY <1>1, <1>a, <1>b, <1>3 DEF AsyncInv

LEMMA StackFrames ==
  ASSUME AsyncInv
  PROVE  /\ Len(stack) \in Nat /\ DOMAIN stack = 1 .. Len(stack)
         /\ \A i \in DOMAIN stack : stack[i].slot \in Slot /\ stack[i].callback \in Nat
<1>1. stack \in Seq([slot : Slot, callback : Nat])
  BY DEF AsyncInv, TypeOK
<1>2. Len(stack) \in Nat /\ DOMAIN stack = 1 .. Len(stack)
  BY <1>1, LenProperties
<1>3. \A i \in 1 .. Len(stack) : stack[i] \in [slot : Slot, callback : Nat]
  BY <1>1, ElementOfSeq
<1> QED
  BY <1>2, <1>3

(* What one more call destroys.                                            *)
LEMMA DestroyedByCall ==
  ASSUME NEW what \in Slot \cup {"clear"}, log \in Seq(Slot \cup {"clear"}),
         log' = Append(log, what)
  PROVE  \A s \in Slot, n \in 0 .. Len(log) :
           Destroyed(s, n)' <=>
             Destroyed(s, n) \/ what = s \/ (what = "clear" /\ s \in {"error", "system"})
<1>1. /\ Len(log) \in Nat /\ Len(log') = Len(log) + 1 /\ log'[Len(log) + 1] = what
      /\ \A i \in 1 .. Len(log) : log'[i] = log[i]
  BY AppendProperties, LenProperties
<1> SUFFICES ASSUME NEW s \in Slot, NEW n \in 0 .. Len(log)
             PROVE  Destroyed(s, n)' <=>
                      Destroyed(s, n) \/ what = s
                        \/ (what = "clear" /\ s \in {"error", "system"})
  OBVIOUS
<1> DEFINE Removes(x) == x = s \/ (x = "clear" /\ s \in {"error", "system"})
<1>2. /\ Destroyed(s, n) <=> \E j \in n + 1 .. Len(log) : Removes(log[j])
      /\ Destroyed(s, n)' <=> \E j \in n + 1 .. Len(log') : Removes(log'[j])
  BY Zenon DEF Destroyed
<1> HIDE DEF Removes
<1>3. /\ Len(log) + 1 \in n + 1 .. Len(log')
      /\ \A j \in n + 1 .. Len(log) : j \in 1 .. Len(log) /\ j \in n + 1 .. Len(log')
      /\ \A j \in n + 1 .. Len(log') : j = Len(log) + 1 \/ j \in n + 1 .. Len(log)
  BY <1>1
<1>4. (\E j \in n + 1 .. Len(log') : Removes(log'[j]))
        <=> (\E j \in n + 1 .. Len(log) : Removes(log[j])) \/ Removes(what)
  BY <1>1, <1>3, Zenon
<1> QED
  BY <1>2, <1>4 DEF Removes

(* A call that changes the collector replaces what is in its slot, or      *)
(* resets the slots that clear() resets, and nothing else.                 *)
LEMMA CalledKeepsLog ==
  ASSUME AsyncInv, NEW what \in Slot \cup {"clear"}, Called(what),
         \A s \in Slot : callback'[s] = IF what = s THEN Len(log) + 1
                                        ELSE IF what = "clear" /\ s \in {"error", "system"} THEN 0
                                        ELSE callback[s]
  PROVE  CallbacksLogged' /\ RunningDestroyedByOwnSlot'
<1>1. /\ log \in Seq(Slot \cup {"clear"}) /\ log' = Append(log, what) /\ stack' = stack
      /\ callback \in [Slot -> Nat] /\ stack \in Seq([slot : Slot, callback : Nat])
  BY DEF AsyncInv, TypeOK, Called
<1>2. Len(log) \in Nat /\ Len(log)' = Len(log) + 1
  BY <1>1, AppendProperties, LenProperties
<1>3. \A s \in Slot, n \in 0 .. Len(log) :
        Destroyed(s, n)' <=>
          Destroyed(s, n) \/ what = s \/ (what = "clear" /\ s \in {"error", "system"})
  BY <1>1, DestroyedByCall
<1>4. ASSUME NEW s \in Slot, NEW m, m = callback'[s], m # 0
      PROVE  m \in 1 .. Len(log)' /\ ~Destroyed(s, m)'
  <2>1. CASE what = s
    <3>1. m = Len(log)'
      BY <1>2, <1>4, <2>1
    <3>2. m \in 1 .. Len(log)' /\ \A j \in m + 1 .. Len(log)' : FALSE
      BY <1>2, <3>1
    <3> QED
      BY <3>2 DEF Destroyed
  <2>2. CASE what # s
    <3>1. m = callback[s] /\ ~(what = "clear" /\ s \in {"error", "system"})
      BY <1>4, <2>2
    <3>2. m \in 1 .. Len(log) /\ ~Destroyed(s, m)
      BY <1>4, <3>1 DEF AsyncInv, CallbacksLogged
    <3>3. m \in 0 .. Len(log) /\ m \in 1 .. Len(log)'
      BY <1>2, <3>2
    <3> QED
      BY <1>3, <2>2, <3>1, <3>2, <3>3
  <2> QED
    BY <2>1, <2>2
<1>5. \A i \in DOMAIN stack : stack[i].callback \in 1 .. Len(log)'
  <2>1. \A i \in DOMAIN stack : stack[i].callback \in 1 .. Len(log)
    BY DEF AsyncInv, CallbacksLogged
  <2> QED
    BY <1>2, <2>1
<1>6. CallbacksLogged'
  BY <1>1, <1>4, <1>5 DEF CallbacksLogged
<1>7. ASSUME NEW i \in DOMAIN stack, NEW s, s = stack[i].slot, NEW n, n = stack[i].callback
      PROVE  callback'[s] # n <=> Destroyed(s, n)'
  <2>1. s \in Slot /\ n \in 1 .. Len(log) /\ n \in 0 .. Len(log)
    <3>1. n \in 1 .. Len(log) /\ stack[i].slot \in Slot
      BY <1>7, StackFrames DEF AsyncInv, CallbacksLogged
    <3> QED
      BY <1>2, <1>7, <3>1
  <2>2. callback[s] # n <=> Destroyed(s, n)
    BY <1>7 DEF AsyncInv, RunningDestroyedByOwnSlot
  <2>3. Destroyed(s, n)' <=>
          Destroyed(s, n) \/ what = s \/ (what = "clear" /\ s \in {"error", "system"})
    BY <1>3, <2>1
  <2>4. n # 0 /\ n # Len(log) + 1
    BY <1>2, <2>1
  <2> QED
    BY <2>1, <2>2, <2>3, <2>4
<1>8. RunningDestroyedByOwnSlot'
  BY <1>1, <1>7 DEF RunningDestroyedByOwnSlot
<1> QED
  BY <1>6, <1>8

(* A step that stores nothing and starts no callback.                      *)
LEMMA SameCallbacks ==
  ASSUME AsyncInv, UNCHANGED <<callback, log>>,
         \A i \in DOMAIN stack' : i \in DOMAIN stack /\ stack'[i] = stack[i]
  PROVE  CallbacksLogged' /\ RunningDestroyedByOwnSlot'
<1>1. /\ \A s \in Slot : callback[s] # 0 =>
           callback[s] \in 1 .. Len(log) /\ ~Destroyed(s, callback[s])
      /\ \A i \in DOMAIN stack : stack[i].callback \in 1 .. Len(log)
      /\ \A i \in DOMAIN stack :
           callback[stack[i].slot] # stack[i].callback
             <=> Destroyed(stack[i].slot, stack[i].callback)
  BY DEF AsyncInv, CallbacksLogged, RunningDestroyedByOwnSlot
<1>2. CallbacksLogged'
  BY <1>1 DEF CallbacksLogged, Destroyed
<1>3. RunningDestroyedByOwnSlot'
  <2>1. \A i \in DOMAIN stack' :
          callback[stack'[i].slot] # stack'[i].callback
            <=> Destroyed(stack'[i].slot, stack'[i].callback)
    BY <1>1
  <2> QED
    BY <2>1 DEF RunningDestroyedByOwnSlot, Destroyed
<1> QED
  BY <1>2, <1>3

LEMMA SetAsyncInv == ASSUME AsyncInv, NEW s \in Slot, Set(s) PROVE AsyncInv'
<1>1. /\ log \in Seq(Slot \cup {"clear"}) /\ callback \in [Slot -> Nat]
      /\ Len(log) + 1 \in Nat /\ Len(log) + 1 # 0
  BY DEF AsyncInv, TypeOK
<1>2. callback' = [callback EXCEPT ![s] = Len(log) + 1] /\ log' = Append(log, s)
  BY DEF Set, Called
<1>3. UNCHANGED <<snapshot, stack, thrown>>
  BY DEF Set, Called
<1>4. TypeOK'
  BY <1>1, <1>2, <1>3 DEF AsyncInv, TypeOK
<1>5. NeverThrows' /\ SessionOffered'
  BY <1>1, <1>2, <1>3 DEF AsyncInv, NeverThrows, SessionOffered, Slot
<1>6. CallbacksLogged' /\ RunningDestroyedByOwnSlot'
  <2>1. s # "clear" /\ Called(s)
    BY DEF Slot, Set
  <2>2. \A q \in Slot : callback'[q] = IF s = q THEN Len(log) + 1 ELSE callback[q]
    BY <1>1, <1>2
  <2> QED
    BY <2>1, <2>2, CalledKeepsLog
<1>7. LatestRegistrationKept'
  <2> SUFFICES ASSUME NEW q \in Slot PROVE callback'[q] = LatestIn(q)'
    BY DEF LatestRegistrationKept
  <2>1. s # "clear"
    BY DEF Slot
  <2>2. LatestIn(q)' = IF s = q THEN Len(log) + 1 ELSE LatestIn(q)
    BY <1>1, <1>2, <2>1, LogAppended
  <2>3. callback[q] = LatestIn(q)
    BY DEF AsyncInv, LatestRegistrationKept
  <2> QED
    BY <1>1, <1>2, <2>2, <2>3
<1> QED
  BY <1>4, <1>5, <1>6, <1>7 DEF AsyncInv

LEMMA ClearAsyncInv == ASSUME AsyncInv, Clear PROVE AsyncInv'
<1>1. log \in Seq(Slot \cup {"clear"}) /\ callback \in [Slot -> Nat]
  BY DEF AsyncInv, TypeOK
<1>2. /\ callback' = [s \in Slot |-> IF s \in {"error", "system"} THEN 0 ELSE callback[s]]
      /\ log' = Append(log, "clear")
  BY DEF Clear, Called, ResetByClear
<1>3. UNCHANGED <<snapshot, stack, thrown>>
  BY DEF Clear, Called
<1>4. TypeOK'
  BY <1>1, <1>2, <1>3 DEF AsyncInv, TypeOK
<1>5. NeverThrows' /\ SessionOffered'
  BY <1>1, <1>2, <1>3 DEF AsyncInv, NeverThrows, SessionOffered, Slot
<1>6. CallbacksLogged' /\ RunningDestroyedByOwnSlot'
  <2>1. Called("clear") /\ \A s \in Slot : s # "clear"
    BY DEF Slot, Clear
  <2>2. \A s \in Slot : callback'[s] = IF s \in {"error", "system"} THEN 0 ELSE callback[s]
    BY <1>2
  <2> QED
    BY <2>1, <2>2, CalledKeepsLog
<1>7. LatestRegistrationKept'
  <2> SUFFICES ASSUME NEW q \in Slot PROVE callback'[q] = LatestIn(q)'
    BY DEF LatestRegistrationKept
  <2>1. q # "clear"
    BY DEF Slot
  <2>2. LatestIn(q)' = IF q \in {"error", "system"} THEN 0 ELSE LatestIn(q)
    BY <1>1, <1>2, <2>1, LogAppended
  <2>3. callback[q] = LatestIn(q)
    BY DEF AsyncInv, LatestRegistrationKept
  <2> QED
    BY <1>1, <1>2, <2>2, <2>3
<1> QED
  BY <1>4, <1>5, <1>6, <1>7 DEF AsyncInv

LEMMA CAsyncInv == ASSUME AsyncInv, NEW p \in Snapshot, C(p) PROVE AsyncInv'
<1>1. /\ snapshot' = [snapshot EXCEPT ![p] = SlotsSet]
      /\ UNCHANGED <<callback, stack, thrown, log>>
  BY DEF C
<1>2. SlotsSet \subseteq Slot /\ ("session" \in SlotsSet => callback["session"] # 0)
  BY DEF SlotsSet
<1>3. TypeOK' /\ NeverThrows' /\ SessionOffered'
  BY <1>1, <1>2 DEF AsyncInv, TypeOK, NeverThrows, SessionOffered
<1>a. CallbacksLogged' /\ RunningDestroyedByOwnSlot'
  BY <1>1, SameCallbacks
<1>4. LatestRegistrationKept'
  BY <1>1 DEF AsyncInv, LatestRegistrationKept, LatestIn, Registrations
<1> QED
  BY <1>3, <1>a, <1>4 DEF AsyncInv

LEMMA EventAsyncInv ==
  ASSUME AsyncInv, NEW p \in Snapshot, NEW s \in Slot, Event(p, s) PROVE AsyncInv'
<1>1. callback[s] # 0
  BY DEF Event, Tested, AsyncInv, SessionOffered
<1>2. /\ stack' = Append(stack, [slot |-> s, callback |-> callback[s]])
      /\ UNCHANGED <<callback, snapshot, thrown, log>>
  BY <1>1 DEF Event
<1>3. /\ [slot |-> s, callback |-> callback[s]] \in [slot : Slot, callback : Nat]
      /\ stack \in Seq([slot : Slot, callback : Nat])
  BY DEF AsyncInv, TypeOK
<1>4. TypeOK' /\ NeverThrows' /\ SessionOffered'
  BY <1>2, <1>3 DEF AsyncInv, TypeOK, NeverThrows, SessionOffered
<1>5. CallbacksLogged' /\ RunningDestroyedByOwnSlot'
  <2> DEFINE frame == [slot |-> s, callback |-> callback[s]]
  <2>1. \A i \in DOMAIN stack' : stack'[i] = frame \/ (i \in DOMAIN stack /\ stack'[i] = stack[i])
    <3>1. DOMAIN stack = 1 .. Len(stack) /\ DOMAIN stack' = 1 .. Len(stack) + 1
          /\ Len(stack) \in Nat /\ stack'[Len(stack) + 1] = frame
          /\ \A i \in 1 .. Len(stack) : stack'[i] = stack[i]
      BY <1>2, <1>3, AppendProperties, LenProperties
    <3> HIDE DEF frame
    <3> QED
      BY <3>1
  <2>2. callback[s] \in 1 .. Len(log) /\ ~Destroyed(s, callback[s])
    BY <1>1 DEF AsyncInv, CallbacksLogged
  <2>3. frame.slot = s /\ frame.callback = callback[s]
    OBVIOUS
  <2> HIDE DEF frame
  <2>4. CallbacksLogged'
    <3>1. \A i \in DOMAIN stack' : stack'[i].callback \in 1 .. Len(log)
      BY <2>1, <2>2, <2>3 DEF AsyncInv, CallbacksLogged
    <3>2. \A q \in Slot : callback[q] # 0 =>
            callback[q] \in 1 .. Len(log) /\ ~Destroyed(q, callback[q])
      BY DEF AsyncInv, CallbacksLogged
    <3> QED
      BY <1>2, <3>1, <3>2 DEF CallbacksLogged, Destroyed
  <2>5. RunningDestroyedByOwnSlot'
    <3>1. \A i \in DOMAIN stack' :
            callback[stack'[i].slot] # stack'[i].callback
              <=> Destroyed(stack'[i].slot, stack'[i].callback)
      BY <2>1, <2>2, <2>3 DEF AsyncInv, RunningDestroyedByOwnSlot
    <3> QED
      BY <1>2, <3>1 DEF RunningDestroyedByOwnSlot, Destroyed
  <2> QED
    BY <2>4, <2>5
<1>6. LatestRegistrationKept'
  BY <1>2 DEF AsyncInv, LatestRegistrationKept, LatestIn, Registrations
<1> QED
  BY <1>4, <1>5, <1>6 DEF AsyncInv

LEMMA ReturnAsyncInv == ASSUME AsyncInv, Return PROVE AsyncInv'
<1>1. /\ stack # <<>> /\ stack' = SubSeq(stack, 1, Len(stack) - 1)
      /\ UNCHANGED <<callback, snapshot, thrown, log>>
  BY DEF Return
<1>2. stack \in Seq([slot : Slot, callback : Nat])
  BY DEF AsyncInv, TypeOK
<1>3. /\ stack' \in Seq([slot : Slot, callback : Nat])
      /\ DOMAIN stack' \subseteq DOMAIN stack
      /\ \A i \in DOMAIN stack' : stack'[i] = stack[i]
  <2> DEFINE n == Len(stack) - 1
  <2>1. n \in Nat
    BY <1>1, <1>2, EmptySeq
  <2>2. \A i \in 1 .. n : i \in DOMAIN stack /\ stack[i] \in [slot : Slot, callback : Nat]
    <3>1. DOMAIN stack = 1 .. n + 1 /\ \A i \in 1 .. n : i \in 1 .. n + 1
      BY <1>2, <2>1, StackFrames
    <3>2. \A i \in 1 .. Len(stack) : stack[i] \in [slot : Slot, callback : Nat]
      BY <1>2, ElementOfSeq
    <3>3. DOMAIN stack = 1 .. Len(stack)
      BY StackFrames
    <3> QED
      BY <3>1, <3>2, <3>3
  <2>3. /\ SubSeq(stack, 1, n) \in Seq([slot : Slot, callback : Nat])
        /\ Len(SubSeq(stack, 1, n)) = IF 1 <= n THEN n - 1 + 1 ELSE 0
        /\ \A i \in 1 .. n - 1 + 1 : SubSeq(stack, 1, n)[i] = stack[1 + i - 1]
    <3> HIDE DEF n
    <3> QED
      BY <2>1, <2>2, SubSeqProperties
  <2>4. Len(stack') = n /\ \A i \in 1 .. n : stack'[i] = stack[i]
    <3> HIDE DEF n
    <3>1. stack' = SubSeq(stack, 1, n)
      BY <1>1 DEF n
    <3> QED
      BY <2>1, <2>3, <3>1
  <2> QED
    BY <1>1, <2>2, <2>3, <2>4, LenProperties
<1>4. TypeOK' /\ NeverThrows' /\ SessionOffered'
  BY <1>1, <1>3 DEF AsyncInv, TypeOK, NeverThrows, SessionOffered
<1>5. CallbacksLogged' /\ RunningDestroyedByOwnSlot'
  BY <1>1, <1>3, SameCallbacks
<1>6. LatestRegistrationKept'
  BY <1>1 DEF AsyncInv, LatestRegistrationKept, LatestIn, Registrations
<1> QED
  BY <1>4, <1>5, <1>6 DEF AsyncInv

LEMMA NextAsyncInv == AsyncInv /\ [Next]_vars => AsyncInv'
<1> SUFFICES ASSUME AsyncInv, [Next]_vars PROVE AsyncInv'
  OBVIOUS
<1>1. CASE \E s \in Slot : Set(s)
  BY <1>1, SetAsyncInv
<1>2. CASE Clear
  BY <1>2, ClearAsyncInv
<1>3. CASE \E p \in Snapshot : C(p)
  BY <1>3, CAsyncInv
<1>4. CASE \E p \in Snapshot, s \in Slot : Event(p, s)
  BY <1>4, EventAsyncInv
<1>5. CASE Return
  BY <1>5, ReturnAsyncInv
<1>6. CASE UNCHANGED vars
  <2>1. UNCHANGED <<callback, snapshot, stack, thrown, log>>
    BY <1>6 DEF vars
  <2>2. TypeOK' /\ NeverThrows' /\ SessionOffered'
    BY <2>1 DEF AsyncInv, TypeOK, NeverThrows, SessionOffered
  <2>3. CallbacksLogged' /\ RunningDestroyedByOwnSlot'
    BY <2>1, SameCallbacks
  <2>4. LatestRegistrationKept'
    BY <2>1 DEF AsyncInv, LatestRegistrationKept, LatestIn, Registrations
  <2> QED
    BY <2>2, <2>3, <2>4 DEF AsyncInv
<1> QED
  BY <1>1, <1>2, <1>3, <1>4, <1>5, <1>6 DEF Next

(* Every reachable state of the collector satisfies the invariant.         *)
THEOREM AsyncInvariant == Spec => []AsyncInv
BY InitAsyncInv, NextAsyncInv, PTL DEF Spec

(* async_events_collector's members keep their types.                      *)
THEOREM AsyncTypeCorrect == Spec => []TypeOK
<1>1. AsyncInv => TypeOK
  BY DEF AsyncInv
<1> QED
  BY <1>1, AsyncInvariant, PTL

(* No trampoline calls .value() of an empty optional, although the one for *)
(* session events tests another.                                           *)
THEOREM AsyncNeverThrows == Spec => []NeverThrows
<1>1. AsyncInv => NeverThrows
  BY DEF AsyncInv
<1> QED
  BY <1>1, AsyncInvariant, PTL

(* A callback is destroyed while it runs by a registration in its own slot *)
(* and, if it is an error callback, by clear(), and by nothing else.       *)
THEOREM AsyncRunningDestroyedByOwnSlot == Spec => []RunningDestroyedByOwnSlot
<1>1. AsyncInv => RunningDestroyedByOwnSlot
  BY DEF AsyncInv
<1> QED
  BY <1>1, AsyncInvariant, PTL

(* Each slot holds its last registration, whatever the history.            *)
THEOREM AsyncLatestRegistrationKept == Spec => []LatestRegistrationKept
<1>1. AsyncInv => LatestRegistrationKept
  BY DEF AsyncInv
<1> QED
  BY <1>1, AsyncInvariant, PTL

(* c() offers an event exactly if something is registered for it.          *)
THEOREM AsyncSnapshotComplete == Spec => SnapshotComplete
<1> DEFINE Complete == \A p \in Snapshot :
                         C(p) => snapshot'[p] = {s \in Slot : LatestIn(s) # 0}
<1>1. AsyncInv => Complete
  BY DEF AsyncInv, TypeOK, LatestRegistrationKept, C, SlotsSet
<1>2. AsyncInv => [Complete]_vars
  BY <1>1
<1> QED
  BY <1>2, AsyncInvariant, PTL DEF SnapshotComplete

-----------------------------------------------------------------------------
(* The collector in the session.                                           *)

LEMMA MembersStep ==
  ASSUME AsyncInv,
         \/ \E s \in Slot : Set(s)
         \/ Clear
         \/ \E n \in 1 .. MaxDepth : C(n)
         \/ \E n \in 1 .. MaxDepth, s \in Slot : Event(n, s)
         \/ Return
         \/ UNCHANGED vars
  PROVE  AsyncInv'
BY SnapshotAssumption, NextAsyncInv DEF Next

(* What the proofs below need of the collector.                            *)
LEMMA MembersFacts ==
  ASSUME AsyncInv
  PROVE  /\ callback \in [Slot -> Nat]
         /\ snapshot \in [Snapshot -> SUBSET Slot]
         /\ Len(stack) \in Nat
         /\ log \in Seq(Slot \cup {"clear"}) /\ Len(log) \in Nat
         /\ \A s \in Slot : callback[s] = LatestIn(s)
<1>1. TypeOK /\ LatestRegistrationKept
  BY DEF AsyncInv
<1>2. Len(stack) \in Nat /\ Len(log) \in Nat
  BY <1>1, LenProperties DEF TypeOK
<1> QED
  BY <1>1, <1>2 DEF TypeOK, LatestRegistrationKept

-----------------------------------------------------------------------------
(* Queues of events.                                                       *)

AnyEvent == [slot : Slot, requests : SUBSET Request]

(* The requests that event e reports as done.                              *)
DoneIn(e) == IF e.slot = "done" THEN e.requests ELSE {}

ResolvedIn(q) == UNION {DoneIn(q[i]) : i \in DOMAIN q}

(* No request is reported twice.                                           *)
OnceIn(q) == \A i, j \in DOMAIN q : i # j => DoneIn(q[i]) \cap DoneIn(q[j]) = {}

LEMMA PairIsConcat ==
  ASSUME NEW S, NEW e \in S, NEW d \in S
  PROVE  <<e, d>> = <<e>> \o <<d>>
<1>1. /\ <<e>> \in Seq(S) /\ Len(<<e>>) = 1 /\ <<e>>[1] = e
      /\ <<d>> \in Seq(S) /\ Len(<<d>>) = 1 /\ <<d>>[1] = d
      /\ <<e, d>> \in Seq(S) /\ Len(<<e, d>>) = 2 /\ <<e, d>>[1] = e /\ <<e, d>>[2] = d
  OBVIOUS
<1>2. /\ <<e>> \o <<d>> \in Seq(S) /\ Len(<<e>> \o <<d>>) = 2
      /\ \A i \in 1 .. 2 : (<<e>> \o <<d>>)[i] = IF i <= 1 THEN <<e>>[i] ELSE <<d>>[i - 1]
  <2>1. Len(<<e>>) + Len(<<d>>) = 2
    BY <1>1
  <2> QED
    BY <1>1, <2>1, ConcatProperties
<1>3. \A i \in 1 .. 2 : <<e, d>>[i] = (<<e>> \o <<d>>)[i]
  BY <1>1, <1>2
<1> QED
  BY <1>1, <1>2, <1>3, SeqEqual

LEMMA ResolvedIsResolvedIn == Resolved = ResolvedIn(events)
BY DEF Resolved, ResolvedIn, DoneIn

LEMMA OneMoreEvent ==
  ASSUME NEW q \in Seq(AnyEvent), NEW e \in AnyEvent
  PROVE  /\ q \o <<e>> \in Seq(AnyEvent)
         /\ ResolvedIn(q \o <<e>>) = ResolvedIn(q) \cup DoneIn(e)
         /\ OnceIn(q) /\ DoneIn(e) \cap ResolvedIn(q) = {} => OnceIn(q \o <<e>>)
<1> DEFINE n == Len(q)
           more == q \o <<e>>
<1>1. n \in Nat /\ DOMAIN q = 1 .. n
  BY LenProperties
<1>2. <<e>> \in Seq(AnyEvent) /\ Len(<<e>>) = 1 /\ <<e>>[1] = e
  OBVIOUS
<1>3. /\ more \in Seq(AnyEvent) /\ Len(more) = n + 1
      /\ \A i \in 1 .. n + 1 : more[i] = IF i <= n THEN q[i] ELSE <<e>>[i - n]
  BY <1>2, ConcatProperties
<1>4. DOMAIN more = 1 .. n + 1 /\ more[n + 1] = e /\ \A i \in 1 .. n : more[i] = q[i]
  <2>1. DOMAIN more = 1 .. n + 1
    BY <1>3, LenProperties
  <2> HIDE DEF more, n
  <2> QED
    BY <1>1, <1>2, <1>3, <2>1
<1> HIDE DEF more, n
<1>5. ResolvedIn(more) = ResolvedIn(q) \cup DoneIn(e)
  BY <1>1, <1>4 DEF ResolvedIn
<1>6. ASSUME OnceIn(q), DoneIn(e) \cap ResolvedIn(q) = {} PROVE OnceIn(more)
  <2> SUFFICES ASSUME NEW i \in 1 .. n + 1, NEW j \in 1 .. n + 1, i < j
               PROVE  DoneIn(more[i]) \cap DoneIn(more[j]) = {}
    BY <1>1, <1>4 DEF OnceIn
  <2>1. i \in 1 .. n
    BY <1>1
  <2>2. CASE j \in 1 .. n
    BY <1>1, <1>4, <1>6, <2>1, <2>2 DEF OnceIn
  <2>3. CASE j = n + 1
    <3>1. DoneIn(q[i]) \subseteq ResolvedIn(q)
      BY <1>1, <2>1 DEF ResolvedIn
    <3> QED
      BY <1>4, <1>6, <2>1, <2>3, <3>1
  <2> QED
    BY <1>1, <2>2, <2>3
<1> QED
  BY <1>3, <1>5, <1>6 DEF more

LEMMA FirstEventGone ==
  ASSUME NEW q \in Seq(AnyEvent), q # <<>>, OnceIn(q)
  PROVE  /\ Head(q) \in AnyEvent /\ Tail(q) \in Seq(AnyEvent) /\ OnceIn(Tail(q))
         /\ ResolvedIn(Tail(q)) = ResolvedIn(q) \ DoneIn(Head(q))
         /\ DoneIn(Head(q)) \subseteq ResolvedIn(q)
<1> DEFINE n == Len(q) - 1
           less == Tail(q)
<1>1. n \in Nat /\ DOMAIN q = 1 .. n + 1
  BY EmptySeq, LenProperties
<1>2. /\ Head(q) \in AnyEvent /\ less \in Seq(AnyEvent) /\ Len(less) = n
      /\ \A i \in 1 .. n : less[i] = q[i + 1]
  BY HeadTailProperties
<1>3. Head(q) = q[1] /\ DOMAIN less = 1 .. n
  BY <1>2, LenProperties
<1> HIDE DEF n, less
<1>4. OnceIn(less)
  <2> SUFFICES ASSUME NEW i \in 1 .. n, NEW j \in 1 .. n, i # j
               PROVE  DoneIn(less[i]) \cap DoneIn(less[j]) = {}
    BY <1>3 DEF OnceIn
  <2>1. i + 1 \in DOMAIN q /\ j + 1 \in DOMAIN q /\ i + 1 # j + 1
    BY <1>1
  <2> QED
    BY <1>2, <2>1 DEF OnceIn
<1>5. ASSUME NEW r PROVE r \in ResolvedIn(less) <=> r \in ResolvedIn(q) /\ r \notin DoneIn(q[1])
  <2>1. ASSUME r \in ResolvedIn(less) PROVE r \in ResolvedIn(q) /\ r \notin DoneIn(q[1])
    <3>1. PICK i \in 1 .. n : r \in DoneIn(less[i])
      BY <1>3, <2>1 DEF ResolvedIn
    <3>2. i + 1 \in DOMAIN q /\ 1 \in DOMAIN q /\ i + 1 # 1 /\ r \in DoneIn(q[i + 1])
      BY <1>1, <1>2, <3>1
    <3> QED
      BY <3>2 DEF ResolvedIn, OnceIn
  <2>2. ASSUME r \in ResolvedIn(q), r \notin DoneIn(q[1]) PROVE r \in ResolvedIn(less)
    <3>1. PICK i \in 1 .. n + 1 : r \in DoneIn(q[i])
      BY <1>1, <2>2 DEF ResolvedIn
    <3>2. i # 1
      BY <2>2, <3>1
    <3>3. i - 1 \in 1 .. n /\ less[i - 1] = q[i]
      <4>1. i - 1 \in 1 .. n /\ i = (i - 1) + 1
        BY <1>1, <3>2
      <4> QED
        BY <1>2, <4>1
    <3> QED
      BY <1>3, <3>1, <3>3 DEF ResolvedIn
  <2> QED
    BY <2>1, <2>2
<1>6. DoneIn(q[1]) \subseteq ResolvedIn(q)
  BY <1>1 DEF ResolvedIn
<1> QED
  BY <1>2, <1>3, <1>4, <1>5, <1>6 DEF less

-----------------------------------------------------------------------------
(* The inductive invariant.                                                *)

SessionTypes ==
  /\ session \in {"none", "pending", "started", "stopping", "stopped"}
  /\ pending \subseteq Request
  /\ events \in Seq(AnyEvent)
  /\ flushing \in Len(stack) .. MaxDepth
  /\ since \in [1 .. MaxDepth -> 0 .. MaxCalls]
  /\ outcome \in [Request -> {"unused", "waiting"} \cup Ledger!Outcome]
  /\ told \in [Request -> Nat]

(* What was registered when a flush began is in its snapshot, unless it    *)
(* has been replaced or cleared in the meantime.                           *)
SnapshotsCover ==
  /\ Len(log) <= MaxCalls
  /\ \A n \in 1 .. MaxDepth : since[n] <= Len(log)
  /\ \A n \in 1 .. flushing, s \in Slot :
       callback[s] # 0 /\ callback[s] <= since[n] => s \in snapshot[n]

(* A request is waiting exactly while the runtime has it or one event that *)
(* reports it is in the queue.                                             *)
WaitingOnce ==
  /\ \A r \in Request : outcome[r] = "waiting" <=> r \in pending \cup ResolvedIn(events)
  /\ pending \cap ResolvedIn(events) = {}
  /\ OnceIn(events)

SessionInv ==
  /\ AsyncInv
  /\ SessionTypes
  /\ SnapshotsCover
  /\ WaitingOnce

LEMMA InitSessionInv == SessionInit => SessionInv
<1> SUFFICES ASSUME SessionInit PROVE SessionInv
  OBVIOUS
<1>1. AsyncInv
  <2>1. Init => Init
    BY DEF Init, Init, Slot
  <2> QED
    BY <2>1, BoundsAssumption, SessionCallbackAssumption, InitAsyncInv DEF SessionInit
<1>2. stack = <<>> /\ log = <<>> /\ Len(stack) = 0 /\ Len(log) = 0
  BY EmptySeq DEF SessionInit, Init
<1>3. SessionTypes
  BY <1>2, EmptySeq, BoundsAssumption DEF SessionInit, SessionTypes
<1>4. SnapshotsCover
  BY <1>2, BoundsAssumption DEF SessionInit, SnapshotsCover
<1>5. WaitingOnce
  BY DEF SessionInit, WaitingOnce, ResolvedIn, OnceIn
<1> QED
  BY <1>1, <1>3, <1>4, <1>5 DEF SessionInv

-----------------------------------------------------------------------------
(* The collector and the snapshots of running flushes.                     *)

(* The conjuncts that the ledger does not decide.                          *)
FlushTypes ==
  /\ flushing \in Len(stack) .. MaxDepth
  /\ since \in [1 .. MaxDepth -> 0 .. MaxCalls]

LEMMA UnchangedCover ==
  ASSUME SessionInv, UNCHANGED <<vars, flushing, since>>
  PROVE  AsyncInv' /\ FlushTypes' /\ SnapshotsCover'
<1>1. AsyncInv'
  BY MembersStep DEF SessionInv
<1>2. FlushTypes' /\ SnapshotsCover'
  BY DEF SessionInv, SessionTypes, FlushTypes, SnapshotsCover, vars
<1> QED
  BY <1>1, <1>2

LEMMA RegisterCover ==
  ASSUME SessionInv, Register
  PROVE  AsyncInv' /\ FlushTypes' /\ SnapshotsCover'
<1>1. AsyncInv'
  BY MembersStep DEF SessionInv, Register
<1>2. /\ UNCHANGED <<snapshot, stack, flushing, since>>
      /\ Len(log) < MaxCalls /\ Len(log) \in Nat /\ Len(log)' = Len(log) + 1
      /\ \A s \in Slot : callback'[s] \in {callback[s], 0, Len(log) + 1}
  <2>1. PICK what : Called(what) /\ what \in Slot \cup {"clear"}
    BY DEF Register, Set, Clear
  <2>2. log \in Seq(Slot \cup {"clear"}) /\ log' = Append(log, what)
    BY <2>1, MembersFacts DEF SessionInv, Called
  <2>3. Len(log)' = Len(log) + 1 /\ Len(log) \in Nat
    BY <2>1, <2>2, AppendProperties, LenProperties
  <2>4. callback \in [Slot -> Nat]
    BY MembersFacts DEF SessionInv
  <2>5. \A s \in Slot : callback'[s] \in {callback[s], 0, Len(log) + 1}
    BY <2>4 DEF Register, Set, Clear
  <2> QED
    BY <2>1, <2>3, <2>5 DEF Register, Called
<1>3. FlushTypes'
  BY <1>2 DEF SessionInv, SessionTypes, FlushTypes
<1>4. SnapshotsCover'
  <2>1. \A n \in 1 .. MaxDepth : since[n] \in Nat /\ since[n] <= Len(log)
    BY DEF SessionInv, SessionTypes, SnapshotsCover
  <2>2. \A n \in 1 .. flushing : n \in 1 .. MaxDepth
    BY MembersFacts, BoundsAssumption DEF SessionInv, SessionTypes
  <2>3. \A n \in 1 .. flushing, s \in Slot :
          callback[s] # 0 /\ callback[s] <= since[n] => s \in snapshot[n]
    BY DEF SessionInv, SnapshotsCover
  <2>4. ASSUME NEW n \in 1 .. flushing, NEW s \in Slot,
               callback'[s] # 0, callback'[s] <= since[n]
        PROVE  s \in snapshot[n]
    <3>1. since[n] \in Nat /\ since[n] <= Len(log)
      BY <2>1, <2>2
    <3>2. callback'[s] = callback[s]
      BY <1>2, <2>4, <3>1
    <3> QED
      BY <2>3, <2>4, <3>2
  <2> QED
    BY <1>2, <2>1, <2>4, BoundsAssumption DEF SnapshotsCover
<1> QED
  BY <1>1, <1>3, <1>4

LEMMA FlushCover ==
  ASSUME SessionInv, Flush
  PROVE  AsyncInv' /\ FlushTypes' /\ SnapshotsCover'
<1>1. Len(stack) \in Nat /\ Len(log) \in Nat /\ flushing \in Nat /\ flushing + 1 \in 1 .. MaxDepth
  BY MembersFacts, BoundsAssumption DEF SessionInv, SessionTypes, Flush
<1>2. AsyncInv'
  BY <1>1, MembersStep DEF SessionInv, Flush, FlushSnapshot
<1>3. /\ snapshot' = [snapshot EXCEPT ![flushing + 1] = SlotsSet]
      /\ since' = [since EXCEPT ![flushing + 1] = Len(log)]
      /\ flushing' = flushing + 1
      /\ UNCHANGED <<callback, stack, log>>
  BY DEF Flush, FlushSnapshot, C
<1>4. /\ Len(log) <= MaxCalls
      /\ since \in [1 .. MaxDepth -> 0 .. MaxCalls]
      /\ snapshot \in [Snapshot -> SUBSET Slot]
      /\ \A n \in 1 .. MaxDepth : since[n] <= Len(log)
      /\ \A n \in 1 .. flushing, s \in Slot :
           callback[s] # 0 /\ callback[s] <= since[n] => s \in snapshot[n]
      /\ Len(stack) <= flushing
  BY <1>1, MembersFacts DEF SessionInv, SessionTypes, SnapshotsCover
<1>5. since' \in [1 .. MaxDepth -> 0 .. MaxCalls] /\ \A n \in 1 .. MaxDepth : since'[n] <= Len(log)
  BY <1>1, <1>3, <1>4, BoundsAssumption
<1>6. FlushTypes'
  BY <1>1, <1>3, <1>4, <1>5, BoundsAssumption DEF FlushTypes
<1>7. ASSUME NEW n \in 1 .. flushing + 1, NEW s \in Slot,
             callback[s] # 0, callback[s] <= since'[n]
      PROVE  s \in snapshot'[n]
  <2>1. n \in 1 .. MaxDepth /\ n \in Snapshot
    BY <1>1, BoundsAssumption, SnapshotAssumption
  <2>2. CASE n = flushing + 1
    BY <1>3, <1>4, <1>7, <2>1, <2>2 DEF SlotsSet
  <2>3. CASE n # flushing + 1
    <3>1. n \in 1 .. flushing
      BY <1>1, <2>3
    <3> QED
      BY <1>3, <1>4, <1>7, <2>1, <2>3, <3>1
  <2> QED
    BY <2>2, <2>3
<1>8. SnapshotsCover'
  BY <1>3, <1>4, <1>5, <1>7 DEF SnapshotsCover
<1> QED
  BY <1>2, <1>6, <1>8

LEMMA ReturnCover ==
  ASSUME SessionInv, CallbackReturns
  PROVE  AsyncInv' /\ FlushTypes' /\ SnapshotsCover'
<1>1. AsyncInv'
  BY MembersStep DEF SessionInv, CallbackReturns
<1>2. UNCHANGED <<callback, snapshot, log, flushing, since>>
  BY DEF CallbackReturns, Return
<1>3. Len(stack)' \in Nat /\ Len(stack) \in Nat /\ Len(stack)' <= Len(stack)
  <2>1. stack \in Seq([slot : Slot, callback : Nat]) /\ stack' \in Seq([slot : Slot, callback : Nat])
    BY <1>1 DEF SessionInv, AsyncInv, TypeOK, Slot
  <2>2. stack # <<>> /\ stack' = SubSeq(stack, 1, Len(stack) - 1)
    BY DEF CallbackReturns, Return
  <2>3. Len(stack) \in Nat /\ Len(stack') \in Nat /\ Len(stack) # 0
    BY <2>1, <2>2, LenProperties, EmptySeq
  <2>4. Len(stack') <= Len(stack)
    BY <2>1, <2>2, <2>3
  <2> QED
    BY <2>3, <2>4
<1>4. FlushTypes'
  BY <1>2, <1>3, BoundsAssumption DEF SessionInv, SessionTypes, FlushTypes
<1>5. SnapshotsCover'
  BY <1>2 DEF SessionInv, SnapshotsCover
<1> QED
  BY <1>1, <1>4, <1>5

LEMMA FlushReturnsCover ==
  ASSUME SessionInv, FlushReturns
  PROVE  AsyncInv' /\ FlushTypes' /\ SnapshotsCover'
<1>1. Len(stack) \in Nat /\ flushing \in Len(stack) .. MaxDepth /\ flushing > Len(stack)
      /\ flushing \in 1 .. MaxDepth
  BY MembersFacts, BoundsAssumption DEF SessionInv, SessionTypes, FlushReturns
<1>2. /\ snapshot' = [snapshot EXCEPT ![flushing] = {}]
      /\ since' = [since EXCEPT ![flushing] = 0]
      /\ flushing' = flushing - 1
      /\ UNCHANGED <<callback, stack, thrown, log>>
  BY DEF FlushReturns
<1>3. AsyncInv'
  <2>1. /\ AsyncInv /\ TypeOK /\ NeverThrows /\ SessionOffered
        /\ LatestRegistrationKept
    BY DEF SessionInv, AsyncInv
  <2>2. TypeOK' /\ NeverThrows' /\ SessionOffered'
    BY <1>1, <1>2, <2>1 DEF TypeOK, NeverThrows, SessionOffered
  <2>3. LatestRegistrationKept'
    BY <1>2, <2>1 DEF LatestRegistrationKept, LatestIn, Registrations
  <2>4. CallbacksLogged' /\ RunningDestroyedByOwnSlot'
    BY <1>2, <2>1, SameCallbacks
  <2> QED
    BY <2>2, <2>3, <2>4 DEF AsyncInv
<1>4. FlushTypes'
  BY <1>1, <1>2, BoundsAssumption DEF SessionInv, SessionTypes, FlushTypes
<1>5. SnapshotsCover'
  <2>1. /\ Len(log) <= MaxCalls /\ Len(log) \in Nat
        /\ since \in [1 .. MaxDepth -> 0 .. MaxCalls]
        /\ snapshot \in [Snapshot -> SUBSET Slot]
        /\ \A n \in 1 .. MaxDepth : since[n] <= Len(log)
        /\ \A n \in 1 .. flushing, s \in Slot :
             callback[s] # 0 /\ callback[s] <= since[n] => s \in snapshot[n]
    BY MembersFacts DEF SessionInv, SessionTypes, SnapshotsCover
  <2>2. \A n \in 1 .. MaxDepth : since'[n] <= Len(log)
    BY <1>1, <1>2, <2>1
  <2>3. \A n \in 1 .. flushing - 1 : n \in 1 .. flushing /\ n # flushing /\ n \in 1 .. MaxDepth
    BY <1>1, BoundsAssumption
  <2>4. \A n \in 1 .. flushing - 1, s \in Slot :
          callback[s] # 0 /\ callback[s] <= since'[n] => s \in snapshot'[n]
    BY <1>1, <1>2, <2>1, <2>3
  <2> QED
    BY <1>2, <2>1, <2>2, <2>4 DEF SnapshotsCover
<1> QED
  BY <1>3, <1>4, <1>5

(* The two outcomes of Deliver.                                            *)
Heard(e) == e.slot \in snapshot[flushing] /\ callback[Tested(e.slot)] # 0

LEMMA DeliverFacts ==
  ASSUME SessionInv, Deliver
  PROVE  /\ flushing \in 1 .. MaxDepth /\ Len(stack) < flushing
         /\ events # <<>> /\ Head(events) \in AnyEvent /\ events' = Tail(events)
         /\ UNCHANGED <<session, pending, flushing, since>>
         /\ Heard(Head(events)) =>
              /\ Event(flushing, Head(events).slot)
              /\ callback[Head(events).slot] # 0
              /\ Become(DoneIn(Head(events)), "reported") /\ Tell(DoneIn(Head(events)))
         /\ ~Heard(Head(events)) =>
              /\ UNCHANGED vars
              /\ \/ Unregistered(Head(events).slot)
                 \/ Head(events).slot = "session" /\ LatestIn("done") = 0
              /\ Become(DoneIn(Head(events)), "missed") /\ UNCHANGED told
<1> DEFINE e == Head(events)
<1>1. flushing \in 1 .. MaxDepth /\ Len(stack) < flushing
  BY MembersFacts, BoundsAssumption DEF SessionInv, SessionTypes, Deliver
<1>2. events # <<>> /\ e \in AnyEvent /\ events' = Tail(events)
  BY HeadTailProperties DEF SessionInv, SessionTypes, Deliver
<1>3. UNCHANGED <<session, pending, flushing, since>>
  BY DEF Deliver
<1>4. e.slot \in Slot
  BY <1>2 DEF AnyEvent
<1>5. callback \in [Slot -> Nat] /\ \A s \in Slot : callback[s] = LatestIn(s)
  BY MembersFacts DEF SessionInv
<1>6. ASSUME Heard(e)
      PROVE  /\ Event(flushing, e.slot) /\ callback[e.slot] # 0
             /\ Become(DoneIn(e), "reported") /\ Tell(DoneIn(e))
  <2>1. callback[e.slot] # 0
    BY <1>1, <1>6, SnapshotAssumption
       DEF Heard, Tested, SessionInv, AsyncInv, SessionOffered
  <2>2. /\ Event(flushing, e.slot)
        /\ Become(IF TellsDone(e) THEN e.requests ELSE {}, "reported")
        /\ Tell(IF TellsDone(e) THEN e.requests ELSE {})
    BY <1>6 DEF Heard, Deliver
  <2> QED
    BY <2>1, <2>2 DEF TellsDone, DoneIn
<1>7. ASSUME ~Heard(e)
      PROVE  \/ Unregistered(e.slot)
             \/ e.slot = "session" /\ LatestIn("done") = 0
  <2>1. CASE e.slot \notin snapshot[flushing]
    <3>1. callback[e.slot] = 0 \/ ~(callback[e.slot] <= since[flushing])
      BY <1>1, <1>4, <2>1 DEF SessionInv, SnapshotsCover
    <3>2. since[flushing] \in Nat /\ callback[e.slot] \in Nat
      BY <1>1, <1>4, <1>5 DEF SessionInv, SessionTypes
    <3> QED
      BY <1>4, <1>5, <3>1, <3>2 DEF Unregistered
  <2>2. CASE callback[Tested(e.slot)] = 0
    BY <1>4, <1>5, <2>2 DEF Tested, Slot, Unregistered
  <2> QED
    BY <1>7, <2>1, <2>2 DEF Heard
<1>8. ASSUME ~Heard(e) PROVE UNCHANGED <<vars, told>> /\ Become(DoneIn(e), "missed")
  <2>1. /\ UNCHANGED <<vars, told>>
        /\ Become(IF e.slot = "done" /\ Unregistered("done") THEN e.requests ELSE {}, "missed")
    BY <1>8 DEF Heard, Deliver
  <2>2. e.slot = "done" => Unregistered("done")
    BY <1>7, <1>8
  <2> QED
    BY <2>1, <2>2 DEF DoneIn
<1> QED
  BY <1>1, <1>2, <1>3, <1>6, <1>7, <1>8

LEMMA DeliverCover ==
  ASSUME SessionInv, Deliver
  PROVE  AsyncInv' /\ FlushTypes' /\ SnapshotsCover'
<1>1. CASE Heard(Head(events))
  <2>1. /\ flushing \in 1 .. MaxDepth /\ Head(events).slot \in Slot
        /\ Event(flushing, Head(events).slot)
        /\ UNCHANGED <<flushing, since>> /\ Len(stack) < flushing
    BY <1>1, DeliverFacts DEF AnyEvent
  <2>2. AsyncInv'
    BY <2>1, MembersStep DEF SessionInv
  <2>3. UNCHANGED <<callback, snapshot, log>>
    BY <2>1 DEF Event
  <2>4. Len(stack)' \in Nat /\ Len(stack) \in Nat /\ Len(stack)' <= flushing
    <3>1. stack \in Seq([slot : Slot, callback : Nat])
      BY DEF SessionInv, AsyncInv, TypeOK
    <3>2. \/ stack' = stack
          \/ \E x : stack' = Append(stack, x) /\ x \in [slot : Slot, callback : Nat]
      <4>1. callback[Head(events).slot] \in Nat
        BY <2>1, MembersFacts DEF SessionInv
      <4> QED
        BY <2>1, <4>1 DEF Event, Slot
    <3>3. Len(stack) \in Nat /\ (Len(stack') = Len(stack) \/ Len(stack') = Len(stack) + 1)
      BY <3>1, <3>2, LenProperties, AppendProperties
    <3> QED
      BY <2>1, <3>3, BoundsAssumption
  <2>5. FlushTypes'
    BY <2>1, <2>4, BoundsAssumption DEF SessionInv, SessionTypes, FlushTypes
  <2>6. SnapshotsCover'
    BY <2>1, <2>3 DEF SessionInv, SnapshotsCover
  <2> QED
    BY <2>2, <2>5, <2>6
<1>2. CASE ~Heard(Head(events))
  BY <1>2, DeliverFacts, UnchangedCover
<1> QED
  BY <1>1, <1>2

-----------------------------------------------------------------------------
(* The ledger of the requests.                                             *)

LedgerTypes ==
  /\ session \in {"none", "pending", "started", "stopping", "stopped"}
  /\ pending \subseteq Request
  /\ events \in Seq(AnyEvent)
  /\ outcome \in [Request -> {"unused", "waiting"} \cup Ledger!Outcome]
  /\ told \in [Request -> Nat]

LedgerStep == [Ledger!Next]_(Ledger!vars)

(* Outcomes that the client is not told of.                                *)
Untold == Ledger!Outcome \ {"reported"}

LEMMA ReportStep ==
  ASSUME NEW rs \in SUBSET Request, Become(rs, "reported"), Tell(rs),
         \A r \in rs : outcome[r] = "waiting"
  PROVE  LedgerStep
BY DEF LedgerStep, Ledger!Next, Ledger!Report, Ledger!Waiting, Become, Tell, Ledger!Become

LEMMA SettleStep ==
  ASSUME NEW rs \in SUBSET Request, NEW what \in Untold,
         Become(rs, what), UNCHANGED told, \A r \in rs : outcome[r] = "waiting"
  PROVE  LedgerStep
BY DEF Untold, LedgerStep, Ledger!Next, Ledger!Settle, Ledger!Waiting, Become, Ledger!Become

(* The queue takes events that report, between them, rs as done; of the    *)
(* requests that leave the runtime the others are gone.                    *)
LEMMA QueueGrows ==
  ASSUME LedgerTypes, WaitingOnce, NEW gone, NEW left,
         events' \in Seq(AnyEvent), OnceIn(events'),
         NEW rs \in SUBSET pending, ResolvedIn(events') = ResolvedIn(events) \cup rs,
         pending' = pending \ left, rs \subseteq left, left \subseteq pending,
         Become(left \ rs, gone), gone \in Untold, UNCHANGED told
  PROVE  pending' \subseteq Request /\ events' \in Seq(AnyEvent)
         /\ outcome' \in [Request -> {"unused", "waiting"} \cup Ledger!Outcome]
         /\ WaitingOnce' /\ LedgerStep
<1>1. gone # "waiting" /\ gone \in Ledger!Outcome
  BY DEF Untold, Ledger!Outcome
<1>2. /\ outcome \in [Request -> {"unused", "waiting"} \cup Ledger!Outcome]
      /\ outcome' = [r \in Request |-> IF r \in left \ rs THEN gone ELSE outcome[r]]
      /\ pending \subseteq Request
  BY DEF LedgerTypes, Become
<1>3. /\ \A r \in Request : outcome[r] = "waiting" <=> r \in pending \cup ResolvedIn(events)
      /\ pending \cap ResolvedIn(events) = {}
  BY DEF WaitingOnce
<1>4. outcome' \in [Request -> {"unused", "waiting"} \cup Ledger!Outcome]
  BY <1>1, <1>2
<1>5. \A r \in Request : outcome'[r] = "waiting" <=> r \in pending' \cup ResolvedIn(events)'
  BY <1>1, <1>2, <1>3 DEF ResolvedIn
<1>6. pending' \cap ResolvedIn(events)' = {}
  BY <1>3 DEF ResolvedIn
<1>7. WaitingOnce'
  BY <1>5, <1>6 DEF WaitingOnce, OnceIn
<1>8. LedgerStep
  <2>1. left \ rs \in SUBSET Request /\ \A r \in left \ rs : outcome[r] = "waiting"
    BY <1>2, <1>3
  <2> QED
    BY <2>1, SettleStep
<1> QED
  BY <1>2, <1>4, <1>7, <1>8

SessionEvent == AnEvent("session", {})

LEMMA MoreEvents ==
  ASSUME LedgerTypes, WaitingOnce, NEW e \in AnyEvent, DoneIn(e) \cap ResolvedIn(events) = {}
  PROVE  /\ events \o <<e>> \in Seq(AnyEvent) /\ OnceIn(events \o <<e>>)
         /\ ResolvedIn(events \o <<e>>) = ResolvedIn(events) \cup DoneIn(e)
BY OneMoreEvent DEF LedgerTypes, WaitingOnce

LEMMA SessionEventType == SessionEvent \in AnyEvent /\ DoneIn(SessionEvent) = {}
BY DEF SessionEvent, AnEvent, AnyEvent, DoneIn, Slot

LEMMA StartLedger ==
  ASSUME LedgerTypes, WaitingOnce, Start \/ Started
  PROVE  LedgerTypes' /\ WaitingOnce' /\ LedgerStep
<1>1. /\ events' = events \o <<SessionEvent>> /\ UNCHANGED <<pending, outcome, told>>
      /\ session' \in {"pending", "started"}
  BY DEF Start, Started, Happens, SessionEvent
<1>2. /\ events' \in Seq(AnyEvent) /\ OnceIn(events')
      /\ ResolvedIn(events') = ResolvedIn(events) \cup {}
  BY <1>1, SessionEventType, MoreEvents
<1>3. Become({} \ {}, "missed") /\ "missed" \in Untold
  BY <1>1 DEF LedgerTypes, Become, Untold, Ledger!Outcome
<1>4. {} \in SUBSET pending /\ pending' = pending \ {} /\ {} \subseteq pending
  BY <1>1
<1>5. /\ pending' \subseteq Request /\ events' \in Seq(AnyEvent)
      /\ outcome' \in [Request -> {"unused", "waiting"} \cup Ledger!Outcome]
      /\ WaitingOnce' /\ LedgerStep
  <2>1. UNCHANGED told
    BY <1>1
  <2> QED
    BY <1>2, <1>3, <1>4, <2>1, QueueGrows
<1> QED
  BY <1>1, <1>5 DEF LedgerTypes

LEMMA EndLedger ==
  ASSUME LedgerTypes, WaitingOnce, NEW rs \in SUBSET pending,
         events' \in Seq(AnyEvent), OnceIn(events'),
         ResolvedIn(events') = ResolvedIn(events) \cup rs,
         session' = "stopped", pending' = {}, Become(pending \ rs, "abandoned"), UNCHANGED told
  PROVE  LedgerTypes' /\ WaitingOnce' /\ LedgerStep
<1>1. "abandoned" \in Untold /\ pending' = pending \ pending
  BY DEF Untold, Ledger!Outcome
<1>2. /\ pending' \subseteq Request /\ events' \in Seq(AnyEvent)
      /\ outcome' \in [Request -> {"unused", "waiting"} \cup Ledger!Outcome]
      /\ WaitingOnce' /\ LedgerStep
  BY <1>1, QueueGrows
<1> QED
  BY <1>2 DEF LedgerTypes

LEMMA StoppedLedger ==
  ASSUME LedgerTypes, WaitingOnce, Stopped
  PROVE  LedgerTypes' /\ WaitingOnce' /\ LedgerStep
<1>1. /\ events' = events \o <<SessionEvent>> /\ pending' = {} /\ session' = "stopped"
      /\ Become(pending \ {}, "abandoned") /\ UNCHANGED told
  BY DEF Stopped, Ends, Happens, SessionEvent, Become
<1>2. /\ events' \in Seq(AnyEvent) /\ OnceIn(events')
      /\ ResolvedIn(events') = ResolvedIn(events) \cup {}
  BY <1>1, SessionEventType, MoreEvents
<1> QED
  BY <1>1, <1>2, EndLedger

LEMMA ExecuteLedger ==
  ASSUME LedgerTypes, WaitingOnce, NEW rs \in SUBSET Request, Execute(rs)
  PROVE  LedgerTypes' /\ WaitingOnce' /\ LedgerStep
<1> DEFINE e == AnEvent("done", rs)
<1>1. /\ rs \in SUBSET pending /\ pending' = pending \ rs
      /\ events' = events \o <<e>> /\ UNCHANGED <<session, outcome, told>>
  BY DEF Execute, Happens
<1>2. e \in AnyEvent /\ DoneIn(e) = rs
  BY DEF AnEvent, AnyEvent, DoneIn, Slot
<1>3. /\ events' \in Seq(AnyEvent) /\ OnceIn(events')
      /\ ResolvedIn(events') = ResolvedIn(events) \cup rs
  <2>1. DoneIn(e) \cap ResolvedIn(events) = {}
    BY <1>1, <1>2 DEF WaitingOnce
  <2> HIDE DEF e
  <2> QED
    BY <1>1, <1>2, <2>1, MoreEvents
<1>4. Become(rs \ rs, "missed") /\ "missed" \in Untold
  BY <1>1 DEF LedgerTypes, Become, Untold, Ledger!Outcome
<1>5. /\ pending' \subseteq Request /\ events' \in Seq(AnyEvent)
      /\ outcome' \in [Request -> {"unused", "waiting"} \cup Ledger!Outcome]
      /\ WaitingOnce' /\ LedgerStep
  BY <1>1, <1>3, <1>4, QueueGrows
<1> QED
  BY <1>1, <1>5 DEF LedgerTypes

LEMMA FailLedger ==
  ASSUME LedgerTypes, WaitingOnce, NEW rs \in SUBSET Request, Fail(rs)
  PROVE  LedgerTypes' /\ WaitingOnce' /\ LedgerStep
<1>1. /\ rs \in SUBSET pending /\ pending' = {} /\ session' = "stopped"
      /\ Become(pending \ rs, "abandoned") /\ UNCHANGED told
      /\ events' = events \o ((IF rs = {} THEN <<AnEvent("system", {})>>
                                ELSE <<AnEvent("error", rs), AnEvent("done", rs)>>)
                              \o <<SessionEvent>>)
  BY DEF Fail, Ends, Happens, SessionEvent
<1>2. events \in Seq(AnyEvent) /\ OnceIn(events) /\ rs \cap ResolvedIn(events) = {}
  BY <1>1 DEF LedgerTypes, WaitingOnce
<1>3. CASE rs = {}
  <2> DEFINE e == AnEvent("system", {})
  <2>1. e \in AnyEvent /\ DoneIn(e) = {}
    BY DEF AnEvent, AnyEvent, DoneIn, Slot
  <2> HIDE DEF e
  <2>2. /\ events \o <<e>> \in Seq(AnyEvent) /\ OnceIn(events \o <<e>>)
        /\ ResolvedIn(events \o <<e>>) = ResolvedIn(events)
    BY <2>1, MoreEvents
  <2> DEFINE q == events \o <<e>>
  <2>3. events' = q \o <<SessionEvent>>
    <3>1. <<e>> \in Seq(AnyEvent) /\ <<SessionEvent>> \in Seq(AnyEvent)
      BY <2>1, SessionEventType
    <3>2. events' = events \o (<<e>> \o <<SessionEvent>>)
      BY <1>1, <1>3 DEF e
    <3> QED
      BY <1>2, <3>1, <3>2, ConcatAssociative
  <2> HIDE DEF q
  <2>4. q \in Seq(AnyEvent) /\ OnceIn(q) /\ ResolvedIn(q) = ResolvedIn(events)
    BY <2>2 DEF q
  <2>5. /\ events' \in Seq(AnyEvent) /\ OnceIn(events')
        /\ ResolvedIn(events') = ResolvedIn(events) \cup rs
    BY <1>3, <2>3, <2>4, SessionEventType, OneMoreEvent
  <2> QED
    BY <1>1, <2>5, EndLedger
<1>4. CASE rs # {}
  <2> DEFINE e == AnEvent("error", rs)
             d == AnEvent("done", rs)
  <2>1. e \in AnyEvent /\ d \in AnyEvent /\ DoneIn(e) = {} /\ DoneIn(d) = rs
    BY <1>4 DEF AnEvent, AnyEvent, DoneIn, Slot
  <2> HIDE DEF e, d
  <2> DEFINE q == events \o <<e>>
             p == q \o <<d>>
  <2>2. q \in Seq(AnyEvent) /\ OnceIn(q) /\ ResolvedIn(q) = ResolvedIn(events)
    BY <2>1, MoreEvents
  <2>3. events' = p \o <<SessionEvent>>
    <3>1. <<e>> \in Seq(AnyEvent) /\ <<d>> \in Seq(AnyEvent) /\ <<SessionEvent>> \in Seq(AnyEvent)
          /\ <<d>> \o <<SessionEvent>> \in Seq(AnyEvent)
      BY <2>1, SessionEventType, ConcatProperties
    <3>2. events' = events \o (<<e, d>> \o <<SessionEvent>>)
      BY <1>1, <1>4 DEF e, d
    <3>3. <<e, d>> \o <<SessionEvent>> = <<e>> \o (<<d>> \o <<SessionEvent>>)
      <4>1. <<e, d>> = <<e>> \o <<d>>
        BY <2>1, PairIsConcat
      <4> QED
        BY <3>1, <4>1, ConcatAssociative
    <3>4. events' = q \o (<<d>> \o <<SessionEvent>>)
      BY <1>2, <3>1, <3>2, <3>3, ConcatAssociative
    <3> HIDE DEF q
    <3> QED
      BY <2>2, <3>1, <3>4, ConcatAssociative
  <2> HIDE DEF q
  <2>4. p \in Seq(AnyEvent) /\ OnceIn(p) /\ ResolvedIn(p) = ResolvedIn(events) \cup rs
    BY <1>2, <2>1, <2>2, OneMoreEvent
  <2> HIDE DEF p
  <2>5. /\ events' \in Seq(AnyEvent) /\ OnceIn(events')
        /\ ResolvedIn(events') = ResolvedIn(events) \cup rs
    BY <2>3, <2>4, SessionEventType, OneMoreEvent
  <2> QED
    BY <1>1, <2>5, EndLedger
<1> QED
  BY <1>3, <1>4

LEMMA EnqueueLedger ==
  ASSUME LedgerTypes, WaitingOnce, NEW r \in Request, Enqueue(r)
  PROVE  LedgerTypes' /\ WaitingOnce' /\ LedgerStep
<1>1. /\ UNCHANGED <<session, events>> /\ pending' = pending \cup {r}
      /\ r \notin pending \cup ResolvedIn(events)
      /\ outcome' = [q \in Request |-> IF q \in {r} THEN "waiting" ELSE outcome[q]]
      /\ told' = [told EXCEPT ![r] = 0]
  BY ResolvedIsResolvedIn DEF Enqueue, Become
<1>2. outcome[r] # "waiting"
  BY <1>1 DEF WaitingOnce
<1>3. LedgerTypes'
  BY <1>1 DEF LedgerTypes
<1>4. WaitingOnce'
  BY <1>1 DEF WaitingOnce, ResolvedIn, OnceIn, LedgerTypes
<1>5. LedgerStep
  BY <1>1, <1>2 DEF LedgerStep, Ledger!Next, Ledger!Enqueue, Ledger!Waiting, Ledger!Become
<1> QED
  BY <1>3, <1>4, <1>5

(* Events leave the queue, and what they reported is settled.              *)
LEMMA QueueShrinks ==
  ASSUME LedgerTypes, WaitingOnce, NEW rs \in SUBSET ResolvedIn(events),
         events' \in Seq(AnyEvent), OnceIn(events'),
         ResolvedIn(events') = ResolvedIn(events) \ rs,
         UNCHANGED <<session, pending>>,
         NEW what \in Ledger!Outcome, Become(rs, what),
         IF what = "reported" THEN Tell(rs) ELSE UNCHANGED told
  PROVE  LedgerTypes' /\ WaitingOnce' /\ LedgerStep
<1>1. what # "waiting"
  BY DEF Ledger!Outcome
<1>2. outcome' = [r \in Request |-> IF r \in rs THEN what ELSE outcome[r]]
  BY DEF Become
<1>3. ResolvedIn(events) \subseteq Request
  <2>1. \A i \in DOMAIN events : events[i] \in AnyEvent
    BY LenProperties, ElementOfSeq DEF LedgerTypes
  <2> QED
    BY <2>1 DEF ResolvedIn, DoneIn, AnyEvent
<1>4. LedgerTypes'
  <2>1. told' \in [Request -> Nat]
    BY DEF Tell, LedgerTypes
  <2> QED
    BY <1>2, <2>1 DEF LedgerTypes
<1>5. \A r \in Request : outcome'[r] = "waiting" <=> r \in pending' \cup ResolvedIn(events)'
  BY <1>1, <1>2 DEF WaitingOnce, ResolvedIn
<1>6. WaitingOnce'
  BY <1>5 DEF WaitingOnce, ResolvedIn, OnceIn
<1>7. LedgerStep
  <2>1. rs \in SUBSET Request /\ \A r \in rs : outcome[r] = "waiting"
    BY <1>3 DEF WaitingOnce
  <2> QED
    BY <2>1, ReportStep, SettleStep DEF Untold
<1> QED
  BY <1>4, <1>6, <1>7

LEMMA FlushWithoutLedger ==
  ASSUME LedgerTypes, WaitingOnce, FlushWithout
  PROVE  LedgerTypes' /\ WaitingOnce' /\ LedgerStep
<1>1. /\ events' = <<>> /\ Become(ResolvedIn(events), "missed") /\ UNCHANGED <<session, pending, told>>
  BY ResolvedIsResolvedIn DEF FlushWithout
<1>2. events' \in Seq(AnyEvent) /\ DOMAIN events' = {}
  BY <1>1, EmptySeq
<1>3. OnceIn(events') /\ ResolvedIn(events') = ResolvedIn(events) \ ResolvedIn(events)
  BY <1>2 DEF OnceIn, ResolvedIn
<1>4. "missed" \in Ledger!Outcome /\ "missed" # "reported"
  BY DEF Ledger!Outcome
<1> QED
  BY <1>1, <1>2, <1>3, <1>4, QueueShrinks

LEMMA DeliverLedger ==
  ASSUME SessionInv, Deliver
  PROVE  LedgerTypes' /\ WaitingOnce' /\ LedgerStep
<1>1. LedgerTypes /\ WaitingOnce
  BY DEF SessionInv, SessionTypes, LedgerTypes
<1>2. /\ events # <<>> /\ events' = Tail(events) /\ UNCHANGED <<session, pending>>
      /\ \/ Become(DoneIn(Head(events)), "reported") /\ Tell(DoneIn(Head(events)))
         \/ Become(DoneIn(Head(events)), "missed") /\ UNCHANGED told
  BY DeliverFacts
<1>3. /\ events' \in Seq(AnyEvent) /\ OnceIn(events')
      /\ ResolvedIn(events') = ResolvedIn(events) \ DoneIn(Head(events))
      /\ DoneIn(Head(events)) \in SUBSET ResolvedIn(events)
  BY <1>1, <1>2, FirstEventGone DEF LedgerTypes, WaitingOnce
<1>4. "reported" \in Ledger!Outcome /\ "missed" \in Ledger!Outcome
      /\ "missed" # "reported"
  BY DEF Ledger!Outcome
<1>5. CASE Become(DoneIn(Head(events)), "reported") /\ Tell(DoneIn(Head(events)))
  BY <1>1, <1>2, <1>3, <1>4, <1>5, QueueShrinks
<1>6. CASE Become(DoneIn(Head(events)), "missed") /\ UNCHANGED told
  BY <1>1, <1>2, <1>3, <1>4, <1>6, QueueShrinks
<1> QED
  BY <1>2, <1>5, <1>6

LEMMA UnchangedLedger ==
  ASSUME LedgerTypes, WaitingOnce, UNCHANGED <<pending, events, outcome, told>>,
         session' \in {"none", "pending", "started", "stopping", "stopped"}
  PROVE  LedgerTypes' /\ WaitingOnce' /\ LedgerStep
BY DEF LedgerTypes, WaitingOnce, LedgerStep, Ledger!vars, ResolvedIn, OnceIn

-----------------------------------------------------------------------------
LEMMA CoverStep ==
  ASSUME SessionInv, [SessionNext]_sessionVars
  PROVE  AsyncInv' /\ FlushTypes' /\ SnapshotsCover'
<1>1. CASE Register
  BY <1>1, RegisterCover
<1>2. CASE Flush
  BY <1>2, FlushCover
<1>3. CASE CallbackReturns
  BY <1>3, ReturnCover
<1>4. CASE Deliver
  BY <1>4, DeliverCover
<1>5. CASE FlushReturns
  BY <1>5, FlushReturnsCover
<1>6. CASE \/ Start \/ Stop \/ FlushWithout \/ Started \/ Stopped
           \/ \E r \in Request : Enqueue(r)
           \/ \E rs \in SUBSET Request : Fail(rs) \/ Execute(rs)
           \/ UNCHANGED sessionVars
  <2>1. UNCHANGED <<vars, flushing, since>>
    BY <1>6 DEF Start, Stop, FlushWithout, Started, Stopped, Enqueue, Fail, Execute, sessionVars
  <2> QED
    BY <2>1, UnchangedCover
<1> QED
  BY <1>1, <1>2, <1>3, <1>4, <1>5, <1>6 DEF SessionNext, Client, Runtime

LEMMA LedgerOfStep ==
  ASSUME SessionInv, [SessionNext]_sessionVars
  PROVE  LedgerTypes' /\ WaitingOnce' /\ LedgerStep
<1>1. LedgerTypes /\ WaitingOnce
  BY DEF SessionInv, SessionTypes, LedgerTypes
<1>2. CASE Start \/ Started
  BY <1>1, <1>2, StartLedger
<1>3. CASE Stopped
  BY <1>1, <1>3, StoppedLedger
<1>4. CASE \E r \in Request : Enqueue(r)
  BY <1>1, <1>4, EnqueueLedger
<1>5. CASE \E rs \in SUBSET Request : Fail(rs)
  BY <1>1, <1>5, FailLedger
<1>6. CASE \E rs \in SUBSET Request : Execute(rs)
  BY <1>1, <1>6, ExecuteLedger
<1>7. CASE FlushWithout
  BY <1>1, <1>7, FlushWithoutLedger
<1>8. CASE Deliver
  BY <1>8, DeliverLedger
<1>9. CASE Register \/ Stop \/ Flush \/ CallbackReturns \/ FlushReturns \/ UNCHANGED sessionVars
  <2>1. /\ UNCHANGED <<pending, events, outcome, told>>
        /\ session' \in {"none", "pending", "started", "stopping", "stopped"}
    BY <1>1, <1>9 DEF Register, Stop, Flush, CallbackReturns, FlushReturns, sessionVars, LedgerTypes
  <2> QED
    BY <1>1, <2>1, UnchangedLedger
<1> QED
  BY <1>2, <1>3, <1>4, <1>5, <1>6, <1>7, <1>8, <1>9 DEF SessionNext, Client, Runtime

LEMMA NextSessionInv == SessionInv /\ [SessionNext]_sessionVars => SessionInv'
BY CoverStep, LedgerOfStep DEF SessionInv, SessionTypes, FlushTypes, LedgerTypes

(* Every reachable state of a session satisfies the invariant.             *)
THEOREM SessionInvariant == SessionSpec => []SessionInv
BY InitSessionInv, NextSessionInv, PTL DEF SessionSpec

(* The types of the session, its queue and its collector.                  *)
THEOREM SessionTypeCorrect == SessionSpec => []SessionTypeOK
<1>1. SessionInv => SessionTypeOK
  BY DEF SessionInv, SessionTypes, AsyncInv, TypeOK,
         SessionTypeOK, Slot, AnyEvent, Ledger!Outcome
<1> QED
  BY <1>1, SessionInvariant, PTL

(* The promises of the collector hold in a session, where snapshots live   *)
(* as long as the flush_events they belong to and a flush may begin inside *)
(* a callback of another: no trampoline throws, a running callback is      *)
(* destroyed only by a registration in its own slot or, an error callback, *)
(* by clear(), and each slot holds its last registration.                  *)
THEOREM SessionKeepsCollector ==
  SessionSpec => [](NeverThrows /\ RunningDestroyedByOwnSlot /\ LatestRegistrationKept)
<1>1. SessionInv => NeverThrows /\ RunningDestroyedByOwnSlot /\ LatestRegistrationKept
  BY DEF SessionInv, AsyncInv
<1> QED
  BY <1>1, SessionInvariant, PTL

(* An event that no callback hears of belongs to a slot for which none was *)
(* registered when the flush began, or to the session events while nothing *)
(* is registered for finished requests: flush_events and the trampolines   *)
(* of async_events_collector.                                              *)
THEOREM SessionDropsOnlyUnregistered == SessionSpec => DropsOnlyUnregistered
<1> DEFINE slot == Head(events).slot
           Rightly == Deliver /\ UNCHANGED stack =>
                        Unregistered(slot) \/ (slot = "session" /\ LatestIn("done") = 0)
<1>1. SessionInv => Rightly
  <2> SUFFICES ASSUME SessionInv, Deliver, UNCHANGED stack
               PROVE  Unregistered(slot) \/ (slot = "session" /\ LatestIn("done") = 0)
    OBVIOUS
  <2>1. CASE Heard(Head(events))
    <3>1. Event(flushing, slot) /\ callback[slot] # 0
      BY <2>1, DeliverFacts
    <3>2. stack' = Append(stack, [slot |-> slot, callback |-> callback[slot]])
      BY <3>1 DEF Event
    <3>3. stack \in Seq([slot : Slot, callback : Nat])
      BY DEF SessionInv, AsyncInv, TypeOK
    <3>4. [slot |-> slot, callback |-> callback[slot]] \in [slot : Slot, callback : Nat]
      BY DeliverFacts, MembersFacts DEF SessionInv, AnyEvent, Slot
    <3>5. Len(stack') = Len(stack) + 1 /\ Len(stack) \in Nat
      BY <3>2, <3>3, <3>4, AppendProperties, LenProperties
    <3> QED
      BY <3>5
  <2>2. CASE ~Heard(Head(events))
    BY <2>2, DeliverFacts
  <2> QED
    BY <2>1, <2>2
<1>2. SessionInv => [Rightly]_sessionVars
  BY <1>1
<1> QED
  BY <1>2, SessionInvariant, PTL DEF DropsOnlyUnregistered

(* From the enqueue_execution_options that returns an id on, a client is   *)
(* told of it at most once and never while it does not wait for it:        *)
(* async_request_done_callback, however the callbacks use                  *)
(* enqueue_execution_options, flush_events and the collector, if           *)
(* ecsact_async_flush_events takes each event off its queue once.          *)
THEOREM SessionImplementsLedger == SessionSpec => ImplementsLedger
<1>1. SessionInit => Ledger!Init
  BY DEF SessionInit, Ledger!Init
<1>2. SessionInv /\ [SessionNext]_sessionVars => [Ledger!Next]_(Ledger!vars)
  BY LedgerOfStep DEF LedgerStep
<1> QED
  BY <1>1, <1>2, SessionInvariant, PTL DEF SessionSpec, ImplementsLedger, Ledger!Spec
=============================================================================

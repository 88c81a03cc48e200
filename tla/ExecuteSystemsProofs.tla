------------------------ MODULE ExecuteSystemsProofs ------------------------
(***************************************************************************)
(* Proofs about ExecuteSystems, for any collectors and callbacks and any   *)
(* number of nested calls.                                                 *)
(***************************************************************************)
EXTENDS ExecuteSystems, SequenceTheorems, TLAPS

CCollector == [of : Collector, events : SUBSET Event, lost : BOOLEAN]
Frame == [of : Collector, events : SUBSET Event, lost : BOOLEAN, running : BOOLEAN]

(* What one object has: what HearsLatest says of it, if it exists; and     *)
(* never no function at all in the place of the one for any component.     *)
ObjectInv(c) ==
  /\ slot[c]["any"] # None
  /\ \A e \in Event :
       IF Alive(c) THEN IF <<c, e>> \in emptied THEN Found(c, e) \in {None, Empty}
                                               ELSE Found(c, e) = wants[c][e]
       ELSE <<c, e>> \notin emptied /\ wants[c][e] = None
  /\ ~Alive(c) => slot[c]["created"] = None

(* A C collector that is not lost refers to an object.                     *)
Referred ==
  /\ kept # None /\ ~kept.lost => Alive(kept.of)
  /\ \A i \in DOMAIN stack : ~stack[i].lost => Alive(stack[i].of)

SystemsInv ==
  /\ TypeOK
  /\ \A c \in Collector : ObjectInv(c)
  /\ Referred
  /\ FailsOnlyIfMisused

LEMMA InitSystemsInv == Init => SystemsInv
<1> SUFFICES ASSUME Init PROVE SystemsInv
  OBVIOUS
<1>1. TypeOK
  BY EmptySeq DEF Init, TypeOK, Fresh, Slot, Function, Fine
<1>2. \A c \in Collector : ObjectInv(c)
  BY NoneAssumption DEF Init, ObjectInv, Fresh, Alive
<1>3. Referred /\ FailsOnlyIfMisused
  BY DEF Init, Referred, FailsOnlyIfMisused, Fine
<1> QED
  BY <1>1, <1>2, <1>3 DEF SystemsInv

LEMMA StackFrames ==
  ASSUME TypeOK
  PROVE  /\ Len(stack) \in Nat /\ DOMAIN stack = 1 .. Len(stack)
         /\ \A i \in DOMAIN stack : stack[i] \in Frame
         /\ stack # <<>> => Len(stack) \in DOMAIN stack /\ Top \in Frame
<1>1. stack \in Seq(Frame)
  BY DEF TypeOK, Frame
<1>2. Len(stack) \in Nat /\ DOMAIN stack = 1 .. Len(stack)
  BY <1>1, LenProperties
<1>3. \A i \in 1 .. Len(stack) : stack[i] \in Frame
  BY <1>1, ElementOfSeq
<1>4. stack # <<>> => Len(stack) \in 1 .. Len(stack)
  BY <1>1, <1>2, EmptySeq
<1> QED
  BY <1>2, <1>3, <1>4 DEF Top

(* Steps that leave the C collectors alone and destroy no object.          *)
LEMMA ReferredKept ==
  ASSUME SystemsInv, UNCHANGED <<stack, kept>>, outcome' = Fine,
         \A c \in Collector : Alive(c) => Alive(c)'
  PROVE  Referred' /\ FailsOnlyIfMisused'
<1>1. \A i \in DOMAIN stack : ~stack[i].lost => Alive(stack[i].of)'
  <2> SUFFICES ASSUME NEW i \in DOMAIN stack, ~stack[i].lost PROVE Alive(stack[i].of)'
    OBVIOUS
  <2>1. stack[i].of \in Collector /\ Alive(stack[i].of)
    BY StackFrames DEF Frame, SystemsInv, Referred
  <2> QED
    BY <2>1
<1>2. kept # None /\ ~kept.lost => Alive(kept.of)'
  BY DEF SystemsInv, Referred, TypeOK
<1>3. Referred'
  BY <1>1, <1>2 DEF Referred, Alive
<1> QED
  BY <1>3 DEF FailsOnlyIfMisused, Fine

(* Steps that do not concern an object.                                    *)
LEMMA ObjectKept ==
  ASSUME NEW c \in Collector, ObjectInv(c),
         current'[c] = current[c], slot'[c] = slot[c], wants'[c] = wants[c],
         \A e \in Event : <<c, e>> \in emptied' <=> <<c, e>> \in emptied
  PROVE  ObjectInv(c)'
BY DEF ObjectInv, Alive, Found, SlotOf

LEMMA CreateInv == ASSUME SystemsInv, NEW c \in Collector, Create(c) PROVE SystemsInv'
<1>1. TypeOK /\ UNCHANGED <<stack, kept>> /\ outcome' = Fine
  BY DEF SystemsInv, Create, Changes, ClientRuns
<1>2. TypeOK'
  BY DEF SystemsInv, TypeOK, Create, Changes
<1>3. Referred' /\ FailsOnlyIfMisused'
  BY <1>1, ReferredKept DEF Create, Alive, TypeOK
<1>4. \A d \in Collector \ {c} : ObjectInv(d)'
  BY <1>1, ObjectKept DEF SystemsInv, Create, TypeOK
<1>5. ObjectInv(c)'
  <2>1. ObjectInv(c) /\ ~Alive(c) /\ Alive(c)' /\ current'[c] = "null"
    BY <1>1 DEF SystemsInv, Create, Alive, TypeOK
  <2> QED
    BY <2>1 DEF ObjectInv, Create, Found, SlotOf, Event
<1> QED
  BY <1>2, <1>3, <1>4, <1>5 DEF SystemsInv

(* The C collectors that refer to an object are lost with it.              *)
LEMMA LoseReferred ==
  ASSUME SystemsInv, NEW c \in Collector, Lose(c),
         \A d \in Collector \ {c} : Alive(d) => Alive(d)'
  PROVE  /\ stack' \in Seq(Frame)
         /\ kept' = None \/ kept' \in CCollector
         /\ Referred'
<1>1. /\ DOMAIN stack = 1 .. Len(stack) /\ Len(stack) \in Nat
      /\ \A i \in DOMAIN stack : stack[i] \in Frame
  BY StackFrames DEF SystemsInv
<1>2. kept = None \/ kept \in CCollector
  BY DEF SystemsInv, TypeOK, CCollector
<1>3. \A i \in DOMAIN stack :
        /\ stack'[i] = IF stack[i].of = c THEN [stack[i] EXCEPT !.lost = TRUE] ELSE stack[i]
        /\ stack'[i] \in Frame
  BY <1>1 DEF Lose, Frame
<1>4. stack' \in Seq(Frame) /\ DOMAIN stack' = DOMAIN stack
  <2>1. stack' = [i \in 1 .. Len(stack) |-> stack'[i]]
    BY <1>1 DEF Lose
  <2>2. \A i \in 1 .. Len(stack) : stack'[i] \in Frame
    BY <1>1, <1>3
  <2> QED
    BY <1>1, <2>1, <2>2, IsASeq
<1>5. kept' = None \/ kept' \in CCollector
  BY <1>2 DEF Lose, CCollector
<1>6. \A i \in DOMAIN stack' : ~stack'[i].lost => current'[stack'[i].of] # "dead"
  <2> SUFFICES ASSUME NEW i \in DOMAIN stack, ~stack'[i].lost
               PROVE  current'[stack'[i].of] # "dead"
    BY <1>4
  <2>1. stack[i].of # c /\ stack'[i] = stack[i] /\ stack[i].of \in Collector
    BY <1>1, <1>3 DEF Frame
  <2>2. Alive(stack[i].of)
    BY <2>1 DEF SystemsInv, Referred
  <2> QED
    BY <2>1, <2>2 DEF Alive
<1>7. kept' # None /\ ~kept'.lost => current'[kept'.of] # "dead"
  <2> SUFFICES ASSUME kept' # None, ~kept'.lost PROVE current'[kept'.of] # "dead"
    OBVIOUS
  <2>1. kept \in CCollector /\ kept.of # c /\ kept' = kept
    BY <1>2 DEF Lose, CCollector
  <2>2. kept.of \in Collector /\ Alive(kept.of)
    BY <2>1 DEF SystemsInv, Referred, CCollector
  <2> QED
    BY <2>1, <2>2 DEF Alive
<1>8. Referred'
  BY <1>6, <1>7 DEF Referred, Alive
<1> QED
  BY <1>4, <1>5, <1>8

LEMMA DestroyInv == ASSUME SystemsInv, NEW c \in Collector, Destroy(c) PROVE SystemsInv'
<1>1. TypeOK /\ outcome' = Fine /\ Fresh \in [Slot -> Function \cup {None}]
  BY DEF SystemsInv, Destroy, Changes, ClientRuns, Fresh, Slot, Function
<1>2. /\ stack' \in Seq(Frame) /\ Referred'
      /\ kept' = None \/ kept' \in CCollector
  BY <1>1, LoseReferred DEF Destroy, Alive, TypeOK
<1>3. TypeOK' /\ FailsOnlyIfMisused'
  BY <1>1, <1>2 DEF TypeOK, Destroy, Changes, Frame, CCollector, FailsOnlyIfMisused, Fine
<1>4. \A d \in Collector \ {c} : ObjectInv(d)'
  <2> SUFFICES ASSUME NEW d \in Collector \ {c} PROVE ObjectInv(d)'
    OBVIOUS
  <2>1. \A e \in Event : <<d, e>> \in emptied' <=> <<d, e>> \in emptied
    BY DEF Destroy
  <2> QED
    BY <1>1, <2>1, ObjectKept DEF SystemsInv, Destroy, TypeOK
<1>5. ObjectInv(c)'
  <2>1. /\ ~Alive(c)' /\ slot'[c] = Fresh /\ wants'[c] = [e \in Event |-> None]
        /\ \A e \in Event : <<c, e>> \notin emptied'
    BY <1>1 DEF Destroy, Alive, TypeOK
  <2> QED
    BY <2>1, NoneAssumption DEF ObjectInv, Fresh
<1> QED
  BY <1>2, <1>3, <1>4, <1>5 DEF SystemsInv

LEMMA EmptiedAsType ==
  ASSUME emptied \subseteq Collector \X Event, NEW c, NEW d \in Collector
  PROVE  EmptiedAs(c, d) \subseteq Collector \X Event
<1>1. {m \in emptied : m[1] # d} \subseteq Collector \X Event
  OBVIOUS
<1>2. {<<d, e>> : e \in {x \in Event : <<c, x>> \in emptied}} \subseteq Collector \X Event
  <2> DEFINE events == {x \in Event : <<c, x>> \in emptied}
  <2>1. events \subseteq Event
    OBVIOUS
  <2> HIDE DEF events
  <2>2. {<<d, e>> : e \in events} \subseteq Collector \X Event
    BY <2>1
  <2> QED
    BY <2>2 DEF events
<1> QED
  BY <1>1, <1>2, Zenon DEF EmptiedAs

LEMMA EmptiedAsPairs ==
  ASSUME NEW c, NEW d
  PROVE  /\ \A e \in Event : <<d, e>> \in EmptiedAs(c, d) <=> <<c, e>> \in emptied
         /\ \A x, e : x # d => (<<x, e>> \in EmptiedAs(c, d) <=> <<x, e>> \in emptied)
BY DEF EmptiedAs

LEMMA CopyInv ==
  ASSUME SystemsInv, NEW c \in Collector, NEW d \in Collector, Copy(c, d)
  PROVE  SystemsInv'
<1>1. TypeOK /\ UNCHANGED <<stack, kept>> /\ outcome' = Fine /\ c # d /\ Alive(c)
  BY DEF SystemsInv, Copy, Changes, ClientRuns
<1>2. TypeOK'
  <2>1. emptied' \subseteq Collector \X Event
    BY <1>1, EmptiedAsType DEF TypeOK, Copy, Changes
  <2> QED
    BY <1>1, <2>1 DEF TypeOK, Copy, Changes
<1>3. Referred' /\ FailsOnlyIfMisused'
  BY <1>1, ReferredKept DEF Copy, Alive, TypeOK
<1>4. \A x \in Collector \ {d} : ObjectInv(x)'
  BY <1>1, EmptiedAsPairs, ObjectKept DEF SystemsInv, Copy, TypeOK
<1>5. ObjectInv(d)'
  <2>1. /\ current'[d] = current[c] /\ slot'[d] = slot[c] /\ wants'[d] = wants[c]
        /\ \A e \in Event : <<d, e>> \in emptied' <=> <<c, e>> \in emptied
    BY <1>1, EmptiedAsPairs DEF Copy, TypeOK
  <2> QED
    BY <1>1, <2>1 DEF SystemsInv, ObjectInv, Alive, Found, SlotOf
<1> QED
  BY <1>2, <1>3, <1>4, <1>5 DEF SystemsInv

LEMMA MovedFromType ==
  ASSUME TypeOK, NEW c \in Collector
  PROVE  MovedFrom(c) \in [Slot -> Function \cup {None}]
BY DEF MovedFrom, Slot, Function

(* What is left of an object that was moved from reports nothing.          *)
LEMMA MovedFromInv ==
  ASSUME SystemsInv, NEW c \in Collector, NEW d \in Collector, Move(c, d)
  PROVE  ObjectInv(c)'
<1>1. TypeOK /\ c # d /\ Alive(c) /\ ObjectInv(c)
  BY DEF SystemsInv, Move
<1>2. /\ current'[c] = current[c] /\ slot'[c] = MovedFrom(c)
      /\ wants'[c] = [e \in Event |-> None]
      /\ \A e \in Event :
           <<c, e>> \in emptied' <=> <<c, e>> \in emptied \/ wants[c][e] # None
  BY <1>1, EmptiedAsPairs DEF Move, TypeOK
<1>3. Alive(c)' /\ slot'[c]["any"] # None
  BY <1>1, <1>2, NoneAssumption DEF Alive, MovedFrom
<1>4. ASSUME NEW e \in Event
      PROVE  IF <<c, e>> \in emptied' THEN Found(c, e)' \in {None, Empty}
                                     ELSE Found(c, e)' = wants'[c][e]
  <2>1. wants'[c][e] = None
    BY <1>2
  <2>2. CASE e = "created"
    <3>1. Found(c, e) = slot[c]["created"] /\ Found(c, e)' = MovedFrom(c)["created"]
      BY <1>2, <2>2 DEF Found, SlotOf
    <3>2. <<c, e>> \notin emptied' => slot[c]["created"] = None
      BY <1>1, <1>2, <3>1 DEF ObjectInv
    <3> QED
      BY <2>1, <3>1, <3>2 DEF MovedFrom
  <2>3. CASE e = "init"
    <3>1. CASE current[c] = "null"
      BY <1>2, <2>1, <2>3, <3>1 DEF Found
    <3>2. CASE current[c] = "any"
      <4>1. Found(c, e) = slot[c]["any"] /\ Found(c, e)' = Empty
        BY <1>2, <2>3, <3>2 DEF Found, SlotOf, MovedFrom
      <4>2. <<c, e>> \in emptied'
        BY <1>1, <1>2, <4>1 DEF ObjectInv
      <4> QED
        BY <4>1, <4>2
    <3>3. CASE current[c] = "typed"
      BY <1>2, <2>1, <2>3, <3>3 DEF Found, SlotOf, MovedFrom
    <3> QED
      BY <1>1, <3>1, <3>2, <3>3 DEF TypeOK, Alive
  <2> QED
    BY <2>2, <2>3 DEF Event
<1> QED
  BY <1>3, <1>4 DEF ObjectInv

LEMMA MoveInv ==
  ASSUME SystemsInv, NEW c \in Collector, NEW d \in Collector, Move(c, d)
  PROVE  SystemsInv'
<1>1. TypeOK /\ UNCHANGED <<stack, kept>> /\ outcome' = Fine /\ c # d /\ Alive(c)
  BY DEF SystemsInv, Move, Changes, ClientRuns
<1>2. TypeOK'
  <2>1. {<<c, e>> : e \in {x \in Event : wants[c][x] # None}} \subseteq Collector \X Event
    OBVIOUS
  <2>2. EmptiedAs(c, d) \subseteq Collector \X Event
    BY <1>1, EmptiedAsType DEF TypeOK
  <2>3. emptied' \subseteq Collector \X Event
    BY <2>1, <2>2, Zenon DEF Move
  <2>4. slot' \in [Collector -> [Slot -> Function \cup {None}]]
    BY <1>1, MovedFromType DEF TypeOK, Move, Changes
  <2> QED
    <3>1. current' \in [Collector -> {"dead", "null", "typed", "any"}]
      BY <1>1 DEF TypeOK, Move
    <3>2. wants' \in [Collector -> [Event -> Function \cup {None}]] /\ changes' \in Nat
      BY <1>1 DEF TypeOK, Move, Changes
    <3> QED
      BY <1>1, <2>3, <2>4, <3>1, <3>2 DEF TypeOK
<1>3. Referred' /\ FailsOnlyIfMisused'
  BY <1>1, ReferredKept DEF Move, Alive, TypeOK
<1>4. \A x \in Collector \ {c, d} : ObjectInv(x)'
  BY <1>1, EmptiedAsPairs, ObjectKept DEF SystemsInv, Move, TypeOK
<1>5. ObjectInv(d)'
  <2>1. /\ current'[d] = current[c] /\ slot'[d] = slot[c] /\ wants'[d] = wants[c]
        /\ \A e \in Event : <<d, e>> \in emptied' <=> <<c, e>> \in emptied
    BY <1>1, EmptiedAsPairs DEF Move, TypeOK
  <2> QED
    BY <1>1, <2>1 DEF SystemsInv, ObjectInv, Alive, Found, SlotOf
<1> QED
  BY <1>2, <1>3, <1>4, <1>5, MovedFromInv DEF SystemsInv

(* A setter concerns one event of one object.                              *)
LEMMA SetterInv ==
  ASSUME SystemsInv, NEW c \in Collector, NEW s \in Slot, NEW e \in Event,
         NEW f \in Function, NEW p \in {"null", "typed", "any"}, Register(c, s, e, f),
         current' = [current EXCEPT ![c] = p],
         IF e = "created" THEN s = "created" /\ p = current[c] ELSE s = p /\ p # "null"
  PROVE  SystemsInv'
<1>1. TypeOK /\ UNCHANGED <<stack, kept>> /\ outcome' = Fine /\ Alive(c)
  BY DEF SystemsInv, Register, Changes, ClientRuns
<1>2. TypeOK'
  BY <1>1 DEF TypeOK, Register, Changes
<1>3. Referred' /\ FailsOnlyIfMisused'
  BY <1>1, ReferredKept DEF Alive, TypeOK
<1>4. \A d \in Collector \ {c} : ObjectInv(d)'
  BY <1>1, ObjectKept DEF SystemsInv, Register, TypeOK
<1>5. ObjectInv(c)'
  <2>1. /\ current'[c] = p /\ Alive(c)'
        /\ slot'[c] = [slot[c] EXCEPT ![s] = f] /\ slot'[c][s] = f
        /\ \A t \in Slot \ {s} : slot'[c][t] = slot[c][t]
        /\ wants'[c][e] = f /\ \A x \in Event \ {e} : wants'[c][x] = wants[c][x]
        /\ <<c, e>> \notin emptied'
        /\ \A x \in Event \ {e} : <<c, x>> \in emptied' <=> <<c, x>> \in emptied
    BY <1>1 DEF Register, TypeOK, Alive
  <2>2. slot'[c]["any"] # None
    BY <1>1, <2>1, NoneAssumption DEF SystemsInv, ObjectInv, Function, Slot
  <2>3. Found(c, e)' = f
    BY <1>1, <2>1 DEF Found, SlotOf, Event
  <2>4. \A x \in Event \ {e} : Found(c, x)' = Found(c, x)
    BY <1>1, <2>1 DEF Found, SlotOf, Event, Slot
  <2>5. ObjectInv(c)
    BY DEF SystemsInv
  <2> QED
    BY <1>1, <2>1, <2>2, <2>3, <2>4, <2>5 DEF ObjectInv
<1> QED
  BY <1>2, <1>3, <1>4, <1>5 DEF SystemsInv

LEMMA ClearInv == ASSUME SystemsInv, NEW c \in Collector, Clear(c) PROVE SystemsInv'
<1>1. TypeOK /\ UNCHANGED <<stack, kept>> /\ outcome' = Fine /\ Alive(c)
  BY DEF SystemsInv, Clear, Changes, ClientRuns
<1>2. TypeOK'
  <2>1. current' \in [Collector -> {"dead", "null", "typed", "any"}] /\ changes' \in Nat
    BY <1>1 DEF TypeOK, Clear, Changes
  <2>2. slot' \in [Collector -> [Slot -> Function \cup {None}]]
    BY <1>1 DEF TypeOK, Clear
  <2>3. wants' \in [Collector -> [Event -> Function \cup {None}]]
    BY <1>1 DEF TypeOK, Clear
  <2>4. emptied' \subseteq Collector \X Event
    BY <1>1 DEF TypeOK, Clear
  <2> QED
    BY <1>1, <2>1, <2>2, <2>3, <2>4 DEF TypeOK
<1>3. Referred' /\ FailsOnlyIfMisused'
  BY <1>1, ReferredKept DEF Clear, Alive, TypeOK
<1>4. \A d \in Collector \ {c} : ObjectInv(d)'
  <2> SUFFICES ASSUME NEW d \in Collector \ {c} PROVE ObjectInv(d)'
    OBVIOUS
  <2>1. \A e \in Event : <<d, e>> \in emptied' <=> <<d, e>> \in emptied
    BY DEF Clear
  <2> QED
    BY <1>1, <2>1, ObjectKept DEF SystemsInv, Clear, TypeOK
<1>5. ObjectInv(c)'
  <2>1. /\ current'[c] = "null" /\ slot'[c]["created"] = None
        /\ slot'[c]["any"] = slot[c]["any"] /\ wants'[c] = [e \in Event |-> None]
        /\ \A e \in Event : <<c, e>> \notin emptied'
    BY <1>1 DEF Clear, TypeOK, Slot
  <2> QED
    BY <2>1 DEF SystemsInv, ObjectInv, Alive, Found, SlotOf, Event
<1> QED
  BY <1>2, <1>3, <1>4, <1>5 DEF SystemsInv

(* Steps of a call change no object.                                       *)
LEMMA ObjectsUnchanged ==
  ASSUME SystemsInv, UNCHANGED clientVars
  PROVE  /\ current' = current
         /\ \A c \in Collector : ObjectInv(c)' /\ Alive(c)' = Alive(c)
BY DEF SystemsInv, ObjectInv, clientVars, Alive, Found, SlotOf

LEMMA KeepInv == ASSUME SystemsInv, NEW c \in Collector, Keep(c) PROVE SystemsInv'
<1>1. TypeOK /\ stack' = stack /\ outcome' = Fine /\ UNCHANGED clientVars /\ Alive(c)
  BY DEF SystemsInv, Keep, ClientRuns
<1>2. C(c) \in CCollector /\ C(c).of = c
  BY DEF C, CCollector, Event
<1>3. TypeOK'
  BY <1>1, <1>2 DEF TypeOK, Keep, clientVars, CCollector
<1>4. Referred'
  <2>1. \A i \in DOMAIN stack : ~stack[i].lost => Alive(stack[i].of)
    BY DEF SystemsInv, Referred
  <2>2. kept'.of = c /\ current' = current /\ stack' = stack
    BY <1>1, <1>2 DEF Keep, clientVars
  <2> QED
    BY <1>1, <2>1, <2>2 DEF Referred, Alive
<1>5. FailsOnlyIfMisused'
  BY <1>1 DEF FailsOnlyIfMisused, Fine
<1> QED
  BY <1>1, <1>3, <1>4, <1>5, ObjectsUnchanged DEF SystemsInv

LEMMA CallInv ==
  ASSUME SystemsInv, NEW evc \in CCollector, ~evc.lost => Alive(evc.of), Call(evc)
  PROVE  SystemsInv'
<1> DEFINE frame == [of |-> evc.of, events |-> evc.events, lost |-> evc.lost, running |-> FALSE]
<1>1. TypeOK /\ outcome' = Fine /\ UNCHANGED clientVars /\ stack' = Append(stack, frame)
  BY DEF SystemsInv, Call, ClientRuns
<1>2. frame \in Frame /\ frame.of = evc.of /\ frame.lost = evc.lost
  BY DEF Frame, CCollector
<1> HIDE DEF frame
<1>3. stack \in Seq(Frame)
  BY <1>1 DEF TypeOK, Frame
<1>4. /\ stack' \in Seq(Frame) /\ DOMAIN stack' = 1 .. Len(stack) + 1
      /\ DOMAIN stack = 1 .. Len(stack) /\ Len(stack) \in Nat
      /\ \A i \in 1 .. Len(stack) : stack'[i] = stack[i]
      /\ stack'[Len(stack) + 1] = frame
  BY <1>1, <1>2, <1>3, AppendProperties, LenProperties
<1>5. TypeOK'
  BY <1>1, <1>4 DEF TypeOK, Frame, Call, clientVars
<1>6. Referred'
  <2>1. ASSUME NEW i \in DOMAIN stack', ~stack'[i].lost
        PROVE  current'[stack'[i].of] # "dead"
    <3>1. CASE i \in DOMAIN stack
      <4>1. stack'[i] = stack[i] /\ stack[i].of \in Collector
        BY <1>1, <1>4, <3>1, StackFrames DEF Frame
      <4> QED
        BY <1>1, <2>1, <3>1, <4>1, ObjectsUnchanged DEF SystemsInv, Referred, Alive
    <3>2. CASE i = Len(stack) + 1
      BY <1>1, <1>2, <1>4, <2>1, <3>2, ObjectsUnchanged DEF Alive
    <3> QED
      BY <1>4, <3>1, <3>2
  <2>2. kept' = kept /\ current' = current /\ (kept # None /\ ~kept.lost => Alive(kept.of))
    BY <1>1, ObjectsUnchanged DEF SystemsInv, Referred, Call
  <2> QED
    BY <2>1, <2>2 DEF Referred, Alive
<1>7. FailsOnlyIfMisused'
  BY <1>1 DEF FailsOnlyIfMisused, Fine
<1> QED
  BY <1>1, <1>5, <1>6, <1>7, ObjectsUnchanged DEF SystemsInv

(* A step that changes what runs in the innermost call, if anything.       *)
LEMMA TopChanged ==
  ASSUME SystemsInv, stack # <<>>, UNCHANGED clientVars, kept' = kept,
         NEW running \in BOOLEAN, SetTop([Top EXCEPT !.running = running]),
         outcome' = Fine
  PROVE  SystemsInv'
<1> DEFINE frame == [Top EXCEPT !.running = running]
<1>1. TypeOK /\ stack \in Seq(Frame) /\ stack' = [stack EXCEPT ![Len(stack)] = frame]
  BY DEF SystemsInv, TypeOK, Frame, SetTop
<1>2. Len(stack) \in DOMAIN stack /\ DOMAIN stack = 1 .. Len(stack) /\ Top \in Frame
  BY <1>1, StackFrames
<1>3. frame \in Frame /\ frame.of = Top.of /\ frame.lost = Top.lost
  BY <1>2 DEF Frame
<1> HIDE DEF frame
<1>4. /\ stack' \in Seq(Frame) /\ DOMAIN stack' = DOMAIN stack
      /\ \A i \in DOMAIN stack : stack'[i] = IF i = Len(stack) THEN frame ELSE stack[i]
  <2>1. stack' \in Seq(Frame)
    BY <1>1, <1>2, <1>3, ExceptSeq
  <2> QED
    BY <1>1, <2>1
<1>5. TypeOK'
  BY <1>1, <1>4 DEF TypeOK, Frame, clientVars
<1>6. Referred'
  <2>1. ASSUME NEW i \in DOMAIN stack, ~stack'[i].lost
        PROVE  current'[stack'[i].of] # "dead"
    <3>1. stack'[i].lost = stack[i].lost /\ stack'[i].of = stack[i].of
      BY <1>3, <1>4 DEF Top
    <3>2. stack[i].of \in Collector /\ Alive(stack[i].of)
      BY <1>1, <2>1, <3>1, StackFrames DEF Frame, SystemsInv, Referred
    <3> QED
      BY <3>1, <3>2, ObjectsUnchanged DEF Alive
  <2>2. current' = current /\ (kept # None /\ ~kept.lost => Alive(kept.of))
    BY ObjectsUnchanged DEF SystemsInv, Referred
  <2> QED
    BY <1>4, <2>1, <2>2 DEF Referred, Alive
<1>7. FailsOnlyIfMisused'
  BY DEF FailsOnlyIfMisused, Fine
<1> QED
  BY <1>5, <1>6, <1>7, ObjectsUnchanged DEF SystemsInv

LEMMA ReportInv == ASSUME SystemsInv, NEW e \in Event, Report(e) PROVE SystemsInv'
<1> DEFINE c == Top.of
           f == Found(c, e)
<1>1. /\ TypeOK /\ outcome = Fine /\ stack # <<>> /\ UNCHANGED clientVars
      /\ kept' = kept /\ e \in Top.events
  BY DEF SystemsInv, Report
<1>2. Top \in Frame /\ c \in Collector /\ Len(stack) \in DOMAIN stack
  BY <1>1, StackFrames DEF Frame
<1>3. CASE ~Alive(c)
  <2>1. outcome' = [what |-> "undefined", event |-> e] /\ stack' = stack /\ Top.lost
    BY <1>1, <1>2, <1>3 DEF Report, SystemsInv, Referred, Top
  <2>2. TypeOK'
    BY <1>1, <2>1 DEF TypeOK, clientVars
  <2>3. FailsOnlyIfMisused'
    BY <2>1 DEF FailsOnlyIfMisused, Top
  <2>4. Referred'
    BY <1>1, <2>1 DEF SystemsInv, Referred, Alive, clientVars
  <2> QED
    BY <1>1, <2>2, <2>3, <2>4, ObjectsUnchanged DEF SystemsInv
<1>4. CASE Alive(c) /\ f = Empty
  <2>1. outcome' = [what |-> "throws", event |-> e] /\ stack' = stack
    BY <1>1, <1>4 DEF Report
  <2>2. wants[c][e] = Empty \/ <<c, e>> \in emptied
    BY <1>2, <1>4 DEF SystemsInv, ObjectInv
  <2>3. FailsOnlyIfMisused'
    BY <1>1, <2>1, <2>2 DEF FailsOnlyIfMisused, Top, clientVars
  <2>4. TypeOK'
    BY <1>1, <2>1 DEF TypeOK, clientVars
  <2>5. Referred'
    BY <1>1, <2>1 DEF SystemsInv, Referred, Alive, clientVars
  <2> QED
    BY <1>1, <2>3, <2>4, <2>5, ObjectsUnchanged DEF SystemsInv
<1>5. CASE Alive(c) /\ f # Empty
  <2> DEFINE running == (f # None)
  <2>1. running \in BOOLEAN
    OBVIOUS
  <2>2. SetTop([Top EXCEPT !.running = running]) /\ outcome' = Fine
    BY <1>1, <1>5 DEF Report
  <2> HIDE DEF running
  <2> QED
    BY <1>1, <2>1, <2>2, TopChanged
<1> QED
  BY <1>3, <1>4, <1>5

LEMMA ReturnInv == ASSUME SystemsInv, Return PROVE SystemsInv'
<1> DEFINE n == Len(stack) - 1
<1>1. /\ TypeOK /\ outcome' = Fine /\ stack # <<>> /\ UNCHANGED <<clientVars, kept>>
      /\ stack' = SubSeq(stack, 1, n) /\ stack \in Seq(Frame)
  BY DEF SystemsInv, Return, TypeOK, Frame
<1>2. n \in Nat /\ \A i \in 1 .. n : i \in DOMAIN stack /\ stack[i] \in Frame
  BY <1>1, StackFrames
<1>3. stack' \in Seq(Frame) /\ DOMAIN stack' = 1 .. n /\ \A i \in 1 .. n : stack'[i] = stack[i]
  <2> HIDE DEF n
  <2>1. /\ SubSeq(stack, 1, n) \in Seq(Frame)
        /\ Len(SubSeq(stack, 1, n)) = IF 1 <= n THEN n - 1 + 1 ELSE 0
        /\ \A i \in 1 .. n - 1 + 1 : SubSeq(stack, 1, n)[i] = stack[1 + i - 1]
    BY <1>1, <1>2, SubSeqProperties
  <2> QED
    BY <1>1, <1>2, <2>1, LenProperties
<1>4. TypeOK'
  BY <1>1, <1>3 DEF TypeOK, Frame, clientVars
<1>5. Referred'
  BY <1>1, <1>2, <1>3 DEF SystemsInv, Referred, Alive, clientVars
<1>6. FailsOnlyIfMisused'
  BY <1>1 DEF FailsOnlyIfMisused, Fine
<1> QED
  BY <1>1, <1>4, <1>5, <1>6, ObjectsUnchanged DEF SystemsInv

LEMMA NextSystemsInv == SystemsInv /\ [Next]_vars => SystemsInv'
<1> SUFFICES ASSUME SystemsInv, [Next]_vars PROVE SystemsInv'
  OBVIOUS
<1>1. ASSUME NEW c \in Collector, Create(c) \/ Destroy(c) \/ Clear(c) \/ Keep(c)
      PROVE  SystemsInv'
  BY <1>1, CreateInv, DestroyInv, ClearInv, KeepInv
<1>2. ASSUME NEW c \in Collector, Execute(c) PROVE SystemsInv'
  <2>1. C(c) \in CCollector /\ C(c).of = c /\ Alive(c) /\ Call(C(c))
    BY <1>2 DEF C, Event, Execute, CCollector
  <2> QED
    BY <2>1, CallInv
<1>3. ASSUME NEW c \in Collector, NEW d \in Collector, Copy(c, d) \/ Move(c, d)
      PROVE  SystemsInv'
  BY <1>3, CopyInv, MoveInv
<1>4. ASSUME NEW c \in Collector, NEW f \in Function, SetTyped(c, f) PROVE SystemsInv'
  BY <1>4, SetterInv DEF SetTyped, Slot, Event
<1>5. ASSUME NEW c \in Collector, NEW f \in Function, SetAny(c, f) PROVE SystemsInv'
  BY <1>5, SetterInv DEF SetAny, Slot, Event
<1>6. ASSUME NEW c \in Collector, NEW f \in Function, SetCreated(c, f) PROVE SystemsInv'
  <2>1. /\ current \in [Collector -> {"dead", "null", "typed", "any"}] /\ Alive(c)
        /\ Register(c, "created", "created", f) /\ current' = current
    BY <1>6 DEF SystemsInv, TypeOK, SetCreated, Register
  <2>2. current[c] \in {"null", "typed", "any"} /\ current' = [current EXCEPT ![c] = current[c]]
    BY <2>1 DEF Alive
  <2> QED
    BY <2>1, <2>2, SetterInv DEF Slot, Event
<1>7. CASE ExecuteKept
  BY <1>7, CallInv DEF ExecuteKept, SystemsInv, TypeOK, Referred, CCollector
<1>8. CASE \E e \in Event : Report(e)
  BY <1>8, ReportInv
<1>9. CASE CallbackReturns
  BY <1>9, TopChanged DEF CallbackReturns, ClientRuns
<1>10. CASE Return
  BY <1>10, ReturnInv
<1>11. CASE UNCHANGED vars
  <2>1. UNCHANGED <<clientVars, kept, stack, outcome>>
    BY <1>11 DEF vars
  <2>2. TypeOK' /\ Referred' /\ FailsOnlyIfMisused'
    BY <2>1 DEF SystemsInv, TypeOK, Referred, FailsOnlyIfMisused, Alive, Top, clientVars
  <2> QED
    BY <2>1, <2>2, ObjectsUnchanged DEF SystemsInv
<1> QED
  BY <1>1, <1>2, <1>3, <1>4, <1>5, <1>6, <1>7, <1>8, <1>9, <1>10, <1>11 DEF Next

(* Every reachable state of the objects and the calls satisfies the        *)
(* invariant.                                                              *)
THEOREM SystemsInvariant == Spec => []SystemsInv
BY InitSystemsInv, NextSystemsInv, PTL DEF Spec

(* The members of the collectors and the calls keep their types.           *)
THEOREM SystemsTypeCorrect == Spec => []TypeOK
<1>1. SystemsInv => TypeOK
  BY DEF SystemsInv
<1> QED
  BY <1>1, SystemsInvariant, PTL

(* An object runs what was registered last, wherever its callbacks came    *)
(* from, and nothing once they have been moved away.                       *)
THEOREM SystemsHearsLatest == Spec => []HearsLatest
<1>1. SystemsInv => HearsLatest
  BY DEF SystemsInv, ObjectInv, HearsLatest
<1> QED
  BY <1>1, SystemsInvariant, PTL

(* An event throws only if the function registered last for that event is  *)
(* empty or has been moved away, and reaches no object only if the one     *)
(* that c() was called on has been destroyed since: the trampolines of     *)
(* execution_events_collector and registry::execute_systems.               *)
THEOREM SystemsFailsOnlyIfMisused == Spec => []FailsOnlyIfMisused
<1>1. SystemsInv => FailsOnlyIfMisused
  BY DEF SystemsInv
<1> QED
  BY <1>1, SystemsInvariant, PTL
=============================================================================

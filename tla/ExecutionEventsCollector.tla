---------------------- MODULE ExecutionEventsCollector ----------------------
(***************************************************************************)
(* ecsact::core::execution_events_collector (ecsact/runtime/core.hh): the  *)
(* callbacks a client registers for the events of a system execution, the  *)
(* snapshot c() gives the runtime, and what a trampoline called through    *)
(* such a snapshot does -- later, when the collector may have changed, and *)
(* when what it calls may change the collector again: "Invocation happens  *)
(* in the calling thread" (common.h), so a callback runs in the middle of  *)
(* the execution and may call any member of the collector, or execute      *)
(* systems with it once more.                                              *)
(*                                                                         *)
(* A callback is identified with the number of the call that registered    *)
(* it; 0 is no callback.  `log' is history: the calls made so far.  A      *)
(* callback destroyed while it runs stays on the stack: what it does with  *)
(* its captures from then on is undefined and left to the client, that it  *)
(* goes on calling and returns is what the model lets it do.               *)
(***************************************************************************)
EXTENDS Naturals, Sequences

CONSTANTS
  Kind,         \* component events: "init", "update", "remove"
  EntityEvent,  \* entity events: "created", "destroyed"
  ComponentId,
  Snapshot,     \* variables of type ecsact_execution_events_collector
  MaxCalls,     \* bound on the calls that change the collector
  MaxDepth      \* bound on callbacks running inside callbacks

ASSUME KindAssumption == Kind \cap EntityEvent = {}
ASSUME BoundsAssumption == MaxCalls \in Nat /\ MaxDepth \in Nat

(* Where a callback is kept: _init_cb[C::id], _any_init_component_cb or    *)
(* _entity_created_cb, and their siblings.                                 *)
TypedSlot == {"typed"} \X Kind \X ComponentId
AnySlot == {"any"} \X Kind
EntitySlot == {"entity"} \X EntityEvent
Slot == TypedSlot \cup AnySlot \cup EntitySlot

VARIABLES
  current,   \* current[k]: which member _current_init_callback points to
  callback,  \* callback[s]: the callback in slot s
  snapshot,  \* snapshot[p]: the events whose callback is not null in p
  stack,     \* the callbacks that are running, the innermost last
  log        \* history: the slots set and the clears

vars == <<current, callback, snapshot, stack, log>>

(* Fault: the pointers have no initializers.                               *)
InitNoPointers ==
  /\ current \in [Kind -> {"null", "indeterminate"}]
  /\ callback = [s \in Slot |-> 0]
  /\ snapshot = [p \in Snapshot |-> {}]
  /\ stack = <<>>
  /\ log = <<>>

Init ==
  /\ current = [k \in Kind |-> "null"]
  /\ callback = [s \in Slot |-> 0]
  /\ snapshot = [p \in Snapshot |-> {}]
  /\ stack = <<>>
  /\ log = <<>>

Called(what) ==
  /\ Len(log) < MaxCalls
  /\ log' = Append(log, what)
  /\ UNCHANGED <<snapshot, stack>>

Store(s) == callback' = [callback EXCEPT ![s] = Len(log) + 1]

(* Fault: the entry of another component is kept.                          *)
SetTypedIfAbsent(k, c) ==
  /\ Called(<<"typed", k, c>>)
  /\ current' = [current EXCEPT ![k] = "typed"]
  /\ IF callback[<<"typed", k, c>>] = 0 THEN Store(<<"typed", k, c>>)
                                        ELSE UNCHANGED callback

(* set_init_callback<C>, set_update_callback<C>, set_remove_callback<C>    *)
SetTyped(k, c) ==
  /\ Called(<<"typed", k, c>>)
  /\ current' = [current EXCEPT ![k] = "typed"]
  /\ Store(<<"typed", k, c>>)

(* Fault: the typed callbacks are erased as well.                          *)
SetAnyErasesTyped(k) ==
  /\ Called(<<"any", k>>)
  /\ current' = [current EXCEPT ![k] = "any"]
  /\ callback' = [s \in Slot |-> IF s = <<"any", k>> THEN Len(log) + 1
                                 ELSE IF s \in TypedSlot /\ s[2] = k THEN 0
                                 ELSE callback[s]]

(* set_any_init_callback, set_any_update_callback, set_any_remove_callback *)
(* The typed callbacks stay in their map.                                  *)
SetAny(k) ==
  /\ Called(<<"any", k>>)
  /\ current' = [current EXCEPT ![k] = "any"]
  /\ Store(<<"any", k>>)

(* set_entity_created_callback, set_entity_destroyed_callback              *)
SetEntity(e) ==
  /\ Called(<<"entity", e>>)
  /\ Store(<<"entity", e>>)
  /\ UNCHANGED current

(* Fault: the callbacks for any component go too, one pointer stays.       *)
ClearForgetsRemove ==
  /\ Called(<<"clear">>)
  /\ current' = [k \in Kind |-> IF k = "remove" THEN current[k] ELSE "null"]
  /\ callback' = [s \in Slot |-> 0]

(* clear(): everything but the callbacks for any component.                *)
Clear ==
  /\ Called(<<"clear">>)
  /\ current' = [k \in Kind |-> "null"]
  /\ callback' = [s \in Slot |-> IF s \in AnySlot THEN callback[s] ELSE 0]

(* Fault: the entity callbacks are forgotten.                              *)
EventsOfKindsOnly == {k \in Kind : current[k] # "null"}

(* The callbacks c() does not leave null.                                  *)
Events ==
  {k \in Kind : current[k] # "null"}
    \cup {e \in EntityEvent : callback[<<"entity", e>>] # 0}

(* c(): taken by every execute_systems and flush_events that is given the  *)
(* collector, or by the client.                                            *)
C(p) ==
  /\ snapshot' = [snapshot EXCEPT ![p] = Events]
  /\ UNCHANGED <<current, callback, stack, log>>

(* Fault: entity_destroyed is forgotten.                                   *)
EmptyForgetsEntities == \A k \in Kind : current[k] = "null"

(* empty()                                                                 *)
Empty ==
  /\ \A k \in Kind : current[k] = "null"
  /\ \A e \in EntityEvent : callback[<<"entity", e>>] = 0

(* The slot the trampoline for event k of component c looks into.          *)
ComponentSlot(k, c) ==
  IF current[k] = "any" THEN <<"any", k>> ELSE <<"typed", k, c>>

(* A trampoline calls what its slot holds when it is called, not what it   *)
(* held when the snapshot was taken.                                       *)
Run(s) ==
  /\ callback[s] # 0
  /\ Len(stack) < MaxDepth
  /\ stack' = Append(stack, [slot |-> s, callback |-> callback[s]])
  /\ UNCHANGED <<current, callback, snapshot, log>>

(* init_callback and typed_init_callback or any_init_callback, ...         *)
ComponentEvent(p, k, c) ==
  /\ k \in snapshot[p]
  /\ current[k] # "null"
  /\ Run(ComponentSlot(k, c))

(* entity_created_callback, entity_destroyed_callback                      *)
EntityCallback(p, e) ==
  /\ e \in snapshot[p]
  /\ Run(<<"entity", e>>)

(* The innermost callback returns.                                         *)
Return ==
  /\ stack # <<>>
  /\ stack' = SubSeq(stack, 1, Len(stack) - 1)
  /\ UNCHANGED <<current, callback, snapshot, log>>

Next ==
  \/ \E k \in Kind, c \in ComponentId : SetTyped(k, c)
  \/ \E k \in Kind : SetAny(k)
  \/ \E e \in EntityEvent : SetEntity(e)
  \/ Clear
  \/ \E p \in Snapshot : C(p)
  \/ \E p \in Snapshot, k \in Kind, c \in ComponentId : ComponentEvent(p, k, c)
  \/ \E p \in Snapshot, e \in EntityEvent : EntityCallback(p, e)
  \/ Return

Spec == Init /\ [][Next]_vars

-----------------------------------------------------------------------------
TypeOK ==
  /\ current \in [Kind -> {"null", "typed", "any"}]
  /\ callback \in [Slot -> Nat]
  /\ snapshot \in [Snapshot -> SUBSET (Kind \cup EntityEvent)]
  /\ stack \in Seq([slot : Slot, callback : Nat])
  /\ log \in Seq(Slot \cup {<<"clear">>})

(* What destroys the callback that was stored in slot s by call n: a later *)
(* registration in s, or clear() if s is not one for any component.        *)
Destroyed(s, n) ==
  \E j \in n + 1 .. Len(log) : log[j] = s \/ (log[j] = <<"clear">> /\ s \notin AnySlot)

(* Nothing keeps a callback from replacing itself or clearing the          *)
(* collector, which destroys the std::function whose operator() is still   *)
(* on the stack.  That is all that destroys it: a callback that does not   *)
(* register in its own slot and, unless it is one for any component, does  *)
(* not call clear() lives until it returns, whatever else it and the       *)
(* callbacks nested in it register and clear, set_any_... of its own kind  *)
(* included.                                                               *)
RunningDestroyedByOwnSlot ==
  \A i \in DOMAIN stack :
    LET s == stack[i].slot
        n == stack[i].callback
    IN  callback[s] # n <=> Destroyed(s, n)

(* A trampoline that finds its pointer set for any component finds a       *)
(* callback (calling an empty std::function throws), even after clear()    *)
(* and a stale snapshot.                                                   *)
AnyCallbackPresent == \A k \in Kind : current[k] = "any" => callback[<<"any", k>>] # 0

(* The last call of the log in slots since the last clear(); 0 if none.    *)
LatestIn(slots) ==
  LET since == {i \in DOMAIN log : /\ log[i] \in slots
                                   /\ \A j \in i .. Len(log) : log[j] # <<"clear">>}
  IN  IF since = {} THEN 0 ELSE CHOOSE i \in since : \A j \in since : j <= i

SlotsOf(k) == {s \in TypedSlot \cup AnySlot : s[2] = k}

(* Whatever was called before, an event runs the callback registered last  *)
(* for it since the last clear(), or none: if the last registration for    *)
(* its kind was one for any component, that one; else the last one for its *)
(* component.  A cleared callback never runs, through no snapshot.         *)
LatestRegistrationRuns ==
  /\ \A k \in Kind, c \in ComponentId :
       LET last == LatestIn(SlotsOf(k))
       IN  IF last = 0 THEN current[k] = "null"
           ELSE callback[ComponentSlot(k, c)] =
                  IF log[last] = <<"any", k>> THEN last ELSE LatestIn({<<"typed", k, c>>})
  /\ \A e \in EntityEvent : callback[<<"entity", e>>] = LatestIn({<<"entity", e>>})

(* Between two calls that change the collector, a snapshot has a callback  *)
(* for every event somebody registered for since the last clear(), and for *)
(* no other; and empty() holds exactly if there is none.                   *)
SnapshotComplete ==
  [][\A p \in Snapshot : C(p) =>
       /\ \A k \in Kind : LatestIn(SlotsOf(k)) # 0 <=> k \in snapshot'[p]
       /\ \A e \in EntityEvent : LatestIn({<<"entity", e>>}) # 0 <=> e \in snapshot'[p]
       /\ Empty <=> snapshot'[p] = {}]_vars

(* core.hh says of set_any_init_callback: "Overwrites existing init        *)
(* callbacks, including the typed ones".  So no event should find a typed  *)
(* callback registered before the last one for any component.              *)
AnyOverwritesTyped ==
  \A k \in Kind, c \in ComponentId :
    LET found == callback[<<"typed", k, c>>]
    IN  current[k] = "typed" /\ found # 0 =>
          \A j \in found .. Len(log) : log[j] # <<"any", k>>
=============================================================================

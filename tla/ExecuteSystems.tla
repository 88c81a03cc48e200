--------------------------- MODULE ExecuteSystems ---------------------------
(***************************************************************************)
(* registry::execute_systems with an events collector (ecsact/runtime/     *)
(* core.hh), and what the address c() puts in a C collector refers to: the *)
(* execution_events_collector objects of a program are created, copied,    *)
(* moved from and destroyed, while a C collector may be kept.  Here a      *)
(* collector has callbacks for one component and one entity event; which   *)
(* callback an event of several components finds is the subject of         *)
(* ExecutionEventsCollector.                                               *)
(*                                                                         *)
(* A std::function that is empty can be registered, and is what moving     *)
(* from a std::function leaves behind; calling it throws.                  *)
(***************************************************************************)
EXTENDS Naturals, Sequences

CONSTANTS
  Collector,  \* execution_events_collector objects
  Callback,   \* callbacks a client registers
  Empty,      \* an empty std::function
  None,       \* no std::function, or no C collector
  MaxDepth,   \* bound on calls of execute_systems running inside callbacks
  MaxChanges  \* bound on the calls that change collectors

ASSUME NoneAssumption == None # Empty /\ None \notin Callback /\ Empty \notin Callback

Event == {"init", "created"}

(* _init_cb[C::id], _any_init_component_cb and _entity_created_cb          *)
Slot == {"typed", "any", "created"}

Function == Callback \cup {Empty}

VARIABLES
  current,  \* current[c]: what _current_init_callback points to: "null",
            \* "typed" or "any"; "dead" if there is no object c
  slot,     \* slot[c][s]: what object c has in slot s
  kept,     \* an ecsact_execution_events_collector the client keeps
  stack,    \* the calls of execute_systems, the innermost last
  outcome,  \* "fine", "throws" (bad_function_call) or "undefined", and
            \* the event whose report came to that
  wants,    \* history: wants[c][e]: what was registered last for event e
  emptied,  \* history: the objects and events whose callback was moved away
  changes   \* the number of calls that have changed collectors

clientVars == <<current, slot, wants, emptied, changes>>
vars == <<clientVars, kept, stack, outcome>>

(* What a new object has: no entry, an empty function, an empty optional.  *)
Fresh == [typed |-> None, any |-> Empty, created |-> None]

Alive(c) == current[c] # "dead"

Fine == [what |-> "fine", event |-> None]

Init ==
  /\ current = [c \in Collector |-> "dead"]
  /\ slot = [c \in Collector |-> Fresh]
  /\ kept = None
  /\ stack = <<>>
  /\ outcome = Fine
  /\ wants = [c \in Collector |-> [e \in Event |-> None]]
  /\ emptied = {}
  /\ changes = 0

Top == stack[Len(stack)]
SetTop(call) == stack' = [stack EXCEPT ![Len(stack)] = call]

(* The client runs in its own code or in the innermost callback.  Nothing  *)
(* keeps a callback from changing, moving from or destroying the collector *)
(* whose events are being reported, and with it its own std::function;     *)
(* what it then does with its captures is left to the client.              *)
ClientRuns ==
  /\ outcome = Fine
  /\ stack # <<>> => Top.running

Changes ==
  /\ ClientRuns
  /\ changes < MaxChanges
  /\ changes' = changes + 1

(* History: no C collector made so far refers to object c any more.        *)
Lose(c) ==
  /\ kept' = IF kept # None /\ kept.of = c THEN [kept EXCEPT !.lost = TRUE] ELSE kept
  /\ stack' = [i \in DOMAIN stack |->
                 IF stack[i].of = c THEN [stack[i] EXCEPT !.lost = TRUE] ELSE stack[i]]

-----------------------------------------------------------------------------
(* The objects.  What the implicitly defined members do to each member of  *)
(* the class.                                                              *)

(* Fault: the pointer has no initializer.                                  *)
CreateUninitialized(c) ==
  /\ Changes
  /\ ~Alive(c)
  /\ current' = [current EXCEPT ![c] = "indeterminate"]
  /\ UNCHANGED <<slot, kept, stack, outcome, wants, emptied>>

(* execution_events_collector()                                            *)
Create(c) ==
  /\ Changes
  /\ ~Alive(c)
  /\ current' = [current EXCEPT ![c] = "null"]
  /\ UNCHANGED <<slot, kept, stack, outcome, wants, emptied>>

(* ~execution_events_collector()                                           *)
Destroy(c) ==
  /\ Changes
  /\ Alive(c)
  /\ current' = [current EXCEPT ![c] = "dead"]
  /\ slot' = [slot EXCEPT ![c] = Fresh]
  /\ wants' = [wants EXCEPT ![c] = [e \in Event |-> None]]
  /\ emptied' = {m \in emptied : m[1] # c}
  /\ Lose(c)
  /\ UNCHANGED outcome

(* What was known of c's events is now known of d's.                       *)
EmptiedAs(c, d) == {m \in emptied : m[1] # d} \cup {<<d, e>> : e \in {x \in Event : <<c, x>> \in emptied}}

(* d(c), d = c                                                             *)
Copy(c, d) ==
  /\ Changes
  /\ c # d /\ Alive(c)
  /\ current' = [current EXCEPT ![d] = current[c]]
  /\ slot' = [slot EXCEPT ![d] = slot[c]]
  /\ wants' = [wants EXCEPT ![d] = wants[c]]
  /\ emptied' = EmptiedAs(c, d)
  /\ UNCHANGED <<kept, stack, outcome>>

(* Fault: a move that copies what the maps hold.                           *)
MovedFromKeepsTyped(c) == [slot[c] EXCEPT !["any"] = Empty]

(* A map that was moved from has no entries, an optional still has its     *)
(* function, and functions are empty.                                      *)
MovedFrom(c) ==
  [typed |-> None,
   any |-> Empty,
   created |-> IF slot[c]["created"] = None THEN None ELSE Empty]

(* d(std::move(c)), d = std::move(c): the pointer of c stays.              *)
Move(c, d) ==
  /\ Changes
  /\ c # d /\ Alive(c)
  /\ current' = [current EXCEPT ![d] = current[c]]
  /\ slot' = [slot EXCEPT ![d] = slot[c], ![c] = MovedFrom(c)]
  /\ wants' = [wants EXCEPT ![d] = wants[c], ![c] = [e \in Event |-> None]]
  /\ emptied' = EmptiedAs(c, d) \cup {<<c, e>> : e \in {x \in Event : wants[c][x] # None}}
  /\ UNCHANGED <<kept, stack, outcome>>

-----------------------------------------------------------------------------
(* The members of execution_events_collector.                              *)

Register(c, s, e, f) ==
  /\ Changes
  /\ Alive(c)
  /\ slot' = [slot EXCEPT ![c][s] = f]
  /\ wants' = [wants EXCEPT ![c][e] = f]
  /\ emptied' = emptied \ {<<c, e>>}
  /\ UNCHANGED <<kept, stack, outcome>>

(* set_init_callback: an empty f is wrapped in a lambda that is not empty, *)
(* but throws when it calls f.                                             *)
SetTyped(c, f) ==
  /\ Register(c, "typed", "init", f)
  /\ current' = [current EXCEPT ![c] = "typed"]

(* set_any_init_callback: an empty f is registered, since the test for it  *)
(* is compiled only for types that convert to bool, and std::function does *)
(* so only explicitly.                                                     *)
SetAny(c, f) ==
  /\ Register(c, "any", "init", f)
  /\ current' = [current EXCEPT ![c] = "any"]

(* set_entity_created_callback                                             *)
SetCreated(c, f) ==
  /\ Register(c, "created", "created", f)
  /\ UNCHANGED current

(* clear()                                                                 *)
Clear(c) ==
  /\ Changes
  /\ Alive(c)
  /\ current' = [current EXCEPT ![c] = "null"]
  /\ slot' = [slot EXCEPT ![c]["typed"] = None, ![c]["created"] = None]
  /\ wants' = [wants EXCEPT ![c] = [e \in Event |-> None]]
  /\ emptied' = {m \in emptied : m[1] # c}
  /\ UNCHANGED <<kept, stack, outcome>>

(* c(): the events with a callback, and the address of the object.         *)
C(c) ==
  [of |-> c,
   events |-> (IF current[c] # "null" THEN {"init"} ELSE {})
                \cup (IF slot[c]["created"] # None THEN {"created"} ELSE {}),
   lost |-> FALSE]

Keep(c) ==
  /\ ClientRuns
  /\ Alive(c)
  /\ kept' = C(c)
  /\ UNCHANGED <<clientVars, stack, outcome>>

-----------------------------------------------------------------------------
(* execute_systems                                                         *)

Call(evc) ==
  /\ ClientRuns
  /\ Len(stack) < MaxDepth
  /\ stack' = Append(stack, [of |-> evc.of, events |-> evc.events, lost |-> evc.lost, running |-> FALSE])
  /\ UNCHANGED <<clientVars, kept, outcome>>

(* Fault: the C collector is that of a copy of the collector that is gone. *)
ExecuteOfCopy(c) ==
  /\ Alive(c)
  /\ \E d \in Collector : ~Alive(d) /\ Call([C(c) EXCEPT !.of = d])

(* execute_systems(count, evc) and execute_systems(options, evc): the C    *)
(* collector is a local variable of the call, which the events outlive not.*)
Execute(c) == Alive(c) /\ Call(C(c))

(* execute_systems(count, c_evc), or the C functions themselves            *)
ExecuteKept == kept # None /\ Call(kept)

(* Fault: the pointer to the member for one component goes unused.         *)
SlotOfAny(c, e) == IF e = "created" THEN "created" ELSE "any"

(* The slot that the trampoline of event e looks into.                     *)
SlotOf(c, e) ==
  IF e = "created" THEN "created" ELSE IF current[c] = "any" THEN "any" ELSE "typed"

(* What an event finds in it: None also if there is no pointer.            *)
Found(c, e) ==
  IF e = "init" /\ current[c] = "null" THEN None ELSE slot[c][SlotOf(c, e)]

(* An event is reported: "Invoked after system executions are finished     *)
(* [...] in the calling thread".                                           *)
Report(e) ==
  /\ outcome = Fine /\ stack # <<>> /\ ~Top.running
  /\ e \in Top.events
  /\ LET c == Top.of
         f == Found(c, e)
     IN  IF ~Alive(c) THEN outcome' = [what |-> "undefined", event |-> e] /\ UNCHANGED stack
         ELSE IF f = Empty THEN outcome' = [what |-> "throws", event |-> e] /\ UNCHANGED stack
         ELSE /\ SetTop([Top EXCEPT !.running = (f # None)])
              /\ UNCHANGED outcome
  /\ UNCHANGED <<clientVars, kept>>

(* The innermost callback returns.                                         *)
CallbackReturns ==
  /\ ClientRuns /\ stack # <<>>
  /\ SetTop([Top EXCEPT !.running = FALSE])
  /\ UNCHANGED <<clientVars, kept, outcome>>

(* execute_systems returns.                                                *)
Return ==
  /\ outcome = Fine /\ stack # <<>> /\ ~Top.running
  /\ stack' = SubSeq(stack, 1, Len(stack) - 1)
  /\ UNCHANGED <<clientVars, kept, outcome>>

Next ==
  \/ \E c \in Collector :
       \/ Create(c) \/ Destroy(c) \/ Clear(c) \/ Keep(c) \/ Execute(c)
       \/ \E d \in Collector : Copy(c, d) \/ Move(c, d)
       \/ \E f \in Function : SetTyped(c, f) \/ SetAny(c, f) \/ SetCreated(c, f)
  \/ ExecuteKept
  \/ \E e \in Event : Report(e)
  \/ CallbackReturns
  \/ Return

Spec == Init /\ [][Next]_vars

-----------------------------------------------------------------------------
TypeOK ==
  /\ current \in [Collector -> {"dead", "null", "typed", "any"}]
  /\ slot \in [Collector -> [Slot -> Function \cup {None}]]
  /\ kept = None \/ kept \in [of : Collector, events : SUBSET Event, lost : BOOLEAN]
  /\ stack \in Seq([of : Collector, events : SUBSET Event, lost : BOOLEAN, running : BOOLEAN])
  /\ outcome = Fine \/ (outcome \in [what : {"throws", "undefined"}, event : Event] /\ stack # <<>>)
  /\ wants \in [Collector -> [Event -> Function \cup {None}]]
  /\ emptied \subseteq Collector \X Event
  /\ changes \in Nat

(* However its callbacks came to it, by registration, copy or move, an     *)
(* object runs what was registered last, and one whose callbacks have been *)
(* moved away runs nothing: no event reaches a callback through two        *)
(* objects after a move, or one that was cleared.                          *)
HearsLatest ==
  \A c \in Collector, e \in Event :
    Alive(c) => IF <<c, e>> \in emptied THEN Found(c, e) \in {None, Empty}
                                        ELSE Found(c, e) = wants[c][e]

(* An event throws bad_function_call only if what the client registered    *)
(* last for that event is an empty function, or its callback was moved     *)
(* away; and it reaches no object only if the one that c() was called on   *)
(* has been destroyed since: for a collector given to execute_systems, by  *)
(* a callback during that call, for a kept C collector, at any time.       *)
FailsOnlyIfMisused ==
  /\ outcome.what = "throws" =>
       wants[Top.of][outcome.event] = Empty \/ <<Top.of, outcome.event>> \in emptied
  /\ outcome.what = "undefined" => Top.lost
=============================================================================

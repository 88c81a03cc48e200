------------------------ MODULE AsyncEventsCollector ------------------------
(***************************************************************************)
(* ecsact::async::async_events_collector (ecsact/runtime/async.hh): four   *)
(* optional callbacks, the snapshot c() takes of which are set, and the    *)
(* trampolines ecsact_async_flush_events calls through a snapshot, each    *)
(* with its own test of what is set by then.                               *)
(*                                                                         *)
(* As in ExecutionEventsCollector, a callback is identified with the       *)
(* number of the call that registered it, 0 is an empty optional, and a    *)
(* callback may call any member of the collector while it runs; one that   *)
(* destroys itself stays on the stack until it returns.                    *)
(***************************************************************************)
EXTENDS Naturals, Sequences

CONSTANTS
  Snapshot,     \* variables of type ecsact_async_events_collector
  MaxCalls,     \* bound on the calls that change the collector
  MaxDepth,     \* bound on callbacks running inside callbacks
  SessionCallbackAccepted  \* set_async_session_event_callback takes an
                \* async_requests_done_callback_t.  A CallbackContainer that
                \* does not convert it (std::function) rejects the call.

ASSUME BoundsAssumption == MaxCalls \in Nat /\ MaxDepth \in Nat
ASSUME SessionCallbackAssumption == SessionCallbackAccepted \in BOOLEAN

(* _async_error_cb, _system_error_cb, _async_requests_done_cb and          *)
(* _async_session_event_cb.                                                *)
Slot == {"error", "system", "done", "session"}

VARIABLES
  callback,  \* callback[s]: the callback in slot s
  snapshot,  \* snapshot[p]: the slots whose callback is not null in p
  stack,     \* the callbacks that are running, the innermost last
  thrown,    \* did .value() of an empty optional throw bad_optional_access?
  log        \* history: the slots set and the clears

vars == <<callback, snapshot, stack, thrown, log>>

Init ==
  /\ callback = [s \in Slot |-> 0]
  /\ snapshot = [p \in Snapshot |-> {}]
  /\ stack = <<>>
  /\ thrown = FALSE
  /\ log = <<>>

Called(what) ==
  /\ Len(log) < MaxCalls
  /\ log' = Append(log, what)
  /\ UNCHANGED <<snapshot, stack, thrown>>

(* set_async_error_callback, set_system_error_callback,                    *)
(* set_async_requests_done_callback, set_async_session_event_callback      *)
Set(s) ==
  /\ s = "session" => SessionCallbackAccepted
  /\ Called(s)
  /\ callback' = [callback EXCEPT ![s] = Len(log) + 1]

(* Faults: all of them; the system error callback forgotten.               *)
ResetByClearAll == Slot
ResetByClearError == {"error"}

(* What clear() resets.                                                    *)
ResetByClear == {"error", "system"}

(* clear()                                                                 *)
Clear ==
  /\ Called("clear")
  /\ callback' = [s \in Slot |-> IF s \in ResetByClear THEN 0 ELSE callback[s]]

(* Fault: the session event is reported if the requests-done callback is.  *)
SlotsSetAsTested == {s \in Slot : callback[IF s = "session" THEN "done" ELSE s] # 0}

(* The slots c() finds set.                                                *)
SlotsSet == {s \in Slot : callback[s] # 0}

(* Fault: the C struct is not value-initialized.                           *)
CUninitialized(p) ==
  /\ snapshot' = [snapshot EXCEPT ![p] = SlotsSet \cup {"indeterminate"}]
  /\ UNCHANGED <<callback, stack, thrown, log>>

(* c()                                                                     *)
C(p) ==
  /\ snapshot' = [snapshot EXCEPT ![p] = SlotsSet]
  /\ UNCHANGED <<callback, stack, thrown, log>>

(* The optional a trampoline tests before it calls the one of its slot:    *)
(* its own, but async_session_event_callback tests                         *)
(* _async_requests_done_cb.                                                *)
Tested(s) == IF s = "session" THEN "done" ELSE s

(* A trampoline called with an event of slot s.                            *)
Event(p, s) ==
  /\ s \in snapshot[p]
  /\ Len(stack) < MaxDepth
  /\ callback[Tested(s)] # 0
  /\ IF callback[s] # 0
       THEN /\ stack' = Append(stack, [slot |-> s, callback |-> callback[s]])
            /\ UNCHANGED thrown
       ELSE /\ thrown' = TRUE
            /\ UNCHANGED stack
  /\ UNCHANGED <<callback, snapshot, log>>

(* The innermost callback returns.                                         *)
Return ==
  /\ stack # <<>>
  /\ stack' = SubSeq(stack, 1, Len(stack) - 1)
  /\ UNCHANGED <<callback, snapshot, thrown, log>>

Next ==
  \/ \E s \in Slot : Set(s)
  \/ Clear
  \/ \E p \in Snapshot : C(p)
  \/ \E p \in Snapshot, s \in Slot : Event(p, s)
  \/ Return

Spec == Init /\ [][Next]_vars

-----------------------------------------------------------------------------
TypeOK ==
  /\ callback \in [Slot -> Nat]
  /\ snapshot \in [Snapshot -> SUBSET Slot]
  /\ stack \in Seq([slot : Slot, callback : Nat])
  /\ thrown \in BOOLEAN
  /\ log \in Seq(Slot \cup {"clear"})

(* Although the session trampoline tests the wrong optional, it never      *)
(* reads an empty one, not even through a snapshot taken before clear().   *)
NeverThrows == ~thrown

(* What destroys the callback that was stored in slot s by call n: a later *)
(* registration in s, or clear() if it is one of the error callbacks.      *)
Destroyed(s, n) ==
  \E j \in n + 1 .. Len(log) : log[j] = s \/ (log[j] = "clear" /\ s \in {"error", "system"})

(* Nothing keeps a callback from replacing itself, or an error callback    *)
(* from clearing the collector, while its operator() is still on the       *)
(* stack.  That is all that destroys it: a callback for finished requests  *)
(* or session events may call clear(), any callback may register others.   *)
RunningDestroyedByOwnSlot ==
  \A i \in DOMAIN stack :
    LET s == stack[i].slot
        n == stack[i].callback
    IN  callback[s] # n <=> Destroyed(s, n)

(* The registrations in slot s, for the error slots since the last clear().*)
Registrations(s) ==
  {i \in DOMAIN log :
     /\ log[i] = s
     /\ s \in {"error", "system"} => \A j \in i .. Len(log) : log[j] # "clear"}

Last(calls) == IF calls = {} THEN 0 ELSE CHOOSE i \in calls : \A j \in calls : j <= i

LatestIn(s) == Last(Registrations(s))

(* A slot holds the callback registered last ("If callback is already set  *)
(* it will be overwritten") and a cleared error callback never runs.       *)
LatestRegistrationKept == \A s \in Slot : callback[s] = LatestIn(s)

(* A snapshot has a callback exactly for the slots in use when it is taken *)
SnapshotComplete ==
  [][\A p \in Snapshot : C(p) => snapshot'[p] = {s \in Slot : LatestIn(s) # 0}]_vars

(* async.h says of async_session_event_callback: "invoked when a session   *)
(* event has occurred".  So the trampoline should call what is registered. *)
SessionEventsInvoked ==
  \A p \in Snapshot : "session" \in snapshot[p] /\ callback["session"] # 0
                        => callback[Tested("session")] # 0
=============================================================================

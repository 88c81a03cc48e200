---------------------------- MODULE AsyncSession ----------------------------
(***************************************************************************)
(* An async session as a C++ program sees it (ecsact/runtime/async.hh):    *)
(* start, stop, enqueue_execution_options, flush_events and one            *)
(* async_events_collector whose callbacks are called by flush_events and   *)
(* may call all of these again.                                            *)
(*                                                                         *)
(* flush_events takes a snapshot of the collector as a local variable and  *)
(* hands it to the runtime; snapshot[n] is that of the n-th flush_events   *)
(* that is running inside another one.  The runtime is external: in the    *)
(* background it executes requests and appends to the session's pending    *)
(* events, ecsact_async_flush_events takes them in order.                  *)
(* Init, Next and Spec are those of the collector alone.                   *)
(***************************************************************************)
EXTENDS AsyncEventsCollector, FiniteSets

CONSTANTS
  Request,    \* request ids
  MaxEvents   \* bound on the pending events: the client only starts
              \* sessions and enqueues requests that surely fit

ASSUME SnapshotAssumption == 1 .. MaxDepth \subseteq Snapshot
ASSUME MaxEventsAssumption == MaxEvents \in Nat

VARIABLES
  session,   \* "none", "pending", "started", "stopping" or "stopped"
  pending,   \* the requests that the runtime has not executed
  events,    \* what the next flush will report
  flushing,  \* how many calls of flush_events are running
  since,     \* history: since[n]: Len(log) when the n-th of them began
  outcome,   \* history: what became of each request, see RequestLedger
  told       \* history: how often the client was told that it is done

sessionVars == <<vars, session, pending, events, flushing, since, outcome, told>>

SessionInit ==
  /\ Init
  /\ session = "none"
  /\ pending = {}
  /\ events = <<>>
  /\ flushing = 0
  /\ since = [n \in 1 .. MaxDepth |-> 0]
  /\ outcome = [r \in Request |-> "unused"]
  /\ told = [r \in Request |-> 0]

AnEvent(slot, requests) == [slot |-> slot, requests |-> requests]

(* The requests an event in the queue reports as done.                     *)
Resolved == UNION {events[i].requests : i \in {j \in DOMAIN events : events[j].slot = "done"}}

Happens(new) == events' = events \o new

(* There is room for the events of the pending requests and n others, and  *)
(* for those of a session that starts and ends with an error.              *)
Room(n) == Len(events) + Cardinality(pending) + n + 4 <= MaxEvents

Become(rs, what) == outcome' = [r \in Request |-> IF r \in rs THEN what ELSE outcome[r]]

(* A callback is called with the ids rs, waiting or not.                   *)
Tell(rs) == told' = [r \in Request |-> IF r \in rs THEN told[r] + 1 ELSE told[r]]

-----------------------------------------------------------------------------
(* The client, in its own code or in a callback.                           *)

ClientRuns == flushing = Len(stack)

(* The collector's members                                                 *)
Register ==
  /\ ClientRuns
  /\ (\E s \in Slot : Set(s)) \/ Clear
  /\ UNCHANGED <<session, pending, events, flushing, since, outcome, told>>

(* start()                                                                 *)
Start ==
  /\ ClientRuns
  /\ session \in {"none", "stopped"}
  /\ Room(1)
  /\ session' = "pending"
  /\ Happens(<<AnEvent("session", {})>>)
  /\ UNCHANGED <<vars, pending, flushing, since, outcome, told>>

(* stop(id)                                                                *)
Stop ==
  /\ ClientRuns
  /\ session \in {"pending", "started"}
  /\ session' = "stopping"
  /\ UNCHANGED <<vars, pending, events, flushing, since, outcome, told>>

(* enqueue_execution_options(id, options): the runtime returns an id that  *)
(* names no request.                                                       *)
Enqueue(r) ==
  /\ ClientRuns
  /\ session \in {"pending", "started"}
  /\ r \notin pending \cup Resolved
  /\ Room(1)
  /\ pending' = pending \cup {r}
  /\ Become({r}, "waiting")
  /\ told' = [told EXCEPT ![r] = 0]
  /\ UNCHANGED <<vars, session, events, flushing, since>>

(* Faults: nothing is handed over; something that is not initialized; a    *)
(* flush inside another one uses the snapshot of the outer one.            *)
FlushNull ==
  /\ snapshot' = [snapshot EXCEPT ![flushing + 1] = {}]
  /\ UNCHANGED <<callback, stack, thrown, log>>
FlushUninitialized == CUninitialized(flushing + 1)
FlushShared ==
  IF flushing = 0 THEN C(1)
  ELSE /\ snapshot' = [snapshot EXCEPT ![flushing + 1] = snapshot[flushing]]
       /\ UNCHANGED <<callback, stack, thrown, log>>

(* async_evc.c(), kept in a local variable                                 *)
FlushSnapshot == C(flushing + 1)

(* flush_events(id, async_evc) and flush_events(id, evc, async_evc)        *)
Flush ==
  /\ ClientRuns
  /\ flushing < MaxDepth
  /\ FlushSnapshot
  /\ flushing' = flushing + 1
  /\ since' = [since EXCEPT ![flushing + 1] = Len(log)]
  /\ UNCHANGED <<session, pending, events, outcome, told>>

(* flush_events(id) and flush_events(id, evc): nobody is told of the       *)
(* pending events.  The runtime may drop them or keep them.                *)
FlushWithout ==
  /\ ClientRuns
  /\ events' = <<>>
  /\ Become(Resolved, "missed")
  /\ UNCHANGED <<vars, session, pending, flushing, since, told>>

(* The innermost callback returns.                                         *)
CallbackReturns ==
  /\ ClientRuns
  /\ Return
  /\ UNCHANGED <<session, pending, events, flushing, since, outcome, told>>

-----------------------------------------------------------------------------
(* ecsact_async_flush_events                                               *)

(* Nothing was registered in slot s when this flush began, or it has been  *)
(* cleared.                                                                *)
Unregistered(s) == LatestIn(s) = 0 \/ LatestIn(s) > since[flushing]

(* Fault: c() puts the callback for finished requests in both fields that  *)
(* take request ids.                                                       *)
TellsDoneAndErrors(e) == e.slot \in {"done", "error"}

(* The callback that runs for event e tells the client of done requests.   *)
TellsDone(e) == e.slot = "done"

(* The next event is reported through the snapshot, if it has a callback   *)
(* and the trampoline finds what it tests.                                 *)
Deliver ==
  /\ flushing > Len(stack)
  /\ events # <<>>
  /\ events' = Tail(events)
  /\ LET e == Head(events)
         done == IF TellsDone(e) THEN e.requests ELSE {}
     IN  IF e.slot \in snapshot[flushing] /\ callback[Tested(e.slot)] # 0
           THEN /\ Event(flushing, e.slot)
                /\ Become(done, "reported")
                /\ Tell(done)
           ELSE /\ Become(IF e.slot = "done" /\ Unregistered("done") THEN e.requests ELSE {}, "missed")
                /\ UNCHANGED <<vars, told>>
  /\ UNCHANGED <<session, pending, flushing, since>>

(* flush_events returns; its snapshot is gone.                             *)
FlushReturns ==
  /\ flushing > Len(stack)
  /\ events = <<>>
  /\ flushing' = flushing - 1
  /\ snapshot' = [snapshot EXCEPT ![flushing] = {}]
  /\ since' = [since EXCEPT ![flushing] = 0]
  /\ UNCHANGED <<callback, stack, thrown, log, session, pending, events, outcome, told>>

-----------------------------------------------------------------------------
(* The runtime in the background.                                          *)

(* The session ends: what has not been executed never will be.             *)
Ends(new) ==
  /\ session' = "stopped"
  /\ Happens(new \o <<AnEvent("session", {})>>)
  /\ pending' = {}

Started ==
  /\ session = "pending"
  /\ session' = "started"
  /\ Happens(<<AnEvent("session", {})>>)
  /\ UNCHANGED <<vars, pending, flushing, since, outcome, told>>

Stopped ==
  /\ session = "stopping"
  /\ Ends(<<>>)
  /\ Become(pending, "abandoned")
  /\ UNCHANGED <<vars, flushing, since, told>>

(* Requests are executed.                                                  *)
Execute(rs) ==
  /\ session = "started"
  /\ rs \subseteq pending
  /\ pending' = pending \ rs
  /\ Happens(<<AnEvent("done", rs)>>)
  /\ UNCHANGED <<vars, session, flushing, since, outcome, told>>

(* Requests fail: they are reported as failed and as done.  An error of a  *)
(* request or of a system also ends the session.                           *)
Fail(rs) ==
  /\ session = "started"
  /\ rs \subseteq pending
  /\ Ends(IF rs = {} THEN <<AnEvent("system", {})>> ELSE <<AnEvent("error", rs), AnEvent("done", rs)>>)
  /\ Become(pending \ rs, "abandoned")
  /\ UNCHANGED <<vars, flushing, since, told>>

Client ==
  \/ Register
  \/ Start
  \/ Stop
  \/ \E r \in Request : Enqueue(r)
  \/ Flush
  \/ FlushWithout
  \/ CallbackReturns

Runtime ==
  \/ Deliver
  \/ FlushReturns
  \/ Started
  \/ Stopped
  \/ \E rs \in SUBSET Request : Fail(rs) \/ (rs # {} /\ Execute(rs))

SessionNext == Client \/ Runtime

SessionSpec == SessionInit /\ [][SessionNext]_sessionVars

(* The program calls flush_events again and again outside of callbacks,    *)
(* callbacks return, ecsact_async_flush_events reports what it can, and    *)
(* the runtime executes what is pending, starts and stops sessions.        *)
Fairness ==
  /\ WF_sessionVars(flushing = 0 /\ Flush)
  /\ WF_sessionVars(CallbackReturns)
  /\ WF_sessionVars(Deliver \/ FlushReturns)
  /\ WF_sessionVars(Started)
  /\ WF_sessionVars(Stopped)
  /\ \A r \in Request : WF_sessionVars(\E rs \in SUBSET Request : r \in rs /\ Execute(rs))

FairSpec == SessionSpec /\ Fairness

-----------------------------------------------------------------------------
SessionTypeOK ==
  /\ TypeOK
  /\ session \in {"none", "pending", "started", "stopping", "stopped"}
  /\ pending \subseteq Request
  /\ events \in Seq([slot : Slot, requests : SUBSET Request])
  /\ flushing \in Len(stack) .. MaxDepth
  /\ since \in [1 .. MaxDepth -> 0 .. MaxCalls]
  /\ outcome \in [Request -> {"unused", "waiting", "reported", "missed", "abandoned"}]
  /\ told \in [Request -> Nat]

(* An event that no callback hears of belongs to a slot for which none was *)
(* registered when the flush began, or to the session events while nothing *)
(* is registered for finished requests.                                    *)
DropsOnlyUnregistered ==
  [][LET slot == Head(events).slot
     IN  Deliver /\ UNCHANGED stack =>
           Unregistered(slot) \/ (slot = "session" /\ LatestIn("done") = 0)]_sessionVars

Ledger == INSTANCE RequestLedger

(* async_request_done_callback is "invoked when requests are done (error   *)
(* or success)": from the enqueue_execution_options that returns an id on, *)
(* a client is told of it at most once, never of an id it does not wait    *)
(* for, and never of one the session has abandoned, whatever its callbacks *)
(* do while the events are flushed.  On the runtime's side this rests on   *)
(* an event being off the queue before the callback runs for it.           *)
ImplementsLedger == Ledger!Spec

(* Who listens for finished requests learns of each, unless the session is *)
(* stopped or the events are flushed with nobody listening.                *)
RequestsReported ==
  \A r \in Request : (callback["done"] # 0 /\ outcome[r] = "waiting") ~> (outcome[r] # "waiting")
=============================================================================

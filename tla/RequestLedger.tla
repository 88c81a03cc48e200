--------------------------- MODULE RequestLedger ----------------------------
(***************************************************************************)
(* What becomes of the requests of an async session (ecsact/runtime/       *)
(* async.h): an id names a request from the call that returns it until the *)
(* request has exactly one outcome, and may then name another request.     *)
(* A report of a request that is not waiting is no step of the ledger, nor *)
(* a stuttering one: it would be one more in `told'.                       *)
(***************************************************************************)
EXTENDS Naturals

CONSTANT Request  \* request ids

VARIABLES
  outcome,  \* what became of the request that each id names
  told      \* how often the client has been told that it is done

vars == <<outcome, told>>

(* What a request that is waiting becomes: reported to the client as done, *)
(* missed because nobody listened to the report, or abandoned by a session *)
(* that ended.                                                             *)
Outcome == {"reported", "missed", "abandoned"}

Become(rs, what) == outcome' = [r \in Request |-> IF r \in rs THEN what ELSE outcome[r]]

Waiting(rs) == \A r \in rs : outcome[r] = "waiting"

Init ==
  /\ outcome = [r \in Request |-> "unused"]
  /\ told = [r \in Request |-> 0]

Enqueue(r) ==
  /\ ~Waiting({r})
  /\ Become({r}, "waiting")
  /\ told' = [told EXCEPT ![r] = 0]

Report(rs) ==
  /\ Waiting(rs)
  /\ Become(rs, "reported")
  /\ told' = [r \in Request |-> IF r \in rs THEN told[r] + 1 ELSE told[r]]

Settle(rs, what) ==
  /\ Waiting(rs)
  /\ Become(rs, what)
  /\ UNCHANGED told

Next ==
  \/ \E r \in Request : Enqueue(r)
  \/ \E rs \in SUBSET Request : Report(rs)
  \/ \E rs \in SUBSET Request, what \in Outcome \ {"reported"} : Settle(rs, what)

Spec == Init /\ [][Next]_vars
=============================================================================

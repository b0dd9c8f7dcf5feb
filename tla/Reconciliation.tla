--------------------------- MODULE Reconciliation ---------------------------
(***************************************************************************)
(* What the ledger promises an operator who reads `tesoro reconcile`:      *)
(* where one request stands, told apart from where its money is.           *)
(*                                                                         *)
(* A request is unreconciled from the moment it is authorised; money moves *)
(* at most once, and only then; it becomes settled only if its money has   *)
(* moved and failed only if it has not; and neither is ever undone.        *)
(* Silence leaves it unreconciled for ever.  (store.RECONCILIATION_STATES; *)
(* `diverged` is a settled request whose amount differs.)                  *)
(***************************************************************************)
CONSTANT Ids

VARIABLES
    state,      \* what the ledger says of each request
    gone        \* the requests whose money has really moved

States == {"unrecorded", "unreconciled", "settled", "failed"}

Init ==
    /\ state = [id \in Ids |-> "unrecorded"]
    /\ gone = {}

Become(id, before, after) ==
    /\ state[id] = before
    /\ state' = [state EXCEPT ![id] = after]
    /\ UNCHANGED gone

Authorize(id) == Become(id, "unrecorded", "unreconciled")

Move(id) ==
    /\ state[id] = "unreconciled"
    /\ id \notin gone
    /\ gone' = gone \cup {id}
    /\ UNCHANGED state

Settle(id) == id \in gone /\ Become(id, "unreconciled", "settled")

Fail(id) == id \notin gone /\ Become(id, "unreconciled", "failed")

Next == \E id \in Ids : Authorize(id) \/ Move(id) \/ Settle(id) \/ Fail(id)

Spec == Init /\ [][Next]_<<state, gone>>
=============================================================================

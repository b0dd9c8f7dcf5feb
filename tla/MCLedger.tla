------------------------------ MODULE MCLedger ------------------------------
(***************************************************************************)
(* Ledger for TLC: two callers, in two processes or on one event loop.     *)
(***************************************************************************)
EXTENDS Ledger, TLC

CONSTANTS buyer, agent, p, q, reviewer

TwoCallers == {buyer, agent}
TwoProcesses == (buyer :> p) @@ (agent :> q)
OneLoop == (buyer :> p) @@ (agent :> p)
AllActual == (buyer :> "actual") @@ (agent :> "actual")
QuotedAndSilent == (buyer :> "quoted") @@ (agent :> "silent")
OnlyAgent == {agent}

OneCaller == {buyer}
Alone == buyer :> p
Quoted == buyer :> "quoted"
Nobody == {}

\* Request ids are interchangeable: no action and no property names one.
AnyId == Permutations(Ids)
=============================================================================

----------------------------- MODULE MCAuthority -----------------------------
(***************************************************************************)
(* Authority for TLC: an agent that acts under a parent.                   *)
(***************************************************************************)
EXTENDS Authority, TLC

CONSTANTS boss, child, exile, ghost, trip

Purchase == [network |-> "base", channel |-> "external", resource |-> "feed", category |-> None]
OneKind == {Purchase}

Free == [parent |-> None, perAction |-> NotDeclared, daily |-> NotDeclared, networks |-> {}]
Capped == [Free EXCEPT !.perAction = 2, !.daily = 3, !.networks = {"base"}]
Delegated == [Free EXCEPT !.parent = boss]
Looped == [Free EXCEPT !.parent = child]
Orphan == [Free EXCEPT !.parent = ghost]
Forms == {[agent |-> child, terms |-> Capped], [agent |-> boss, terms |-> Looped]}

Family == (boss :> [status |-> "active", terms |-> Capped])
          @@ (child :> [status |-> "active", terms |-> Delegated])
          @@ (exile :> [status |-> "revoked", terms |-> Orphan])

Anything == [max |-> 3, perAction |-> NotDeclared, channels |-> {"external"},
             resources |-> {}, categories |-> {}, asset |-> "USDC"]
Errands == {[agent |-> child, terms |-> Anything, lasts |-> NotDeclared]}
Errand == trip :> [agent |-> child, status |-> "active", terms |-> Anything, expires |-> 1,
                   created |-> 0]

\* Nothing tells two ids apart, nor two processes of one agent.
Interchangeable == Permutations(Requests) \cup Permutations(Deciders)

ForChild == [d \in Deciders |-> child]
=============================================================================

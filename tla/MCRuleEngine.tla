---------------------------- MODULE MCRuleEngine ----------------------------
(***************************************************************************)
(* RuleEngine for TLC: a constant of a cfg cannot be a sequence, so the    *)
(* registered engines are named here, in registration order.               *)
(***************************************************************************)
EXTENDS RuleEngine

TwoEngines == <<"velocity_watch", "geo_watch">>
OneEngine == <<"velocity_watch">>
=============================================================================

------------------------------ MODULE Verdicts ------------------------------
(***************************************************************************)
(* The verdict lattice (domain.py) and the attribution projection          *)
(* (record.py, domain.py), as operators.  Nothing here has state: the      *)
(* decision pipeline (RuleEngine) and the payment lifecycle (Ledger) are   *)
(* built from these.                                                       *)
(***************************************************************************)
EXTENDS Naturals, Sequences

Verdicts == {"APPROVE", "REVIEW", "ESCALATE", "REJECT"}

\* A Reason whose verdict field is None, or a control that offered no opinion.
None == "none"

Severity == [APPROVE |-> 0, REVIEW |-> 1, ESCALATE |-> 2, REJECT |-> 3]

\* On equal severity the first argument is returned, as in the code: a clamp
\* that changes nothing is recognised by identity (`clamped is not verdict`).
Narrower_Widest(a, b) ==                      \* mutant: the comparison reversed
    IF Severity[a] <= Severity[b] THEN a ELSE b

Narrower(a, b) == IF Severity[a] >= Severity[b] THEN a ELSE b

NeedsHuman_Escalate(v) == v = "ESCALATE"      \* mutant: REVIEW is forgotten

\* Only a REVIEW or an ESCALATE asks for a human.
NeedsHuman(v) == v \in {"REVIEW", "ESCALATE"}

-----------------------------------------------------------------------------
(***************************************************************************)
(* Reasons and attribution.                                                *)
(***************************************************************************)
Reason(source, code, verdict) ==
    [source |-> source, code |-> code, verdict |-> verdict]

\* Which control a clamp, recorded under "authorize", stands for.
ClampOrigin ==
    [clamped_by_identity |-> "identity",
     clamped_by_intent   |-> "intent",
     clamped_by_treasury |-> "treasury",
     clamped_by_sanction |-> "sanctions",
     clamped_by_risk     |-> "risk",
     frozen              |-> "killswitch"]

OriginOf(code) == IF code \in DOMAIN ClampOrigin THEN ClampOrigin[code] ELSE "authorize"

Clamps(reasons) ==
    {i \in DOMAIN reasons : /\ reasons[i].source = "authorize"
                            /\ reasons[i].verdict # None}

LastOf_First(S) == CHOOSE i \in S : \A j \in S : i <= j   \* mutant: read from the front

LastOf(S) == CHOOSE i \in S : \A j \in S : j <= i
FirstOf(S) == CHOOSE i \in S : \A j \in S : i <= j

\* record._deciding_engine: the last clamp, else the budget, else a high risk
\* score, else the policy rule.
DecidingEngine(reasons, budgetOk, highRisk) ==
    IF Clamps(reasons) # {} THEN OriginOf(reasons[LastOf(Clamps(reasons))].code)
    ELSE IF ~budgetOk THEN "treasury"
    ELSE IF highRisk THEN "risk"
    ELSE "policy"

\* Decision.reason: the first reason the attributed control itself wrote with a
\* verdict, else the first reason of any control that has one.
ShownReason(reasons, control) ==
    LET Speaking == {i \in DOMAIN reasons : reasons[i].verdict # None}
        Own      == {i \in Speaking : reasons[i].source = control}
    IN  IF Own # {} THEN reasons[FirstOf(Own)]
        ELSE IF Speaking # {} THEN reasons[FirstOf(Speaking)]
        ELSE Reason("nobody", None, None)
=============================================================================

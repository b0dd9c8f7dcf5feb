----------------------------- MODULE RuleEngine -----------------------------
(***************************************************************************)
(* One decision, control by control: RuleEngine.decide (authorize.py),     *)
(* Tesoro._apply_freeze, the replay check of Tesoro.authorize, and the     *)
(* advisor's clamp (advise.consult).                                       *)
(*                                                                         *)
(* Each action is one control consulted in the code's evaluation order.    *)
(* What a control finds is chosen by \E; what the pipeline does with the   *)
(* finding is the code's.  A decision leaves the pipeline by one of the    *)
(* three entry points: decide() (a dry run), authorize() (which also       *)
(* refuses an id that has already settled) or advise() (which also         *)
(* consults a model).                                                      *)
(***************************************************************************)
EXTENDS Verdicts

CONSTANT Extensions     \* names of the registered engines, in registration order

\* extend.RESERVED_CONTROLS, as far as this model names a control at all.
Reserved == {"treasury", "policy", "risk", "identity", "intent", "authorize", "sanctions"}

\* extend.register_engine refuses a name the standard defines and a name already
\* registered.  It would let an engine be called "killswitch" or "advisor"; those
\* two are excluded here so that `opinions` says who spoke.
ASSUME ExtensionsAssumption ==
    /\ Extensions \in Seq(STRING)
    /\ \A i \in DOMAIN Extensions :
          Extensions[i] \notin Reserved \cup {"killswitch", "advisor"}
    /\ \A i, j \in DOMAIN Extensions : Extensions[i] = Extensions[j] => i = j

VARIABLES
    stage,      \* the control consulted next
    asked,      \* how many registered engines have been consulted
    verdict,    \* Decision.verdict so far
    final,      \* what the caller acts on: AdvisedDecision.final_verdict, or the verdict
    reasons,    \* Decision.reasons so far
    budgetOk,   \* BudgetVerdict.ok
    highRisk,   \* "high_risk" in risk.flags
    opinions    \* history: what each control said, whether or not it was applied

vars == <<stage, asked, verdict, final, reasons, budgetOk, highRisk, opinions>>

Stages == {"engines", "identity", "intent", "treasury", "sanctions", "risk",
           "extensions", "freeze", "entry", "done"}

Findings == Verdicts \cup {None}

Opinion(control, v) == [control |-> control, verdict |-> v]

Controls == {"policy", "identity", "intent", "treasury", "sanctions", "risk",
             "killswitch", "authorize", "advisor"}
            \cup {Extensions[i] : i \in DOMAIN Extensions}

\* authorization.decidingEngine of the record made from this decision.
Attributed ==
    IF stage = "done" /\ final # verdict THEN "advisor"
    ELSE DecidingEngine(reasons, budgetOk, highRisk)

Init ==
    /\ stage = "engines"
    /\ asked = 0
    /\ verdict = "APPROVE"
    /\ final = None
    /\ reasons = <<>>
    /\ budgetOk = TRUE
    /\ highRisk = FALSE
    /\ opinions = {}

-----------------------------------------------------------------------------
(***************************************************************************)
(* The engines, then the clamps.                                           *)
(***************************************************************************)

\* Treasury, risk and policy are evaluated on one snapshot; the verdict starts
\* as the policy's.  A breached envelope writes a REJECT reason here and is
\* applied later, as a clamp to REVIEW.
EvaluateEngines ==
    /\ stage = "engines"
    /\ \E ok, risky \in BOOLEAN, rule \in Verdicts :
          /\ budgetOk' = ok
          /\ highRisk' = risky
          /\ verdict' = rule
          /\ reasons' = <<Reason("treasury",
                                 IF ok THEN "within_all_envelopes" ELSE "envelope_exceeded",
                                 IF ok THEN "APPROVE" ELSE "REJECT"),
                          Reason("policy", "rule", rule)>>
          /\ opinions' = {Opinion("policy", rule)}
    /\ stage' = "identity"
    /\ UNCHANGED <<asked, final>>

\* The clamp every narrowing control goes through: its own finding, then, only
\* if the verdict really narrowed, a reason under "authorize".
Clamped_WrongCode(v, proposal, code) ==      \* mutant: the code is not a known clamp
    IF Narrower(v, proposal) = v THEN <<>>
    ELSE <<Reason("authorize", "clamped", Narrower(v, proposal))>>

Clamped(v, proposal, code) ==
    IF Narrower(v, proposal) = v THEN <<>>
    ELSE <<Reason("authorize", code, Narrower(v, proposal))>>

ConsultDeclared(control, code, next) ==
    /\ stage = control
    /\ \E found \in Findings :
          IF found = None
          THEN UNCHANGED <<verdict, reasons, opinions>>
          ELSE /\ verdict' = Narrower(verdict, found)
               /\ reasons' = reasons \o <<Reason(control, "finding", found)>>
                                     \o Clamped(verdict, found, code)
               /\ opinions' = opinions \cup {Opinion(control, found)}
    /\ stage' = next
    /\ UNCHANGED <<asked, final, budgetOk, highRisk>>

ClampIdentity == ConsultDeclared("identity", "clamped_by_identity", "intent")
ClampIntent   == ConsultDeclared("intent", "clamped_by_intent", "treasury")

ClampTreasury ==
    /\ stage = "treasury"
    /\ IF budgetOk
       THEN UNCHANGED <<verdict, reasons, opinions>>
       ELSE /\ verdict' = Narrower(verdict, "REVIEW")
            /\ reasons' = reasons \o Clamped(verdict, "REVIEW", "clamped_by_treasury")
            /\ opinions' = opinions \cup {Opinion("treasury", "REVIEW")}
    /\ stage' = "sanctions"
    /\ UNCHANGED <<asked, final, budgetOk, highRisk>>

\* An absolute bar, recorded whether or not it changes the verdict.
ClampSanctions ==
    /\ stage = "sanctions"
    /\ \E sanctioned \in BOOLEAN :
          IF sanctioned
          THEN /\ verdict' = "REJECT"
               /\ reasons' = Append(reasons, Reason("authorize", "clamped_by_sanction", "REJECT"))
               /\ opinions' = opinions \cup {Opinion("sanctions", "REJECT")}
          ELSE UNCHANGED <<verdict, reasons, opinions>>
    /\ stage' = "risk"
    /\ UNCHANGED <<asked, final, budgetOk, highRisk>>

\* The one clamp that is not a narrowing: it looks only at APPROVE.  A high score
\* asks for ESCALATE whatever the standing verdict, and that is its opinion.
ClampRisk ==
    /\ stage = "risk"
    /\ IF highRisk /\ verdict = "APPROVE"
       THEN /\ verdict' = "ESCALATE"
            /\ reasons' = Append(reasons, Reason("authorize", "clamped_by_risk", "ESCALATE"))
       ELSE UNCHANGED <<verdict, reasons>>
    /\ opinions' = opinions \cup (IF highRisk THEN {Opinion("risk", "ESCALATE")} ELSE {})
    /\ stage' = "extensions"
    /\ UNCHANGED <<asked, final, budgetOk, highRisk>>

-----------------------------------------------------------------------------
(***************************************************************************)
(* Registered engines: an unmeasured one says so, a silent one is skipped, *)
(* any other is narrowed by, and records its clamp under its own name.     *)
(***************************************************************************)
ExtensionReason(name, v, proposal) ==
    IF Narrower(v, proposal) # v
    THEN <<Reason(name, "clamped_by_extension", Narrower(v, proposal))>>
    ELSE IF proposal # v THEN <<Reason(name, "opinion_did_not_narrow", None)>>
    ELSE <<>>

ConsultExtension ==
    /\ stage = "extensions"
    /\ asked < Len(Extensions)
    /\ LET name == Extensions[asked + 1] IN
       \/ /\ reasons' = Append(reasons, Reason(name, "not_measured", None))
          /\ UNCHANGED <<verdict, opinions>>
       \/ UNCHANGED <<verdict, reasons, opinions>>
       \/ \E proposed \in Verdicts :
             /\ verdict' = Narrower(verdict, proposed)
             /\ reasons' = reasons \o ExtensionReason(name, verdict, proposed)
             /\ opinions' = opinions \cup {Opinion(name, proposed)}
    /\ asked' = asked + 1
    /\ UNCHANGED <<stage, final, budgetOk, highRisk>>

ExtensionsDone ==
    /\ stage = "extensions"
    /\ asked = Len(Extensions)
    /\ stage' = "freeze"
    /\ UNCHANGED <<asked, verdict, final, reasons, budgetOk, highRisk, opinions>>

-----------------------------------------------------------------------------
(***************************************************************************)
(* The kill switch, applied to the finished decision.  Its reason goes     *)
(* before the last sanctions clamp, so that sanctions keeps attribution,   *)
(* and last when there is none.                                            *)
(***************************************************************************)
SanctionClamps(rs) ==
    {i \in Clamps(rs) : OriginOf(rs[i].code) = "sanctions"}

FreezeAt_Last(rs) == Len(rs) + 1              \* mutant: always appended last

FreezeAt(rs) ==
    IF SanctionClamps(rs) = {} THEN Len(rs) + 1 ELSE LastOf(SanctionClamps(rs))

WithFreeze(rs) ==
    SubSeq(rs, 1, FreezeAt(rs) - 1)
      \o <<Reason("authorize", "frozen", "REJECT")>>
      \o SubSeq(rs, FreezeAt(rs), Len(rs))

ApplyFreeze ==
    /\ stage = "freeze"
    /\ \E frozen \in BOOLEAN :
          IF frozen
          THEN /\ verdict' = "REJECT"
               /\ reasons' = WithFreeze(reasons)
               /\ opinions' = opinions \cup {Opinion("killswitch", "REJECT")}
          ELSE UNCHANGED <<verdict, reasons, opinions>>
    /\ stage' = "entry"
    /\ UNCHANGED <<asked, final, budgetOk, highRisk>>

-----------------------------------------------------------------------------
(***************************************************************************)
(* The three entry points.                                                 *)
(***************************************************************************)
Decide ==
    /\ stage = "entry"
    /\ final' = verdict
    /\ stage' = "done"
    /\ UNCHANGED <<asked, verdict, reasons, budgetOk, highRisk, opinions>>

\* authorize(): an id that has already settled is refused, last of all.
RefuseReplay ==
    /\ stage = "entry"
    /\ verdict' = "REJECT"
    /\ final' = "REJECT"
    /\ reasons' = Append(reasons, Reason("authorize", "replayed_request_id", "REJECT"))
    /\ opinions' = opinions \cup {Opinion("authorize", "REJECT")}
    /\ stage' = "done"
    /\ UNCHANGED <<asked, budgetOk, highRisk>>

\* advise(): the decision itself is left as it is and only the final verdict
\* may narrow.  An advisor that is absent, too dear, failed or unintelligible is
\* Decide above.
ConsultAdvisor ==
    /\ stage = "entry"
    /\ \E recommended \in Verdicts, injection \in BOOLEAN :
          LET heard == IF injection THEN {recommended, "REJECT"} ELSE {recommended}
              advised == Narrower(verdict, recommended)
          IN  /\ final' = IF injection THEN Narrower(advised, "REJECT") ELSE advised
              /\ opinions' = opinions \cup {Opinion("advisor", v) : v \in heard}
    /\ stage' = "done"
    /\ UNCHANGED <<asked, verdict, reasons, budgetOk, highRisk>>

Next ==
    \/ EvaluateEngines \/ ClampIdentity \/ ClampIntent \/ ClampTreasury
    \/ ClampSanctions \/ ClampRisk \/ ConsultExtension \/ ExtensionsDone
    \/ ApplyFreeze \/ Decide \/ RefuseReplay \/ ConsultAdvisor

Spec == Init /\ [][Next]_vars

-----------------------------------------------------------------------------
(***************************************************************************)
(* Correctness.                                                            *)
(***************************************************************************)
Names == {Extensions[i] : i \in DOMAIN Extensions}

Said(control) == {o.verdict : o \in {p \in opinions : p.control = control}}

ReasonCodes == DOMAIN ClampOrigin
               \cup {"within_all_envelopes", "envelope_exceeded", "rule", "finding",
                     "clamped_by_extension", "not_measured", "opinion_did_not_narrow",
                     "replayed_request_id"}

Reasons == [source: Controls, code: ReasonCodes, verdict: Findings]

\* Every variable has its type.
TypeOK ==
    /\ stage \in Stages
    /\ asked \in 0..Len(Extensions)
    /\ verdict \in Verdicts
    /\ final \in Findings
    /\ reasons \in Seq(Reasons)
    /\ budgetOk \in BOOLEAN
    /\ highRisk \in BOOLEAN
    /\ opinions \subseteq [control: Controls, verdict: Verdicts]

\* No control is overruled, by a later control, a registered engine or an
\* advisor: what the caller acts on is at least as strict as every opinion but
\* risk's, a high risk score is never approved, and the verdict is one that some
\* control really asked for.
NoControlOverruled ==
    stage = "done" =>
        /\ \A o \in opinions :
              o.control # "risk" => Severity[final] >= Severity[o.verdict]
        /\ highRisk => final # "APPROVE"
        /\ \E o \in opinions : o.verdict = final

\* While no replay displaces them, the two dispositive controls win attribution in
\* their declared order, whatever else refused and however late a registered engine
\* or an advisor spoke (record.DISPOSITIVE_CONTROLS; the insertion of
\* Tesoro._apply_freeze before the sanctions clamp).
DispositiveAttribution ==
    (stage = "done" /\ Said("authorize") = {}) =>
        /\ Said("sanctions") # {} => Attributed = "sanctions"
        /\ (Said("killswitch") # {} /\ Said("sanctions") = {}) => Attributed = "killswitch"

\* A narrowed verdict is attributed to a control that asked for exactly that
\* verdict, as long as no registered engine took part in the narrowing: the last
\* clamp recorded is the one that set the verdict.
NarrowingIsAttributed ==
    LET narrowed == final \notin Said("policy")
        engines  == \E i \in DOMAIN reasons : reasons[i].code = "clamped_by_extension"
    IN  (stage = "done" /\ narrowed /\ ~engines) => final \in Said(Attributed)

\* architecture.html: "the final verdict is the most severe one any engine
\* produced", hence independent of the order the engines run in.
VerdictIsMostSevere ==
    stage = "done" => \A o \in opinions : Severity[final] >= Severity[o.verdict]

\* domain.Decision.reason: "the reason that carried the verdict", for "a REJECT whose
\* displayed reason is an unrelated informational line ... sends the reader to a
\* control that did nothing".  The reason shown for a decision that was not approved
\* is not one that approves.
RefusalIsExplained ==
    LET shown == ShownReason(reasons, DecidingEngine(reasons, budgetOk, highRisk))
    IN  (stage = "done" /\ verdict # "APPROVE") => shown.verdict # "APPROVE"

\* extend.register_engine: the name of a registered engine "becomes the attributed
\* control on every decision this engine touches".  If an engine's own clamp set the
\* verdict, the decision is attributed to a registered engine.
EngineIsAttributed ==
    LET narrowings == {i \in DOMAIN reasons : reasons[i].code = "clamped_by_extension"}
    IN  (/\ stage = "done"
         /\ final = verdict
         /\ \E i \in narrowings :
               /\ reasons[i].verdict = verdict
               /\ \A j \in DOMAIN reasons : j > i => reasons[j].verdict = None)
        => Attributed \in Names
=============================================================================

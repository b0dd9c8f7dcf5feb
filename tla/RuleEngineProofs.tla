-------------------------- MODULE RuleEngineProofs --------------------------
(***************************************************************************)
(* Theorems about one decision, for any list of registered engines.        *)
(***************************************************************************)
EXTENDS RuleEngine, SequenceTheorems, WellFoundedInduction, TLAPS

\* Narrowing yields one of the two verdicts, and neither of them is stricter.
LEMMA NarrowerBounds ==
    ASSUME NEW a \in Verdicts, NEW b \in Verdicts
    PROVE  /\ Narrower(a, b) \in {a, b}
           /\ Narrower(a, b) \in Verdicts
           /\ Severity[Narrower(a, b)] >= Severity[a]
           /\ Severity[Narrower(a, b)] >= Severity[b]
BY DEF Narrower, Severity, Verdicts

\* Narrowing an already narrowed verdict never relaxes it: what was at least as
\* strict as c stays so.
LEMMA NarrowerKeeps ==
    ASSUME NEW a \in Verdicts, NEW b \in Verdicts, NEW c \in Verdicts,
           Severity[a] >= Severity[c]
    PROVE  Severity[Narrower(a, b)] >= Severity[c]
BY DEF Narrower, Severity, Verdicts

\* REJECT is the strictest verdict, and APPROVE the only one a high risk score narrows.
LEMMA RejectIsTop ==
    ASSUME NEW a \in Verdicts
    PROVE  Severity["REJECT"] >= Severity[a]
BY DEF Severity, Verdicts

LEMMA NotApproved ==
    ASSUME NEW a \in Verdicts, NEW b \in Verdicts, a # "APPROVE"
    PROVE  Narrower(a, b) # "APPROVE"
BY DEF Narrower, Severity, Verdicts

-----------------------------------------------------------------------------
(***************************************************************************)
(* The last of a set of positions exists.                                  *)
(***************************************************************************)
LEMMA NatWellFounded == IsWellFoundedOn({p \in Nat \X Nat : p[1] < p[2]}, Nat)
<1>1. OpToRel(<, Nat) = {p \in Nat \X Nat : p[1] < p[2]}
  BY DEF OpToRel
<1> QED
  BY <1>1, NatLessThanWellFounded

\* LastOf picks the greatest of a non-empty set of positions up to n: the least
\* distance from n exists because Nat is well founded.
LEMMA LastOfIsLast ==
    ASSUME NEW n \in Nat, NEW S \in SUBSET (1..n), S # {}
    PROVE  /\ LastOf(S) \in S
           /\ \A i \in S : i <= LastOf(S)
<1> DEFINE T == {n - i : i \in S}
<1>1. \A i \in S : i \in 1..n
  OBVIOUS
<1>2. T \subseteq Nat
  BY <1>1
<1>3. T # {}
  OBVIOUS
<1> DEFINE R == {p \in Nat \X Nat : p[1] < p[2]}
<1>4. IsWellFoundedOn(R, Nat)
  BY NatWellFounded
<1> HIDE DEF R, T
<1>5. PICK x \in T : \A y \in T : <<y, x>> \notin R
  BY <1>2, <1>3, <1>4, WFMin
<1>6. PICK m \in S : x = n - m
  BY DEF T
<1>7. ASSUME NEW i \in S PROVE i <= m
  <2>1. n - i \in T
    BY DEF T
  <2>2. n - i \in Nat /\ n - m \in Nat
    BY <1>1
  <2>3. <<n - i, n - m>> \notin R
    BY <2>1, <1>5, <1>6
  <2>4. ~(n - i < n - m)
    BY <2>2, <2>3 DEF R
  <2> QED
    BY <2>4, <1>1
<1>8. \E k \in S : \A i \in S : i <= k
  BY <1>7
<1> QED
  BY <1>8 DEF LastOf

-----------------------------------------------------------------------------
(***************************************************************************)
(* Reasons keep their type.                                                *)
(***************************************************************************)
LEMMA EnginesCounted == Len(Extensions) \in Nat
BY ExtensionsAssumption DEF ExtensionsAssumption

LEMMA ControlNames ==
    /\ {"policy", "identity", "intent", "treasury", "sanctions", "risk",
        "killswitch", "authorize", "advisor"} \subseteq Controls
    /\ \A i \in 1..Len(Extensions) : Extensions[i] \in Controls
<1>1. DOMAIN Extensions = 1..Len(Extensions)
  BY ExtensionsAssumption DEF ExtensionsAssumption
<1> QED
  BY <1>1 DEF Controls

LEMMA ReasonType ==
    ASSUME NEW c \in Controls, NEW k \in ReasonCodes, NEW v \in Findings
    PROVE  Reason(c, k, v) \in Reasons
BY DEF Reason, Reasons

LEMMA TwoTyped ==
    ASSUME NEW r \in Seq(Reasons), NEW s \in Seq(Reasons)
    PROVE  r \o s \in Seq(Reasons)
OBVIOUS

LEMMA ThreeTyped ==
    ASSUME NEW r \in Seq(Reasons), NEW one \in Reasons, NEW s \in Seq(Reasons)
    PROVE  r \o <<one>> \o s \in Seq(Reasons)
<1>1. <<one>> \in Seq(Reasons)
  OBVIOUS
<1> QED
  BY <1>1, TwoTyped

LEMMA ClampedType ==
    ASSUME NEW v \in Verdicts, NEW proposal \in Verdicts, NEW k \in ReasonCodes
    PROVE  Clamped(v, proposal, k) \in Seq(Reasons)
<1>1. Reason("authorize", k, Narrower(v, proposal)) \in Reasons
  BY ReasonType, ControlNames, NarrowerBounds DEF Findings
<1> QED
  BY <1>1 DEF Clamped

LEMMA ExtensionReasonType ==
    ASSUME NEW i \in 1..Len(Extensions), NEW v \in Verdicts, NEW proposal \in Verdicts
    PROVE  ExtensionReason(Extensions[i], v, proposal) \in Seq(Reasons)
<1>1. Reason(Extensions[i], "clamped_by_extension", Narrower(v, proposal)) \in Reasons
  BY ReasonType, ControlNames, NarrowerBounds DEF Findings, ReasonCodes
<1>2. Reason(Extensions[i], "opinion_did_not_narrow", None) \in Reasons
  BY ReasonType, ControlNames DEF Findings, ReasonCodes
<1> QED
  BY <1>1, <1>2 DEF ExtensionReason

LEMMA FrozenReasonType == Reason("authorize", "frozen", "REJECT") \in Reasons
BY ReasonType, ControlNames DEF Findings, Verdicts, ReasonCodes, ClampOrigin

\* The freeze is inserted at a position of the list or at its end.
LEMMA FreezeAtType ==
    ASSUME NEW rs \in Seq(Reasons)
    PROVE  FreezeAt(rs) \in 1..(Len(rs) + 1)
<1>1. SanctionClamps(rs) \in SUBSET (1..Len(rs)) /\ Len(rs) \in Nat
  BY DEF SanctionClamps, Clamps
<1>2. CASE SanctionClamps(rs) = {}
  BY <1>1, <1>2 DEF FreezeAt
<1>3. CASE SanctionClamps(rs) # {}
  <2>1. LastOf(SanctionClamps(rs)) \in 1..Len(rs)
    BY <1>1, <1>3, LastOfIsLast
  <2> QED
    BY <2>1, <1>1, <1>3 DEF FreezeAt
<1> QED
  BY <1>2, <1>3

LEMMA WithFreezeType ==
    ASSUME NEW rs \in Seq(Reasons)
    PROVE  WithFreeze(rs) \in Seq(Reasons)
<1> DEFINE k == FreezeAt(rs)
<1>1. k \in 1..(Len(rs) + 1) /\ Len(rs) \in Nat
  BY FreezeAtType
<1> HIDE DEF k
<1>2. SubSeq(rs, 1, k - 1) \in Seq(Reasons)
  BY <1>1, SubSeqProperties
<1>3. SubSeq(rs, k, Len(rs)) \in Seq(Reasons)
  BY <1>1, SubSeqProperties
<1> QED
  BY <1>2, <1>3, FrozenReasonType DEF WithFreeze, k

-----------------------------------------------------------------------------
(***************************************************************************)
(* Type correctness.                                                       *)
(***************************************************************************)
LEMMA InitType == Init => TypeOK
<1> SUFFICES ASSUME Init PROVE TypeOK
  OBVIOUS
<1>1. asked \in 0..Len(Extensions)
  BY EnginesCounted DEF Init
<1>2. reasons \in Seq(Reasons)
  BY DEF Init
<1> QED
  BY <1>1, <1>2, Zenon DEF Init, TypeOK, Stages, Findings, Verdicts

\* A control that keeps its own finding: two lists appended.
LEMMA DeclaredType ==
    ASSUME TypeOK, NEW control \in {"identity", "intent"},
           NEW k \in ReasonCodes, NEW next \in Stages, ConsultDeclared(control, k, next)
    PROVE  TypeOK'
<1> USE DEF TypeOK
<1>1. control \in Controls
  BY ControlNames
<1>2. /\ stage' \in Stages /\ asked' \in 0..Len(Extensions) /\ final' \in Findings
      /\ budgetOk' \in BOOLEAN /\ highRisk' \in BOOLEAN
  BY Zenon DEF ConsultDeclared
<1>3. PICK found \in Findings :
        IF found = None
        THEN UNCHANGED <<verdict, reasons, opinions>>
        ELSE /\ verdict' = Narrower(verdict, found)
             /\ reasons' = reasons \o <<Reason(control, "finding", found)>>
                                   \o Clamped(verdict, found, k)
             /\ opinions' = opinions \cup {Opinion(control, found)}
  BY Zenon DEF ConsultDeclared
<1>4. verdict' \in Verdicts /\ reasons' \in Seq(Reasons)
         /\ opinions' \subseteq [control: Controls, verdict: Verdicts]
  <2>1. CASE found = None
    BY <2>1, <1>3
  <2>2. CASE found # None
    <3>1. found \in Verdicts
      BY <2>2 DEF Findings
    <3>2. Reason(control, "finding", found) \in Reasons
      BY <1>1, ReasonType DEF ReasonCodes
    <3>3. Clamped(verdict, found, k) \in Seq(Reasons)
      BY <3>1, ClampedType
    <3>4. verdict' \in Verdicts
      BY <1>3, <2>2, <3>1, NarrowerBounds
    <3>5. reasons' \in Seq(Reasons)
      <4>1. reasons' = reasons \o <<Reason(control, "finding", found)>>
                               \o Clamped(verdict, found, k)
        BY <1>3, <2>2, Zenon
      <4> QED
        BY <3>2, <3>3, <4>1, ThreeTyped
    <3>6. opinions' \subseteq [control: Controls, verdict: Verdicts]
      BY <1>1, <1>3, <2>2, <3>1 DEF Opinion
    <3> QED
      BY <3>4, <3>5, <3>6
  <2> QED
    BY <2>1, <2>2
<1> QED
  BY <1>2, <1>4

LEMMA StepType == TypeOK /\ [Next]_vars => TypeOK'
<1> SUFFICES ASSUME TypeOK, [Next]_vars PROVE TypeOK'
  OBVIOUS
<1> USE DEF TypeOK
<1>1. CASE EvaluateEngines
  <2>1. /\ stage' \in Stages /\ asked' \in 0..Len(Extensions) /\ final' \in Findings
    BY <1>1, Zenon DEF EvaluateEngines, Stages
  <2>2. PICK ok, risky \in BOOLEAN, rule \in Verdicts :
          /\ budgetOk' = ok
          /\ highRisk' = risky
          /\ verdict' = rule
          /\ reasons' = <<Reason("treasury",
                                 IF ok THEN "within_all_envelopes" ELSE "envelope_exceeded",
                                 IF ok THEN "APPROVE" ELSE "REJECT"),
                          Reason("policy", "rule", rule)>>
          /\ opinions' = {Opinion("policy", rule)}
    BY <1>1, Zenon DEF EvaluateEngines
  <2>3. budgetOk' \in BOOLEAN /\ highRisk' \in BOOLEAN /\ verdict' \in Verdicts
    BY <2>2, Zenon
  <2>4. Reason("policy", "rule", rule) \in Reasons
    BY ReasonType, ControlNames DEF Findings, ReasonCodes
  <2>5. Reason("treasury", "within_all_envelopes", "APPROVE") \in Reasons
    BY ReasonType, ControlNames DEF Findings, Verdicts, ReasonCodes
  <2>6. Reason("treasury", "envelope_exceeded", "REJECT") \in Reasons
    BY ReasonType, ControlNames DEF Findings, Verdicts, ReasonCodes
  <2>7. reasons' \in Seq(Reasons)
    <3>1. CASE ok
      BY <3>1, <2>2, <2>4, <2>5
    <3>2. CASE ~ok
      BY <3>2, <2>2, <2>4, <2>6
    <3> QED
      BY <3>1, <3>2
  <2>8. opinions' \subseteq [control: Controls, verdict: Verdicts]
    <3>1. Opinion("policy", rule) \in [control: Controls, verdict: Verdicts]
      BY ControlNames DEF Opinion
    <3> QED
      BY <2>2, <3>1, Zenon
  <2> QED
    BY <2>1, <2>3, <2>7, <2>8
<1>2. CASE ClampIdentity
  BY <1>2, DeclaredType DEF ClampIdentity, ReasonCodes, ClampOrigin, Stages
<1>3. CASE ClampIntent
  BY <1>3, DeclaredType DEF ClampIntent, ReasonCodes, ClampOrigin, Stages
<1>4. CASE ClampTreasury
  <2>1. /\ stage' \in Stages /\ asked' \in 0..Len(Extensions) /\ final' \in Findings
        /\ budgetOk' \in BOOLEAN /\ highRisk' \in BOOLEAN
    BY <1>4, Zenon DEF ClampTreasury, Stages
  <2>2. Clamped(verdict, "REVIEW", "clamped_by_treasury") \in Seq(Reasons)
    BY ClampedType DEF Verdicts, ReasonCodes, ClampOrigin
  <2>3. Narrower(verdict, "REVIEW") \in Verdicts
    BY NarrowerBounds DEF Verdicts
  <2>4. Opinion("treasury", "REVIEW") \in [control: Controls, verdict: Verdicts]
    BY ControlNames DEF Opinion, Verdicts
  <2>5. CASE budgetOk
    BY <1>4, <2>1, <2>5 DEF ClampTreasury
  <2>6. CASE ~budgetOk
    <3>1. verdict' \in Verdicts /\ reasons' \in Seq(Reasons)
      <4>1. /\ verdict' = Narrower(verdict, "REVIEW")
            /\ reasons' = reasons \o Clamped(verdict, "REVIEW", "clamped_by_treasury")
        BY <1>4, <2>6, Zenon DEF ClampTreasury
      <4> QED
        BY <2>2, <2>3, <4>1, TwoTyped
    <3>2. opinions' \subseteq [control: Controls, verdict: Verdicts]
      BY <1>4, <2>4, <2>6 DEF ClampTreasury
    <3> QED
      BY <2>1, <3>1, <3>2
  <2> QED
    BY <2>5, <2>6
<1>5. CASE ClampSanctions
  <2>1. /\ stage' \in Stages /\ asked' \in 0..Len(Extensions) /\ final' \in Findings
        /\ budgetOk' \in BOOLEAN /\ highRisk' \in BOOLEAN
    BY <1>5, Zenon DEF ClampSanctions, Stages
  <2>2. Reason("authorize", "clamped_by_sanction", "REJECT") \in Reasons
    BY ReasonType, ControlNames DEF Findings, Verdicts, ReasonCodes, ClampOrigin
  <2>3. verdict' \in Verdicts /\ reasons' \in Seq(Reasons)
    BY <1>5, <2>2 DEF ClampSanctions, Verdicts
  <2>4. opinions' \subseteq [control: Controls, verdict: Verdicts]
    BY <1>5, ControlNames DEF ClampSanctions, Opinion, Verdicts
  <2> QED
    BY <2>1, <2>3, <2>4
<1>6. CASE ClampRisk
  <2>1. /\ stage' \in Stages /\ asked' \in 0..Len(Extensions) /\ final' \in Findings
        /\ budgetOk' \in BOOLEAN /\ highRisk' \in BOOLEAN
    BY <1>6, Zenon DEF ClampRisk, Stages
  <2>2. Reason("authorize", "clamped_by_risk", "ESCALATE") \in Reasons
    BY ReasonType, ControlNames DEF Findings, Verdicts, ReasonCodes, ClampOrigin
  <2>3. verdict' \in Verdicts /\ reasons' \in Seq(Reasons)
    BY <1>6, <2>2 DEF ClampRisk, Verdicts
  <2>4. opinions' \subseteq [control: Controls, verdict: Verdicts]
    BY <1>6, ControlNames DEF ClampRisk, Opinion, Verdicts
  <2> QED
    BY <2>1, <2>3, <2>4
<1>7. CASE ConsultExtension
  <2> DEFINE name == Extensions[asked + 1]
  <2>1. /\ stage' \in Stages /\ final' \in Findings
        /\ budgetOk' \in BOOLEAN /\ highRisk' \in BOOLEAN
    BY <1>7, Zenon DEF ConsultExtension
  <2>2. asked + 1 \in 1..Len(Extensions) /\ asked' \in 0..Len(Extensions)
    BY <1>7, EnginesCounted DEF ConsultExtension
  <2>3. name \in Controls
    BY <2>2, ControlNames
  <2>4. Reason(name, "not_measured", None) \in Reasons
    BY <2>3, ReasonType DEF Findings, ReasonCodes
  <2>5. CASE reasons' = Append(reasons, Reason(name, "not_measured", None))
             /\ UNCHANGED <<verdict, opinions>>
    BY <2>1, <2>2, <2>4, <2>5
  <2>6. CASE UNCHANGED <<verdict, reasons, opinions>>
    BY <2>1, <2>2, <2>6
  <2>7. ASSUME NEW proposed \in Verdicts,
               verdict' = Narrower(verdict, proposed),
               reasons' = reasons \o ExtensionReason(name, verdict, proposed),
               opinions' = opinions \cup {Opinion(name, proposed)}
        PROVE  TypeOK'
    <3>1. verdict' \in Verdicts
      BY <2>7, NarrowerBounds
    <3>2. reasons' \in Seq(Reasons)
      BY <2>2, <2>7, ExtensionReasonType
    <3>3. opinions' \subseteq [control: Controls, verdict: Verdicts]
      BY <2>3, <2>7 DEF Opinion
    <3> QED
      BY <2>1, <2>2, <3>1, <3>2, <3>3
  <2> QED
    BY <1>7, <2>5, <2>6, <2>7, Zenon DEF ConsultExtension
<1>8. CASE ExtensionsDone
  BY <1>8, Zenon DEF ExtensionsDone, Stages
<1>9. CASE ApplyFreeze
  <2>1. /\ stage' \in Stages /\ asked' \in 0..Len(Extensions) /\ final' \in Findings
        /\ budgetOk' \in BOOLEAN /\ highRisk' \in BOOLEAN
    BY <1>9, Zenon DEF ApplyFreeze, Stages
  <2>2. verdict' \in Verdicts /\ reasons' \in Seq(Reasons)
    BY <1>9, WithFreezeType DEF ApplyFreeze, Verdicts
  <2>3. opinions' \subseteq [control: Controls, verdict: Verdicts]
    BY <1>9, ControlNames DEF ApplyFreeze, Opinion, Verdicts
  <2> QED
    BY <2>1, <2>2, <2>3
<1>10. CASE Decide
  BY <1>10, Zenon DEF Decide, Stages, Findings
<1>11. CASE RefuseReplay
  <2>1. /\ stage' \in Stages /\ asked' \in 0..Len(Extensions) /\ final' \in Findings
        /\ budgetOk' \in BOOLEAN /\ highRisk' \in BOOLEAN
    BY <1>11, Zenon DEF RefuseReplay, Stages, Findings, Verdicts
  <2>2. Reason("authorize", "replayed_request_id", "REJECT") \in Reasons
    BY ReasonType, ControlNames DEF Findings, Verdicts, ReasonCodes
  <2>3. verdict' \in Verdicts /\ reasons' \in Seq(Reasons)
    BY <1>11, <2>2 DEF RefuseReplay, Verdicts
  <2>4. opinions' \subseteq [control: Controls, verdict: Verdicts]
    BY <1>11, ControlNames DEF RefuseReplay, Opinion, Verdicts
  <2> QED
    BY <2>1, <2>3, <2>4
<1>12. CASE ConsultAdvisor
  <2>1. /\ stage' \in Stages /\ asked' \in 0..Len(Extensions)
        /\ budgetOk' \in BOOLEAN /\ highRisk' \in BOOLEAN
    BY <1>12, Zenon DEF ConsultAdvisor, Stages
  <2>2. verdict' \in Verdicts /\ reasons' \in Seq(Reasons)
    BY <1>12, Zenon DEF ConsultAdvisor
  <2>3. final' \in Findings
    BY <1>12, NarrowerBounds DEF ConsultAdvisor, Findings, Verdicts
  <2>4. opinions' \subseteq [control: Controls, verdict: Verdicts]
    BY <1>12, ControlNames DEF ConsultAdvisor, Opinion, Verdicts
  <2> QED
    BY <2>1, <2>2, <2>3, <2>4
<1>13. CASE UNCHANGED vars
  BY <1>13, Zenon DEF vars
<1> QED
  BY <1>1, <1>2, <1>3, <1>4, <1>5, <1>6, <1>7, <1>8, <1>9, <1>10, <1>11, <1>12, <1>13
     DEF Next

\* Every variable keeps its type, for any list of registered engines.
THEOREM RuleEngineTypeOK == Spec => []TypeOK
BY InitType, StepType, PTL DEF Spec

-----------------------------------------------------------------------------
(***************************************************************************)
(* No control is overruled.  The property speaks of a finished decision;   *)
(* the strengthening is what holds of the verdict so far, before the entry *)
(* point is taken.                                                         *)
(***************************************************************************)
Opinions == [control: Controls, verdict: Verdicts]

\* v is at least as strict as every opinion in S but risk's.
Covers(v, S) == \A o \in S : o.control # "risk" => Severity[v] >= Severity[o.verdict]

\* Somebody asked for v.
Voiced(v, S) == \E o \in S : o.verdict = v

Scored == {"extensions", "freeze", "entry", "done"}

Standing ==
    /\ stage # "done" => Covers(verdict, opinions)
    /\ stage \notin {"engines", "done"} => Voiced(verdict, opinions)
    /\ (highRisk /\ stage \in Scored) => verdict # "APPROVE"

IInv == Standing /\ NoControlOverruled

\* Narrowing by an opinion covers it, and everything covered before.
LEMMA NarrowCovers ==
    ASSUME NEW S \in SUBSET Opinions, NEW v \in Verdicts, NEW c, NEW w \in Verdicts,
           Covers(v, S)
    PROVE  Covers(Narrower(v, w), S \cup {Opinion(c, w)})
<1>1. Severity[Narrower(v, w)] >= Severity[w]
  BY NarrowerBounds
<1>2. ASSUME NEW o \in S, o.control # "risk"
      PROVE  Severity[Narrower(v, w)] >= Severity[o.verdict]
  <2>1. o.verdict \in Verdicts
    BY DEF Opinions
  <2>2. Severity[v] >= Severity[o.verdict]
    BY <1>2 DEF Covers
  <2> QED
    BY <2>1, <2>2, NarrowerKeeps
<1>3. Opinion(c, w).verdict = w
  BY DEF Opinion
<1> QED
  BY <1>1, <1>2, <1>3, Zenon DEF Covers

LEMMA NarrowVoiced ==
    ASSUME NEW S \in SUBSET Opinions, NEW v \in Verdicts, NEW c, NEW w \in Verdicts,
           Voiced(v, S)
    PROVE  Voiced(Narrower(v, w), S \cup {Opinion(c, w)})
<1>1. Narrower(v, w) \in {v, w}
  BY NarrowerBounds
<1>2. Opinion(c, w).verdict = w
  BY DEF Opinion
<1> QED
  BY <1>1, <1>2, Zenon DEF Voiced

\* An absolute bar covers everything.
LEMMA RejectStands ==
    ASSUME NEW S \in SUBSET Opinions, NEW c
    PROVE  /\ Covers("REJECT", S \cup {Opinion(c, "REJECT")})
           /\ Voiced("REJECT", S \cup {Opinion(c, "REJECT")})
<1>1. Opinion(c, "REJECT").verdict = "REJECT" /\ "REJECT" \in Verdicts
  BY DEF Opinion, Verdicts
<1>2. \A o \in S : o.verdict \in Verdicts
  BY DEF Opinions
<1> QED
  BY <1>1, <1>2, RejectIsTop, Zenon DEF Covers, Voiced

\* An opinion of risk, whatever it is, leaves a verdict standing.
LEMMA RiskIsExempt ==
    ASSUME NEW S, NEW v, NEW w, Covers(v, S)
    PROVE  Covers(v, S \cup {Opinion("risk", w)})
BY DEF Covers, Opinion

LEMMA InitStanding == Init => IInv
BY DEF Init, IInv, Standing, Covers, Scored, NoControlOverruled

\* A step to a stage before the last one has only the running verdict to answer for.
LEMMA Unfinished ==
    ASSUME stage' \in Stages \ {"engines", "done"},
           Covers(verdict, opinions)', Voiced(verdict, opinions)',
           (highRisk /\ stage \in Scored => verdict # "APPROVE")'
    PROVE  IInv'
BY Zenon DEF IInv, Standing, NoControlOverruled

\* A control that keeps its own finding, consulted before risk is.
LEMMA DeclaredStanding ==
    ASSUME TypeOK, IInv, NEW control \in {"identity", "intent"},
           NEW k, NEW next \in {"intent", "treasury"}, ConsultDeclared(control, k, next)
    PROVE  IInv'
<1>1. stage' = next /\ stage = control
  BY Zenon DEF ConsultDeclared
<1>2. /\ stage' \in Stages \ {"engines", "done"} /\ stage' \notin Scored
  BY <1>1 DEF Stages, Scored
<1>3. Covers(verdict, opinions) /\ Voiced(verdict, opinions)
  BY <1>1 DEF IInv, Standing
<1>4. PICK found \in Findings :
        IF found = None
        THEN UNCHANGED <<verdict, opinions>>
        ELSE /\ verdict' = Narrower(verdict, found)
             /\ opinions' = opinions \cup {Opinion(control, found)}
  BY Zenon DEF ConsultDeclared
<1>5. Covers(verdict, opinions)' /\ Voiced(verdict, opinions)'
  <2>1. CASE found = None
    BY <2>1, <1>3, <1>4
  <2>2. CASE found # None
    <3>1. found \in Verdicts /\ verdict \in Verdicts /\ opinions \in SUBSET Opinions
      BY <2>2 DEF Findings, TypeOK, Opinions
    <3>2. verdict' = Narrower(verdict, found) /\ opinions' = opinions \cup {Opinion(control, found)}
      BY <2>2, <1>4, Zenon
    <3> QED
      BY <3>1, <3>2, <1>3, NarrowCovers, NarrowVoiced
  <2> QED
    BY <2>1, <2>2
<1> QED
  BY <1>2, <1>5, Unfinished

LEMMA StepStanding == TypeOK /\ IInv /\ [Next]_vars => IInv'
<1> SUFFICES ASSUME TypeOK, IInv, [Next]_vars PROVE IInv'
  OBVIOUS
<1>t. verdict \in Verdicts /\ opinions \in SUBSET Opinions
  BY DEF TypeOK, Opinions
<1>s. stage # "done" => Covers(verdict, opinions)
  BY DEF IInv, Standing
<1>v. stage \notin {"engines", "done"} => Voiced(verdict, opinions)
  BY DEF IInv, Standing
<1>r. highRisk /\ stage \in Scored => verdict # "APPROVE"
  BY DEF IInv, Standing
<1>1. CASE EvaluateEngines
  <2>1. PICK rule \in Verdicts : verdict' = rule /\ opinions' = {Opinion("policy", rule)}
    BY <1>1, Zenon DEF EvaluateEngines
  <2>2. Opinion("policy", rule).verdict = rule
    BY DEF Opinion
  <2>3. Covers(verdict, opinions)' /\ Voiced(verdict, opinions)'
    BY <2>1, <2>2 DEF Covers, Voiced, Severity, Verdicts
  <2>4. stage' = "identity"
    BY <1>1 DEF EvaluateEngines
  <2>5. stage' \in Stages \ {"engines", "done"} /\ stage' \notin Scored
    BY <2>4 DEF Stages, Scored
  <2> QED
    BY <2>3, <2>5, Unfinished
<1>2. CASE ClampIdentity
  BY <1>2, DeclaredStanding DEF ClampIdentity
<1>3. CASE ClampIntent
  BY <1>3, DeclaredStanding DEF ClampIntent
<1>4. CASE ClampTreasury
  <2>1. stage = "treasury" /\ stage' = "sanctions"
    BY <1>4, Zenon DEF ClampTreasury
  <2>2. stage' \in Stages \ {"engines", "done"} /\ stage' \notin Scored
    BY <2>1 DEF Stages, Scored
  <2>3. Covers(verdict, opinions) /\ Voiced(verdict, opinions)
    BY <2>1, <1>s, <1>v
  <2>4. Covers(verdict, opinions)' /\ Voiced(verdict, opinions)'
    <3>1. CASE budgetOk
      <4>1. UNCHANGED <<verdict, opinions>>
        BY <1>4, <3>1, Zenon DEF ClampTreasury
      <4> QED
        BY <4>1, <2>3
    <3>2. CASE ~budgetOk
      <4>1. /\ verdict' = Narrower(verdict, "REVIEW")
            /\ opinions' = opinions \cup {Opinion("treasury", "REVIEW")}
        BY <1>4, <3>2, Zenon DEF ClampTreasury
      <4>2. "REVIEW" \in Verdicts
        BY DEF Verdicts
      <4> QED
        BY <4>1, <4>2, <1>t, <2>3, NarrowCovers, NarrowVoiced
    <3> QED
      BY <3>1, <3>2
  <2> QED
    BY <2>2, <2>4, Unfinished
<1>5. CASE ClampSanctions
  <2>1. stage = "sanctions" /\ stage' = "risk"
    BY <1>5, Zenon DEF ClampSanctions
  <2>2. stage' \in Stages \ {"engines", "done"} /\ stage' \notin Scored
    BY <2>1 DEF Stages, Scored
  <2>3. Covers(verdict, opinions) /\ Voiced(verdict, opinions)
    BY <2>1, <1>s, <1>v
  <2>4. \/ UNCHANGED <<verdict, opinions>>
        \/ verdict' = "REJECT" /\ opinions' = opinions \cup {Opinion("sanctions", "REJECT")}
    BY <1>5, Zenon DEF ClampSanctions
  <2>5. Covers(verdict, opinions)' /\ Voiced(verdict, opinions)'
    BY <2>3, <2>4, <1>t, RejectStands
  <2> QED
    BY <2>2, <2>5, Unfinished
<1>6. CASE ClampRisk
  <2>1. stage = "risk" /\ stage' = "extensions"
    BY <1>6, Zenon DEF ClampRisk
  <2>2. stage' \in Stages \ {"engines", "done"} /\ stage' \in Scored
    BY <2>1 DEF Stages, Scored
  <2>3. Covers(verdict, opinions) /\ Voiced(verdict, opinions)
    BY <2>1, <1>s, <1>v
  <2>4. highRisk' = highRisk
    BY <1>6, Zenon DEF ClampRisk
  <2>5. CASE ~highRisk
    <3>1. UNCHANGED <<verdict, opinions>>
      BY <1>6, <2>5 DEF ClampRisk
    <3> QED
      BY <3>1, <2>2, <2>3, <2>4, <2>5, Unfinished, Zenon
  <2>6. CASE highRisk /\ verdict = "APPROVE"
    <3>1. verdict' = "ESCALATE" /\ opinions' = opinions \cup {Opinion("risk", "ESCALATE")}
      BY <1>6, <2>6, Zenon DEF ClampRisk
    <3>2. Covers("ESCALATE", opinions)
      <4>1. \A o \in opinions : o.verdict \in Verdicts
        BY <1>t DEF Opinions
      <4> QED
        BY <4>1, <2>3, <2>6 DEF Covers, Severity, Verdicts
    <3>3. Opinion("risk", "ESCALATE").verdict = "ESCALATE"
      BY DEF Opinion
    <3>4. Covers(verdict, opinions)'
      BY <3>1, <3>2, RiskIsExempt
    <3>5. Voiced(verdict, opinions)'
      BY <3>1, <3>3, Zenon DEF Voiced
    <3> QED
      BY <2>2, <3>1, <3>4, <3>5, Unfinished
  <2>7. CASE highRisk /\ verdict # "APPROVE"
    <3>1. verdict' = verdict /\ opinions' = opinions \cup {Opinion("risk", "ESCALATE")}
      BY <1>6, <2>7, Zenon DEF ClampRisk
    <3>2. Covers(verdict, opinions)' /\ Voiced(verdict, opinions)'
      BY <3>1, <2>3, RiskIsExempt DEF Voiced
    <3> QED
      BY <2>2, <2>7, <3>1, <3>2, Unfinished
  <2> QED
    BY <2>5, <2>6, <2>7
<1>7. CASE ConsultExtension
  <2> DEFINE name == Extensions[asked + 1]
  <2>1. stage = "extensions" /\ stage' = stage /\ highRisk' = highRisk
    BY <1>7, Zenon DEF ConsultExtension
  <2>2. stage' \in Stages \ {"engines", "done"} /\ stage \in Scored
    BY <2>1 DEF Stages, Scored
  <2>3. Covers(verdict, opinions) /\ Voiced(verdict, opinions)
    BY <2>1, <1>s, <1>v
  <2>4. CASE UNCHANGED <<verdict, opinions>>
    BY <2>1, <2>2, <2>3, <2>4, <1>r, Unfinished, Zenon
  <2>5. ASSUME NEW w \in Verdicts,
               verdict' = Narrower(verdict, w),
               opinions' = opinions \cup {Opinion(name, w)}
        PROVE  IInv'
    <3>1. Covers(verdict, opinions)' /\ Voiced(verdict, opinions)'
      BY <2>3, <2>5, <1>t, NarrowCovers, NarrowVoiced
    <3>2. highRisk' => verdict' # "APPROVE"
      BY <2>1, <2>2, <2>5, <1>r, <1>t, NotApproved
    <3> QED
      BY <2>2, <3>1, <3>2, Unfinished
  <2>6. \/ UNCHANGED <<verdict, opinions>>
        \/ \E w \in Verdicts : /\ verdict' = Narrower(verdict, w)
                               /\ opinions' = opinions \cup {Opinion(name, w)}
    BY <1>7, Zenon DEF ConsultExtension
  <2> QED
    BY <2>4, <2>5, <2>6, Zenon
<1>8. CASE ExtensionsDone
  <2>1. /\ stage = "extensions" /\ stage' = "freeze"
        /\ UNCHANGED <<verdict, opinions, highRisk>>
    BY <1>8, Zenon DEF ExtensionsDone
  <2>2. stage' \in Stages \ {"engines", "done"} /\ stage \in Scored
    BY <2>1 DEF Stages, Scored
  <2>3. Covers(verdict, opinions) /\ Voiced(verdict, opinions)
    BY <2>1, <1>s, <1>v
  <2> QED
    BY <2>1, <2>2, <2>3, <1>r, Unfinished, Zenon
<1>9. CASE ApplyFreeze
  <2>1. stage = "freeze" /\ stage' = "entry" /\ highRisk' = highRisk
    BY <1>9, Zenon DEF ApplyFreeze
  <2>2. stage' \in Stages \ {"engines", "done"} /\ stage \in Scored
    BY <2>1 DEF Stages, Scored
  <2>3. Covers(verdict, opinions) /\ Voiced(verdict, opinions)
    BY <2>1, <1>s, <1>v
  <2>4. \/ UNCHANGED <<verdict, opinions>>
        \/ verdict' = "REJECT" /\ opinions' = opinions \cup {Opinion("killswitch", "REJECT")}
    BY <1>9, Zenon DEF ApplyFreeze
  <2>5. Covers(verdict, opinions)' /\ Voiced(verdict, opinions)'
    BY <2>3, <2>4, <1>t, RejectStands
  <2>6. highRisk' => verdict' # "APPROVE"
    BY <2>1, <2>2, <2>4, <1>r
  <2> QED
    BY <2>2, <2>5, <2>6, Unfinished
<1>10. CASE Decide
  <2>1. /\ stage = "entry" /\ stage' = "done" /\ final' = verdict
        /\ UNCHANGED <<verdict, opinions, highRisk>>
    BY <1>10, Zenon DEF Decide
  <2>2. Covers(verdict, opinions) /\ Voiced(verdict, opinions)
    BY <2>1, <1>s, <1>v
  <2>3. highRisk => verdict # "APPROVE"
    BY <2>1, <1>r DEF Scored
  <2> QED
    BY <2>1, <2>2, <2>3, Zenon DEF IInv, Standing, NoControlOverruled, Covers, Voiced
<1>11. CASE RefuseReplay
  <2>1. /\ stage' = "done" /\ verdict' = "REJECT" /\ final' = "REJECT"
        /\ opinions' = opinions \cup {Opinion("authorize", "REJECT")}
    BY <1>11, Zenon DEF RefuseReplay
  <2>2. Covers("REJECT", opinions') /\ Voiced("REJECT", opinions')
    BY <2>1, <1>t, RejectStands
  <2>3. "REJECT" # "APPROVE"
    OBVIOUS
  <2> QED
    BY <2>1, <2>2, <2>3, Zenon DEF IInv, Standing, NoControlOverruled, Covers, Voiced
<1>12. CASE ConsultAdvisor
  <2>1. /\ stage = "entry" /\ stage' = "done"
        /\ UNCHANGED <<verdict, highRisk>>
    BY <1>12, Zenon DEF ConsultAdvisor
  <2>2. Covers(verdict, opinions) /\ Voiced(verdict, opinions)
    BY <2>1, <1>s, <1>v
  <2>3. highRisk => verdict # "APPROVE"
    BY <2>1, <1>r DEF Scored
  <2>4. PICK recommended \in Verdicts, injection \in BOOLEAN :
          LET heard == IF injection THEN {recommended, "REJECT"} ELSE {recommended}
              advised == Narrower(verdict, recommended)
          IN  /\ final' = IF injection THEN Narrower(advised, "REJECT") ELSE advised
              /\ opinions' = opinions \cup {Opinion("advisor", v) : v \in heard}
    BY <1>12, Zenon DEF ConsultAdvisor
  <2>5. /\ Narrower(verdict, recommended) \in Verdicts
        /\ Covers(Narrower(verdict, recommended), opinions \cup {Opinion("advisor", recommended)})
        /\ Voiced(Narrower(verdict, recommended), opinions \cup {Opinion("advisor", recommended)})
    BY <2>2, <1>t, NarrowCovers, NarrowVoiced, NarrowerBounds
  <2>6. Covers(final', opinions') /\ Voiced(final', opinions')
    <3>1. CASE ~injection
      <4>1. /\ final' = Narrower(verdict, recommended)
            /\ opinions' = opinions \cup {Opinion("advisor", recommended)}
        BY <2>4, <3>1
      <4> QED
        BY <4>1, <2>5
    <3>2. CASE injection
      <4> DEFINE S == opinions \cup {Opinion("advisor", recommended)}
      <4>1. opinions' = S \cup {Opinion("advisor", "REJECT")}
        BY <2>4, <3>2
      <4>2. final' = Narrower(Narrower(verdict, recommended), "REJECT")
        BY <2>4, <3>2, Zenon
      <4>3. final' = "REJECT"
        BY <4>2, <2>5 DEF Narrower, Severity, Verdicts
      <4>4. S \in SUBSET Opinions
        BY <1>t, ControlNames DEF Opinions, Opinion
      <4> QED
        BY <4>1, <4>3, <4>4, RejectStands
    <3> QED
      BY <3>1, <3>2
  <2>7. highRisk => final' # "APPROVE"
    BY <2>3, <2>4, <2>5, <1>t, NotApproved DEF Verdicts
  <2> QED
    BY <2>1, <2>3, <2>6, <2>7, Zenon DEF IInv, Standing, NoControlOverruled, Covers, Voiced
<1>13. CASE UNCHANGED vars
  BY <1>13, Zenon DEF vars, IInv, Standing, NoControlOverruled
<1> QED
  BY <1>1, <1>2, <1>3, <1>4, <1>5, <1>6, <1>7, <1>8, <1>9, <1>10, <1>11, <1>12, <1>13
     DEF Next

\* No control is overruled, for any list of registered engines: nothing that was asked
\* for after a control spoke undoes what it asked for.
THEOREM RuleEngineNoControlOverruled == Spec => []NoControlOverruled
<1>1. Init => IInv /\ TypeOK
  BY InitStanding, InitType
<1>2. IInv /\ TypeOK /\ [Next]_vars => (IInv /\ TypeOK)'
  BY StepStanding, StepType
<1>3. IInv => NoControlOverruled
  BY DEF IInv
<1> QED
  BY <1>1, <1>2, <1>3, PTL DEF Spec
=============================================================================

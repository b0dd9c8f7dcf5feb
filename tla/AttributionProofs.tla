------------------------- MODULE AttributionProofs -------------------------
(***************************************************************************)
(* Who a decision is attributed to, for any list of registered             *)
(* engines: an argument about the order of the reasons.                    *)
(***************************************************************************)
EXTENDS RuleEngineProofs

-----------------------------------------------------------------------------
(***************************************************************************)
(* Clamps in a list of reasons.                                            *)
(***************************************************************************)

\* The last clamp in the list carries this code.
EndsWith(rs, code) ==
    \E i \in Clamps(rs) : rs[i].code = code /\ \A j \in Clamps(rs) : j <= i

NoSanction(rs) == \A i \in Clamps(rs) : rs[i].code # "clamped_by_sanction"

LEMMA SanctionCode ==
    ASSUME NEW code
    PROVE  OriginOf(code) = "sanctions" <=> code = "clamped_by_sanction"
BY DEF OriginOf, ClampOrigin

\* record._deciding_engine reads the last clamp.
LEMMA EndDecides ==
    ASSUME NEW rs \in Seq(Reasons), NEW code, EndsWith(rs, code), NEW ok, NEW risky
    PROVE  DecidingEngine(rs, ok, risky) = OriginOf(code)
<1>1. PICK i \in Clamps(rs) : rs[i].code = code /\ \A j \in Clamps(rs) : j <= i
  BY DEF EndsWith
<1>2. Clamps(rs) \in SUBSET (1..Len(rs)) /\ Len(rs) \in Nat
  BY DEF Clamps
<1>3. /\ LastOf(Clamps(rs)) \in Clamps(rs)
      /\ \A j \in Clamps(rs) : j <= LastOf(Clamps(rs))
  BY <1>1, <1>2, LastOfIsLast
<1>4. LastOf(Clamps(rs)) = i
  BY <1>1, <1>2, <1>3
<1> QED
  BY <1>1, <1>4 DEF DecidingEngine

\* What is appended leaves what stands, and counts from there.
LEMMA ClampsAppended ==
    ASSUME NEW rs \in Seq(Reasons), NEW s \in Seq(Reasons)
    PROVE  /\ \A i \in Clamps(rs \o s) :
                 \/ i \in Clamps(rs) /\ (rs \o s)[i] = rs[i]
                 \/ i > Len(rs) /\ i - Len(rs) \in Clamps(s) /\ (rs \o s)[i] = s[i - Len(rs)]
           /\ \A i \in Clamps(rs) : i \in Clamps(rs \o s) /\ (rs \o s)[i] = rs[i]
<1> DEFINE t == rs \o s
<1>1. /\ t \in Seq(Reasons) /\ Len(t) = Len(rs) + Len(s)
      /\ \A i \in 1..(Len(rs) + Len(s)) :
            t[i] = IF i <= Len(rs) THEN rs[i] ELSE s[i - Len(rs)]
  BY ConcatProperties
<1>2. /\ DOMAIN rs = 1..Len(rs) /\ DOMAIN s = 1..Len(s) /\ DOMAIN t = 1..Len(t)
      /\ Len(rs) \in Nat /\ Len(s) \in Nat
  BY <1>1, LenProperties
<1> HIDE DEF t
<1>3. ASSUME NEW i \in Clamps(t)
      PROVE  \/ i \in Clamps(rs) /\ t[i] = rs[i]
             \/ i > Len(rs) /\ i - Len(rs) \in Clamps(s) /\ t[i] = s[i - Len(rs)]
  <2>1. i \in 1..(Len(rs) + Len(s)) /\ t[i].source = "authorize" /\ t[i].verdict # None
    BY <1>1, <1>2 DEF Clamps
  <2>2. CASE i <= Len(rs)
    BY <1>1, <1>2, <2>1, <2>2 DEF Clamps
  <2>3. CASE i > Len(rs)
    BY <1>1, <1>2, <2>1, <2>3 DEF Clamps
  <2> QED
    BY <1>2, <2>1, <2>2, <2>3
<1>4. ASSUME NEW i \in Clamps(rs) PROVE i \in Clamps(t) /\ t[i] = rs[i]
  BY <1>1, <1>2 DEF Clamps
<1> QED
  BY <1>3, <1>4 DEF t

\* A list without clamps changes nothing of the sort.
LEMMA MuteKeepsEnd ==
    ASSUME NEW rs \in Seq(Reasons), NEW s \in Seq(Reasons), Clamps(s) = {},
           NEW code, EndsWith(rs, code)
    PROVE  EndsWith(rs \o s, code)
BY ClampsAppended DEF EndsWith

LEMMA NoSanctionKept ==
    ASSUME NEW rs \in Seq(Reasons), NEW s \in Seq(Reasons), NoSanction(rs), NoSanction(s)
    PROVE  NoSanction(rs \o s)
<1> SUFFICES ASSUME NEW i \in Clamps(rs \o s)
             PROVE  (rs \o s)[i].code # "clamped_by_sanction"
  BY DEF NoSanction
<1>1. CASE i \in Clamps(rs) /\ (rs \o s)[i] = rs[i]
  BY <1>1 DEF NoSanction
<1>2. CASE i - Len(rs) \in Clamps(s) /\ (rs \o s)[i] = s[i - Len(rs)]
  BY <1>2 DEF NoSanction
<1> QED
  BY <1>1, <1>2, ClampsAppended

\* One clamp appended is the last one.
LEMMA ClampEnds ==
    ASSUME NEW rs \in Seq(Reasons), NEW c \in Reasons,
           c.source = "authorize", c.verdict # None
    PROVE  EndsWith(Append(rs, c), c.code)
<1> DEFINE t == Append(rs, c)
<1>1. /\ t \in Seq(Reasons) /\ Len(t) = Len(rs) + 1 /\ t[Len(rs) + 1] = c
      /\ Len(rs) \in Nat /\ DOMAIN t = 1..(Len(rs) + 1)
  OBVIOUS
<1> HIDE DEF t
<1>2. Len(rs) + 1 \in Clamps(t)
  BY <1>1 DEF Clamps
<1>3. \A j \in Clamps(t) : j <= Len(rs) + 1
  BY <1>1 DEF Clamps
<1> QED
  BY <1>1, <1>2, <1>3 DEF EndsWith, t

\* The freeze is one more entry; what stood behind it moves up by one.
LEMMA FreezeEntries ==
    ASSUME NEW rs \in Seq(Reasons)
    PROVE  /\ WithFreeze(rs) \in Seq(Reasons)
           /\ Len(WithFreeze(rs)) = Len(rs) + 1
           /\ \A j \in 1..(Len(rs) + 1) :
                 WithFreeze(rs)[j] =
                    IF j < FreezeAt(rs) THEN rs[j]
                    ELSE IF j = FreezeAt(rs) THEN Reason("authorize", "frozen", "REJECT")
                    ELSE rs[j - 1]
<1> DEFINE k == FreezeAt(rs)
           one == <<Reason("authorize", "frozen", "REJECT")>>
           before == SubSeq(rs, 1, k - 1)
           after == SubSeq(rs, k, Len(rs))
<1>1. k \in 1..(Len(rs) + 1) /\ Len(rs) \in Nat
  BY FreezeAtType
<1> HIDE DEF k
<1>2. \A i \in 1..Len(rs) : rs[i] \in Reasons
  BY ElementOfSeq
<1>3. /\ before \in Seq(Reasons) /\ Len(before) = k - 1
      /\ \A i \in 1..(k - 1) : before[i] = rs[i]
  BY <1>1, <1>2, SubSeqProperties
<1>4. /\ after \in Seq(Reasons) /\ Len(after) = Len(rs) - k + 1
      /\ \A i \in 1..(Len(rs) - k + 1) : after[i] = rs[k + i - 1]
  BY <1>1, <1>2, SubSeqProperties
<1>5. /\ one \in Seq(Reasons) /\ Len(one) = 1
      /\ one[1] = Reason("authorize", "frozen", "REJECT")
  BY FrozenReasonType
<1> HIDE DEF before, after, one
<1>6. /\ before \o one \in Seq(Reasons) /\ Len(before \o one) = k
      /\ \A i \in 1..k : (before \o one)[i] =
            IF i <= k - 1 THEN before[i] ELSE one[i - (k - 1)]
  <2>1. /\ before \o one \in Seq(Reasons)
        /\ Len(before \o one) = Len(before) + Len(one)
        /\ \A i \in 1..(Len(before) + Len(one)) : (before \o one)[i] =
              IF i <= Len(before) THEN before[i] ELSE one[i - Len(before)]
    BY <1>3, <1>5, ConcatProperties
  <2>2. Len(before) + Len(one) = k
    BY <1>1, <1>3, <1>5
  <2> QED
    BY <1>3, <2>1, <2>2
<1> DEFINE front == before \o one
<1> HIDE DEF front
<1>7. /\ front \in Seq(Reasons) /\ Len(front) = k
      /\ \A i \in 1..k : front[i] = IF i < k THEN rs[i]
                                    ELSE Reason("authorize", "frozen", "REJECT")
  <2>1. ASSUME NEW i \in 1..k, i < k PROVE front[i] = rs[i]
    BY <1>1, <1>3, <1>6, <2>1 DEF front
  <2>2. front[k] = Reason("authorize", "frozen", "REJECT")
    <3>1. k \in 1..k /\ ~(k <= k - 1) /\ k - (k - 1) = 1
      BY <1>1
    <3> QED
      BY <1>5, <1>6, <3>1 DEF front
  <2>3. front \in Seq(Reasons) /\ Len(front) = k
    BY <1>6 DEF front
  <2> QED
    BY <1>1, <2>1, <2>2, <2>3
<1>8. /\ front \o after \in Seq(Reasons) /\ Len(front \o after) = Len(rs) + 1
      /\ \A i \in 1..(Len(rs) + 1) : (front \o after)[i] =
            IF i <= k THEN front[i] ELSE after[i - k]
  <2>1. /\ front \o after \in Seq(Reasons)
        /\ Len(front \o after) = Len(front) + Len(after)
        /\ \A i \in 1..(Len(front) + Len(after)) : (front \o after)[i] =
              IF i <= Len(front) THEN front[i] ELSE after[i - Len(front)]
    BY <1>4, <1>7, ConcatProperties
  <2>2. Len(front) + Len(after) = Len(rs) + 1 /\ Len(front) = k
    BY <1>1, <1>4, <1>7
  <2> QED
    BY <2>1, <2>2
<1>9. WithFreeze(rs) = front \o after
  BY DEF WithFreeze, front, before, after, one, k
<1>10. ASSUME NEW j \in 1..(Len(rs) + 1)
       PROVE  (front \o after)[j] =
                 IF j < k THEN rs[j]
                 ELSE IF j = k THEN Reason("authorize", "frozen", "REJECT")
                 ELSE rs[j - 1]
  <2>1. CASE j < k
    <3>1. j \in 1..k /\ j <= k
      BY <1>1, <2>1
    <3> QED
      BY <1>7, <1>8, <2>1, <3>1
  <2>2. CASE j = k
    <3>1. k \in 1..k /\ k <= k /\ ~(k < k)
      BY <1>1
    <3> QED
      BY <1>7, <1>8, <2>2, <3>1
  <2>3. CASE j > k
    <3>1. ~(j <= k) /\ ~(j < k) /\ j # k
      BY <1>1, <2>3
    <3>2. j - k \in 1..(Len(rs) - k + 1) /\ k + (j - k) - 1 = j - 1
      BY <1>1, <2>3
    <3>3. after[j - k] = rs[j - 1]
      BY <1>4, <3>2
    <3> QED
      BY <1>8, <3>1, <3>3
  <2>4. j < k \/ j = k \/ j > k
    BY <1>1
  <2> QED
    BY <2>1, <2>2, <2>3, <2>4, Zenon
<1> QED
  BY <1>8, <1>9, <1>10, Zenon DEF k

-----------------------------------------------------------------------------
(***************************************************************************)
(* The inductive invariant.                                                *)
(***************************************************************************)
Spoke(control) == \E o \in opinions : o.control = control

\* Once sanctions or the kill switch has spoken the verdict is REJECT, so no clamp
\* narrows it further, and the last clamp of the list is theirs; sanctions comes last
\* of the two.  Without sanctions there is no clamp in their name.
Barred ==
    /\ Spoke("sanctions") => verdict = "REJECT" /\ EndsWith(reasons, "clamped_by_sanction")
    /\ ~Spoke("sanctions") => NoSanction(reasons)
    /\ (Spoke("killswitch") /\ ~Spoke("sanctions"))
          => verdict = "REJECT" /\ EndsWith(reasons, "frozen")

\* A replay, recorded last of all, ends the argument; and an advisor cannot narrow
\* a REJECT.
Upheld ==
    /\ Spoke("authorize") \/ Barred
    /\ (stage = "done" /\ verdict = "REJECT") => final = "REJECT"

\* A control that is neither of the two, and narrows the way every control does.
LEMMA OthersKeepBarred ==
    ASSUME TypeOK, Barred, NEW s \in Seq(Reasons), reasons' = reasons \o s, NoSanction(s),
           verdict = "REJECT" => Clamps(s) = {} /\ verdict' = "REJECT",
           Spoke("sanctions")' <=> Spoke("sanctions"),
           Spoke("killswitch")' <=> Spoke("killswitch")
    PROVE  Barred'
<1>1. reasons \in Seq(Reasons)
  BY DEF TypeOK
<1>2. CASE Spoke("sanctions")
  <2>1. EndsWith(reasons \o s, "clamped_by_sanction")
    BY <1>1, <1>2, MuteKeepsEnd DEF Barred
  <2> QED
    BY <1>2, <2>1 DEF Barred
<1>3. CASE ~Spoke("sanctions")
  <2>1. NoSanction(reasons')
    BY <1>1, <1>3, NoSanctionKept DEF Barred
  <2>2. CASE Spoke("killswitch")
    <3>1. EndsWith(reasons \o s, "frozen")
      BY <1>1, <1>3, <2>2, MuteKeepsEnd DEF Barred
    <3> QED
      BY <1>3, <2>1, <2>2, <3>1 DEF Barred
  <2>3. CASE ~Spoke("killswitch")
    BY <1>3, <2>1, <2>3 DEF Barred
  <2> QED
    BY <2>2, <2>3
<1> QED
  BY <1>2, <1>3

LEMMA SameBarred ==
    ASSUME Barred, UNCHANGED <<verdict, reasons, opinions>>
    PROVE  Barred'
BY DEF Barred, Spoke

\* A new opinion is that control's, and nobody is unsaid.
LEMMA OneSpeaks ==
    ASSUME NEW c, NEW v, opinions' = opinions \cup {Opinion(c, v)}
    PROVE  /\ \A d : d # c => (Spoke(d)' <=> Spoke(d))
           /\ Spoke(c)'
<1>1. Opinion(c, v).control = c
  BY DEF Opinion
<1>2. Opinion(c, v) \in opinions' /\ opinions \subseteq opinions'
  OBVIOUS
<1>3. \A o \in opinions' : o \in opinions \/ o.control = c
  BY <1>1
<1>4. Spoke(c)'
  BY <1>1, <1>2, Zenon DEF Spoke
<1>5. ASSUME NEW d, d # c PROVE Spoke(d)' <=> Spoke(d)
  BY <1>2, <1>3, <1>5, Zenon DEF Spoke
<1> QED
  BY <1>4, <1>5

\* A clamp narrows: of a REJECT it leaves no trace.
LEMMA ClampedMute ==
    ASSUME NEW v \in Verdicts, NEW w \in Verdicts, NEW code
    PROVE  /\ v = "REJECT" => Clamped(v, w, code) = <<>> /\ Narrower(v, w) = "REJECT"
           /\ code # "clamped_by_sanction" => NoSanction(Clamped(v, w, code))
<1>1. v = "REJECT" => Narrower(v, w) = v
  BY DEF Narrower, Severity, Verdicts
<1>2. code # "clamped_by_sanction" => NoSanction(Clamped(v, w, code))
  BY DEF Clamped, NoSanction, Clamps, Reason
<1> QED
  BY <1>1, <1>2 DEF Clamped

LEMMA NothingMute == Clamps(<<>>) = {} /\ NoSanction(<<>>)
BY DEF Clamps, NoSanction

LEMMA OneMute ==
    ASSUME NEW r \in Reasons, r.source # "authorize" \/ r.verdict = None
    PROVE  <<r>> \in Seq(Reasons) /\ Clamps(<<r>>) = {} /\ NoSanction(<<r>>)
BY DEF Clamps, NoSanction

LEMMA DeclaredBarred ==
    ASSUME TypeOK, Barred, NEW control \in {"identity", "intent"},
           NEW code \in ReasonCodes \ {"clamped_by_sanction"}, NEW next,
           ConsultDeclared(control, code, next)
    PROVE  Barred'
<1>1. PICK found \in Findings :
        IF found = None
        THEN UNCHANGED <<verdict, reasons, opinions>>
        ELSE /\ verdict' = Narrower(verdict, found)
             /\ reasons' = reasons \o <<Reason(control, "finding", found)>>
                                   \o Clamped(verdict, found, code)
             /\ opinions' = opinions \cup {Opinion(control, found)}
  BY Zenon DEF ConsultDeclared
<1>2. CASE found = None
  BY <1>1, <1>2, SameBarred
<1>3. CASE found # None
  <2> DEFINE one == <<Reason(control, "finding", found)>>
             s == one \o Clamped(verdict, found, code)
  <2>1. found \in Verdicts /\ verdict \in Verdicts /\ reasons \in Seq(Reasons)
    BY <1>3 DEF Findings, TypeOK
  <2>2. Reason(control, "finding", found) \in Reasons
    BY ReasonType, ControlNames DEF ReasonCodes
  <2>3. Reason(control, "finding", found).source # "authorize"
    BY DEF Reason
  <2>4. one \in Seq(Reasons) /\ Clamps(one) = {} /\ NoSanction(one)
    BY <2>2, <2>3, OneMute
  <2>5. Clamped(verdict, found, code) \in Seq(Reasons)
    BY <2>1, ClampedType
  <2> HIDE DEF one
  <2>6. s \in Seq(Reasons) /\ NoSanction(s)
    BY <2>1, <2>4, <2>5, ClampedMute, NoSanctionKept, TwoTyped
  <2>7. verdict = "REJECT" => Clamps(s) = {} /\ verdict' = "REJECT"
    <3> SUFFICES ASSUME verdict = "REJECT" PROVE Clamps(s) = {} /\ verdict' = "REJECT"
      OBVIOUS
    <3>1. Clamped(verdict, found, code) = <<>> /\ Narrower(verdict, found) = "REJECT"
      BY <2>1, ClampedMute
    <3>2. s = one
      BY <2>4, <3>1, ConcatEmptySeq
    <3> QED
      BY <1>1, <1>3, <2>4, <3>1, <3>2
  <2>8. reasons' = reasons \o s
    <3>1. reasons' = (reasons \o one) \o Clamped(verdict, found, code)
      BY <1>1, <1>3 DEF one
    <3> QED
      BY <2>1, <2>4, <2>5, <3>1, ConcatAssociative
  <2>9. /\ Spoke("sanctions")' <=> Spoke("sanctions")
        /\ Spoke("killswitch")' <=> Spoke("killswitch")
    BY <1>1, <1>3, OneSpeaks
  <2> HIDE DEF s
  <2> QED
    BY <2>6, <2>7, <2>8, <2>9, OthersKeepBarred
<1> QED
  BY <1>2, <1>3

LEMMA TreasuryBarred ==
    ASSUME TypeOK, Barred, ClampTreasury
    PROVE  Barred'
<1>1. CASE budgetOk
  BY <1>1, SameBarred DEF ClampTreasury
<1>2. CASE ~budgetOk
  <2> DEFINE s == Clamped(verdict, "REVIEW", "clamped_by_treasury")
  <2>1. /\ verdict' = Narrower(verdict, "REVIEW")
        /\ reasons' = reasons \o s
        /\ opinions' = opinions \cup {Opinion("treasury", "REVIEW")}
    BY <1>2 DEF ClampTreasury
  <2>2. verdict \in Verdicts /\ "REVIEW" \in Verdicts
    BY DEF TypeOK, Verdicts
  <2>3. s \in Seq(Reasons)
    BY <2>2, ClampedType DEF ReasonCodes, ClampOrigin
  <2>4. /\ NoSanction(s)
        /\ verdict = "REJECT" => s = <<>> /\ verdict' = "REJECT"
    BY <2>1, <2>2, ClampedMute
  <2>5. /\ Spoke("sanctions")' <=> Spoke("sanctions")
        /\ Spoke("killswitch")' <=> Spoke("killswitch")
    <3>1. opinions' = opinions \cup {Opinion("treasury", "REVIEW")}
      BY <2>1
    <3> QED
      BY <3>1, OneSpeaks
  <2> HIDE DEF s
  <2> QED
    BY <2>1, <2>3, <2>4, <2>5, NothingMute, OthersKeepBarred
<1> QED
  BY <1>1, <1>2

LEMMA AppendOne ==
    ASSUME NEW rs \in Seq(Reasons), NEW r \in Reasons
    PROVE  Append(rs, r) = rs \o <<r>> /\ <<r>> \in Seq(Reasons)
OBVIOUS

LEMMA SanctionsBarred ==
    ASSUME TypeOK, Barred, ClampSanctions
    PROVE  Barred'
<1>1. CASE UNCHANGED <<verdict, reasons, opinions>>
  BY <1>1, SameBarred
<1>2. ASSUME verdict' = "REJECT",
             reasons' = Append(reasons, Reason("authorize", "clamped_by_sanction", "REJECT")),
             opinions' = opinions \cup {Opinion("sanctions", "REJECT")}
      PROVE  Barred'
  <2> DEFINE c == Reason("authorize", "clamped_by_sanction", "REJECT")
  <2>1. c \in Reasons
    BY ReasonType, ControlNames DEF Findings, Verdicts, ReasonCodes, ClampOrigin
  <2>2. c.source = "authorize" /\ c.verdict # None /\ c.code = "clamped_by_sanction"
    BY DEF Reason, None
  <2>3. reasons' = Append(reasons, c) /\ reasons \in Seq(Reasons)
    BY <1>2 DEF TypeOK
  <2> HIDE DEF c
  <2>4. EndsWith(reasons', "clamped_by_sanction")
    BY <2>1, <2>2, <2>3, ClampEnds
  <2>5. Spoke("sanctions")'
    BY <1>2, OneSpeaks
  <2> QED
    BY <1>2, <2>4, <2>5 DEF Barred
<1> QED
  BY <1>1, <1>2 DEF ClampSanctions

LEMMA RiskBarred ==
    ASSUME TypeOK, Barred, ClampRisk
    PROVE  Barred'
<1>1. /\ Spoke("sanctions")' <=> Spoke("sanctions")
      /\ Spoke("killswitch")' <=> Spoke("killswitch")
  <2>1. CASE highRisk
    <3>1. opinions' = opinions \cup {Opinion("risk", "ESCALATE")}
      BY <2>1 DEF ClampRisk
    <3> QED
      BY <3>1, OneSpeaks
  <2>2. CASE ~highRisk
    <3>1. opinions' = opinions
      BY <2>2 DEF ClampRisk
    <3> QED
      BY <3>1 DEF Spoke
  <2> QED
    BY <2>1, <2>2
<1>2. reasons \in Seq(Reasons)
  BY DEF TypeOK
<1>3. CASE highRisk /\ verdict = "APPROVE"
  <2> DEFINE c == Reason("authorize", "clamped_by_risk", "ESCALATE")
  <2>1. c \in Reasons
    BY ReasonType, ControlNames DEF Findings, Verdicts, ReasonCodes, ClampOrigin
  <2>2. reasons' = reasons \o <<c>> /\ <<c>> \in Seq(Reasons)
    BY <1>2, <1>3, <2>1, AppendOne DEF ClampRisk
  <2>3. NoSanction(<<c>>)
    BY DEF NoSanction, Clamps, Reason
  <2> HIDE DEF c
  <2> QED
    BY <1>1, <1>3, <2>2, <2>3, OthersKeepBarred
<1>4. CASE ~(highRisk /\ verdict = "APPROVE")
  <2>1. verdict' = verdict /\ reasons' = reasons
    BY <1>4 DEF ClampRisk
  <2>2. reasons' = reasons \o <<>> /\ <<>> \in Seq(Reasons)
    BY <1>2, <2>1, ConcatEmptySeq, EmptySeq
  <2> QED
    BY <1>1, <2>1, <2>2, NothingMute, OthersKeepBarred
<1> QED
  BY <1>3, <1>4

LEMMA ExtensionBarred ==
    ASSUME TypeOK, Barred, ConsultExtension
    PROVE  Barred'
<1> DEFINE name == Extensions[asked + 1]
<1>1. asked + 1 \in 1..Len(Extensions) /\ DOMAIN Extensions = 1..Len(Extensions)
  BY ExtensionsAssumption, EnginesCounted DEF ExtensionsAssumption, ConsultExtension, TypeOK
<1>2. /\ name \in Controls
      /\ name \notin {"authorize", "sanctions", "killswitch"}
  BY <1>1, ExtensionsAssumption, ControlNames DEF ExtensionsAssumption, Reserved
<1>3. reasons \in Seq(Reasons) /\ verdict \in Verdicts
  BY DEF TypeOK
<1>4. CASE UNCHANGED <<verdict, reasons, opinions>>
  BY <1>4, SameBarred
<1>5. ASSUME reasons' = Append(reasons, Reason(name, "not_measured", None)),
             UNCHANGED <<verdict, opinions>>
      PROVE  Barred'
  <2> DEFINE r == Reason(name, "not_measured", None)
  <2>1. r \in Reasons /\ r.verdict = None
    BY <1>2, ReasonType DEF Findings, ReasonCodes, Reason
  <2>2. reasons' = reasons \o <<r>>
    BY <1>3, <1>5, <2>1, AppendOne
  <2>3. <<r>> \in Seq(Reasons) /\ Clamps(<<r>>) = {} /\ NoSanction(<<r>>)
    BY <2>1, OneMute
  <2>4. /\ Spoke("sanctions")' <=> Spoke("sanctions")
        /\ Spoke("killswitch")' <=> Spoke("killswitch")
    BY <1>5 DEF Spoke
  <2> HIDE DEF r
  <2> QED
    BY <1>5, <2>2, <2>3, <2>4, OthersKeepBarred
<1>6. ASSUME NEW proposed \in Verdicts,
             verdict' = Narrower(verdict, proposed),
             reasons' = reasons \o ExtensionReason(name, verdict, proposed),
             opinions' = opinions \cup {Opinion(name, proposed)}
      PROVE  Barred'
  <2> DEFINE s == ExtensionReason(name, verdict, proposed)
  <2>1. s \in Seq(Reasons)
    BY <1>1, <1>3, ExtensionReasonType
  <2>2. Clamps(s) = {} /\ NoSanction(s)
    BY <1>2 DEF Clamps, NoSanction, ExtensionReason, Reason
  <2>3. verdict = "REJECT" => verdict' = "REJECT"
    BY <1>6, ClampedMute, <1>3
  <2>4. /\ Spoke("sanctions")' <=> Spoke("sanctions")
        /\ Spoke("killswitch")' <=> Spoke("killswitch")
    BY <1>2, <1>6, OneSpeaks
  <2>5. reasons' = reasons \o s
    BY <1>6
  <2> HIDE DEF s
  <2> QED
    BY <2>1, <2>2, <2>3, <2>4, <2>5, OthersKeepBarred
<1> QED
  BY <1>4, <1>5, <1>6 DEF ConsultExtension

\* The two reasons a decision starts from are nobody's clamp.
LEMMA EnginesBarred ==
    ASSUME EvaluateEngines
    PROVE  Barred'
<1>1. PICK ok \in BOOLEAN, rule \in Verdicts :
        /\ reasons' = <<Reason("treasury",
                               IF ok THEN "within_all_envelopes" ELSE "envelope_exceeded",
                               IF ok THEN "APPROVE" ELSE "REJECT"),
                        Reason("policy", "rule", rule)>>
        /\ opinions' = {Opinion("policy", rule)}
  BY Zenon DEF EvaluateEngines
<1>2. \A i \in DOMAIN reasons' : reasons'[i].source # "authorize"
  BY <1>1 DEF Reason
<1>3. NoSanction(reasons')
  BY <1>2 DEF NoSanction, Clamps
<1>4. ~Spoke("sanctions")' /\ ~Spoke("killswitch")'
  <2>1. Opinion("policy", rule).control = "policy"
    BY DEF Opinion
  <2>2. \A o \in opinions' : o.control = "policy"
    BY <1>1, <2>1
  <2> QED
    BY <2>2 DEF Spoke
<1> QED
  BY <1>3, <1>4 DEF Barred

\* Where sanctions has spoken the freeze goes before its clamp, which stays last.
LEMMA FreezeBehindSanction ==
    ASSUME NEW rs \in Seq(Reasons), EndsWith(rs, "clamped_by_sanction")
    PROVE  EndsWith(WithFreeze(rs), "clamped_by_sanction")
<1> DEFINE t == WithFreeze(rs)
<1>1. PICK i \in Clamps(rs) : /\ rs[i].code = "clamped_by_sanction"
                             /\ \A j \in Clamps(rs) : j <= i
  BY DEF EndsWith
<1>2. Clamps(rs) \subseteq 1..Len(rs) /\ Len(rs) \in Nat
  BY DEF Clamps
<1>3. FreezeAt(rs) = i
  <2>1. i \in SanctionClamps(rs)
    BY <1>1, SanctionCode DEF SanctionClamps
  <2>2. SanctionClamps(rs) \subseteq Clamps(rs)
    BY DEF SanctionClamps
  <2>3. SanctionClamps(rs) \in SUBSET (1..Len(rs))
    BY <1>2, <2>2
  <2>4. LET k == LastOf(SanctionClamps(rs))
        IN  k \in SanctionClamps(rs) /\ \A j \in SanctionClamps(rs) : j <= k
    BY <1>2, <2>1, <2>3, LastOfIsLast
  <2>5. LastOf(SanctionClamps(rs)) = i
    BY <1>1, <1>2, <2>1, <2>2, <2>4
  <2> QED
    BY <2>1, <2>5 DEF FreezeAt
<1>4. /\ t \in Seq(Reasons) /\ Len(t) = Len(rs) + 1
      /\ \A j \in 1..(Len(rs) + 1) :
            t[j] = IF j < i THEN rs[j]
                   ELSE IF j = i THEN Reason("authorize", "frozen", "REJECT")
                   ELSE rs[j - 1]
  BY <1>3, FreezeEntries
<1>5. DOMAIN t = 1..(Len(rs) + 1) /\ DOMAIN rs = 1..Len(rs)
  BY <1>4
<1> HIDE DEF t
<1>6. i + 1 \in 1..(Len(rs) + 1) /\ t[i + 1] = rs[i]
  BY <1>1, <1>2, <1>4
<1>7. i + 1 \in Clamps(t) /\ t[i + 1].code = "clamped_by_sanction"
  BY <1>1, <1>5, <1>6 DEF Clamps
<1>8. ASSUME NEW j \in Clamps(t) PROVE j <= i + 1
  <2>1. j \in 1..(Len(rs) + 1) /\ t[j].source = "authorize" /\ t[j].verdict # None
    BY <1>5 DEF Clamps
  <2>2. CASE j > i + 1
    <3>1. t[j] = rs[j - 1] /\ j - 1 \in 1..Len(rs)
      BY <1>1, <1>2, <1>4, <2>1, <2>2
    <3>2. j - 1 \in Clamps(rs)
      BY <1>5, <2>1, <3>1 DEF Clamps
    <3> QED
      BY <1>1, <1>2, <2>1, <3>2
  <2> QED
    BY <1>1, <1>2, <2>1, <2>2
<1> QED
  BY <1>7, <1>8 DEF EndsWith, t

\* Without sanctions the freeze goes last.
LEMMA FreezeLast ==
    ASSUME NEW rs \in Seq(Reasons), NoSanction(rs)
    PROVE  EndsWith(WithFreeze(rs), "frozen") /\ NoSanction(WithFreeze(rs))
<1> DEFINE t == WithFreeze(rs)
           n == Len(rs) + 1
<1>1. FreezeAt(rs) = n
  BY SanctionCode DEF FreezeAt, SanctionClamps, NoSanction
<1>2. /\ t \in Seq(Reasons) /\ Len(t) = n
      /\ \A j \in 1..n : t[j] = IF j < n THEN rs[j]
                                ELSE IF j = n THEN Reason("authorize", "frozen", "REJECT")
                                ELSE rs[j - 1]
  BY <1>1, FreezeEntries
<1>3. /\ Len(rs) \in Nat /\ n \in 1..n
      /\ DOMAIN t = 1..n /\ DOMAIN rs = 1..Len(rs)
  BY <1>2
<1> HIDE DEF t
<1>4. t[n] = Reason("authorize", "frozen", "REJECT")
  BY <1>2, <1>3
<1>5. n \in Clamps(t) /\ t[n].code = "frozen"
  BY <1>3, <1>4 DEF Clamps, Reason, None
<1>6. \A j \in Clamps(t) : j \in 1..n /\ j <= n
  BY <1>3 DEF Clamps
<1>7. ASSUME NEW j \in Clamps(t) PROVE t[j].code # "clamped_by_sanction"
  <2>1. CASE j = n
    BY <1>5, <2>1
  <2>2. CASE j # n
    <3>1. t[j] = rs[j] /\ j \in 1..Len(rs)
      BY <1>2, <1>3, <1>6, <2>2
    <3>2. j \in Clamps(rs)
      BY <1>3, <3>1 DEF Clamps
    <3> QED
      BY <3>1, <3>2 DEF NoSanction
  <2> QED
    BY <2>1, <2>2
<1> QED
  BY <1>5, <1>6, <1>7 DEF EndsWith, NoSanction, t

LEMMA FreezeBarred ==
    ASSUME TypeOK, Barred, ApplyFreeze
    PROVE  Barred'
<1>1. CASE UNCHANGED <<verdict, reasons, opinions>>
  BY <1>1, SameBarred
<1>2. ASSUME verdict' = "REJECT",
             reasons' = WithFreeze(reasons),
             opinions' = opinions \cup {Opinion("killswitch", "REJECT")}
      PROVE  Barred'
  <2>1. /\ Spoke("sanctions")' <=> Spoke("sanctions")
        /\ Spoke("killswitch")'
    BY <1>2, OneSpeaks
  <2>2. reasons \in Seq(Reasons)
    BY DEF TypeOK
  <2>3. CASE Spoke("sanctions")
    <3>1. EndsWith(WithFreeze(reasons), "clamped_by_sanction")
      BY <2>2, <2>3, FreezeBehindSanction DEF Barred
    <3> QED
      BY <1>2, <2>1, <2>3, <3>1 DEF Barred
  <2>4. CASE ~Spoke("sanctions")
    <3>1. EndsWith(WithFreeze(reasons), "frozen") /\ NoSanction(WithFreeze(reasons))
      BY <2>2, <2>4, FreezeLast DEF Barred
    <3> QED
      BY <1>2, <2>1, <2>4, <3>1 DEF Barred
  <2> QED
    BY <2>3, <2>4
<1> QED
  BY <1>1, <1>2 DEF ApplyFreeze

\* A control other than the two that speaks and leaves the decision as it is.
LEMMA AdvisorBarred ==
    ASSUME TypeOK, Barred, ConsultAdvisor
    PROVE  Barred'
<1>1. PICK heard \in SUBSET Verdicts :
        opinions' = opinions \cup {Opinion("advisor", v) : v \in heard}
  <2>1. PICK recommended \in Verdicts, injection \in BOOLEAN :
          opinions' = opinions \cup
            {Opinion("advisor", v) :
               v \in IF injection THEN {recommended, "REJECT"} ELSE {recommended}}
    BY Zenon DEF ConsultAdvisor
  <2>2. (IF injection THEN {recommended, "REJECT"} ELSE {recommended}) \in SUBSET Verdicts
    BY DEF Verdicts
  <2> QED
    BY <2>1, <2>2, Zenon
<1>2. \A v : Opinion("advisor", v).control = "advisor"
  BY DEF Opinion
<1>3. \A o \in opinions' : o \in opinions \/ o.control = "advisor"
  BY <1>1, <1>2
<1>4. opinions \subseteq opinions'
  BY <1>1
<1>5. /\ Spoke("sanctions")' <=> Spoke("sanctions")
      /\ Spoke("killswitch")' <=> Spoke("killswitch")
  BY <1>3, <1>4 DEF Spoke
<1>6. verdict' = verdict /\ reasons' = reasons
  BY Zenon DEF ConsultAdvisor
<1> QED
  BY <1>5, <1>6 DEF Barred

-----------------------------------------------------------------------------
(***************************************************************************)
(* The invariant is inductive.                                             *)
(***************************************************************************)
LEMMA InitUpheld == Init => Upheld
<1> SUFFICES ASSUME Init PROVE Upheld
  OBVIOUS
<1>1. opinions = {} /\ reasons = <<>> /\ stage = "engines"
  BY DEF Init
<1>2. ~Spoke("sanctions") /\ ~Spoke("killswitch")
  BY <1>1 DEF Spoke
<1> QED
  BY <1>1, <1>2, NothingMute DEF Upheld, Barred

\* Every step but the first only adds to what was said.
LEMMA SaidIsKept ==
    ASSUME [Next]_vars, ~EvaluateEngines
    PROVE  opinions \subseteq opinions'
<1>1. CASE UNCHANGED vars
  BY <1>1 DEF vars
<1>2. CASE ClampIdentity \/ ClampIntent
  BY <1>2 DEF ClampIdentity, ClampIntent, ConsultDeclared
<1>3. CASE ClampTreasury \/ ClampSanctions \/ ClampRisk
  BY <1>3 DEF ClampTreasury, ClampSanctions, ClampRisk
<1>4. CASE ConsultExtension
  BY <1>4, Zenon DEF ConsultExtension
<1>5. CASE ExtensionsDone \/ ApplyFreeze \/ Decide
  BY <1>5 DEF ExtensionsDone, ApplyFreeze, Decide
<1>6. CASE RefuseReplay \/ ConsultAdvisor
  BY <1>6 DEF RefuseReplay, ConsultAdvisor
<1> QED
  BY <1>1, <1>2, <1>3, <1>4, <1>5, <1>6 DEF Next

\* A REJECT stays final: no advisor relaxes it.
LEMMA FinalReject ==
    ASSUME TypeOK, Upheld, [Next]_vars
    PROVE  (stage' = "done" /\ verdict' = "REJECT") => final' = "REJECT"
<1>1. CASE Decide
  BY <1>1 DEF Decide
<1>2. CASE RefuseReplay
  BY <1>2 DEF RefuseReplay
<1>3. CASE ConsultAdvisor
  <2>1. PICK recommended \in Verdicts, injection \in BOOLEAN :
          final' = IF injection THEN Narrower(Narrower(verdict, recommended), "REJECT")
                   ELSE Narrower(verdict, recommended)
    BY <1>3, Zenon DEF ConsultAdvisor
  <2>2. verdict' = verdict /\ "REJECT" \in Verdicts
    BY <1>3 DEF ConsultAdvisor, Verdicts
  <2>3. /\ Narrower("REJECT", recommended) = "REJECT"
        /\ Narrower("REJECT", "REJECT") = "REJECT"
    BY <2>2, ClampedMute
  <2> QED
    BY <2>1, <2>2, <2>3
<1>4. CASE UNCHANGED vars
  BY <1>4, Zenon DEF vars, Upheld
<1>5. CASE EvaluateEngines \/ ClampIdentity \/ ClampIntent \/ ClampTreasury \/ ClampSanctions
  BY <1>5 DEF EvaluateEngines, ClampIdentity, ClampIntent, ConsultDeclared, ClampTreasury,
              ClampSanctions
<1>6. CASE ClampRisk \/ ConsultExtension \/ ExtensionsDone \/ ApplyFreeze
  BY <1>6 DEF ClampRisk, ConsultExtension, ExtensionsDone, ApplyFreeze
<1> QED
  BY <1>1, <1>2, <1>3, <1>4, <1>5, <1>6 DEF Next

LEMMA StepUpheld == TypeOK /\ Upheld /\ [Next]_vars => Upheld'
<1> SUFFICES ASSUME TypeOK, Upheld, [Next]_vars PROVE Upheld'
  OBVIOUS
<1> SUFFICES Spoke("authorize")' \/ Barred'
  BY FinalReject DEF Upheld
<1>1. CASE EvaluateEngines
  BY <1>1, EnginesBarred
<1>2. CASE ~EvaluateEngines /\ Spoke("authorize")
  BY <1>2, SaidIsKept DEF Spoke
<1>3. CASE ~EvaluateEngines /\ Barred
  <2>1. CASE ClampIdentity
    BY <1>3, <2>1, DeclaredBarred DEF ClampIdentity, ReasonCodes, ClampOrigin
  <2>2. CASE ClampIntent
    BY <1>3, <2>2, DeclaredBarred DEF ClampIntent, ReasonCodes, ClampOrigin
  <2>3. CASE ClampTreasury
    BY <1>3, <2>3, TreasuryBarred
  <2>4. CASE ClampSanctions
    BY <1>3, <2>4, SanctionsBarred
  <2>5. CASE ClampRisk
    BY <1>3, <2>5, RiskBarred
  <2>6. CASE ConsultExtension
    BY <1>3, <2>6, ExtensionBarred
  <2>7. CASE ExtensionsDone \/ Decide \/ UNCHANGED vars
    <3>1. UNCHANGED <<verdict, reasons, opinions>>
      BY <2>7 DEF ExtensionsDone, Decide, vars
    <3> QED
      BY <1>3, <3>1, SameBarred
  <2>8. CASE ApplyFreeze
    BY <1>3, <2>8, FreezeBarred
  <2>9. CASE RefuseReplay
    <3>1. opinions' = opinions \cup {Opinion("authorize", "REJECT")}
      BY <2>9 DEF RefuseReplay
    <3> QED
      BY <3>1, OneSpeaks
  <2>10. CASE ConsultAdvisor
    BY <1>3, <2>10, AdvisorBarred
  <2> QED
    BY <1>3, <2>1, <2>2, <2>3, <2>4, <2>5, <2>6, <2>7, <2>8, <2>9, <2>10 DEF Next
<1> QED
  BY <1>1, <1>2, <1>3 DEF Upheld

LEMMA UpheldAttributes == TypeOK /\ Upheld => DispositiveAttribution
<1> SUFFICES ASSUME TypeOK, Upheld, stage = "done", Said("authorize") = {}
             PROVE  /\ Said("sanctions") # {} => Attributed = "sanctions"
                    /\ (Said("killswitch") # {} /\ Said("sanctions") = {})
                          => Attributed = "killswitch"
  BY DEF DispositiveAttribution
<1>1. \A c : Said(c) # {} <=> Spoke(c)
  BY DEF Said, Spoke
<1>2. Barred
  BY <1>1 DEF Upheld
<1>3. verdict = "REJECT" => Attributed = DecidingEngine(reasons, budgetOk, highRisk)
  BY DEF Upheld, Attributed
<1>4. reasons \in Seq(Reasons)
  BY DEF TypeOK
<1>5. CASE Spoke("sanctions")
  <2>1. Attributed = OriginOf("clamped_by_sanction")
    BY <1>2, <1>3, <1>4, <1>5, EndDecides DEF Barred
  <2> QED
    BY <1>1, <1>5, <2>1, SanctionCode
<1>6. CASE ~Spoke("sanctions") /\ Spoke("killswitch")
  <2>1. Attributed = OriginOf("frozen")
    BY <1>2, <1>3, <1>4, <1>6, EndDecides DEF Barred
  <2>2. OriginOf("frozen") = "killswitch"
    BY DEF OriginOf, ClampOrigin
  <2> QED
    BY <1>1, <1>6, <2>1, <2>2
<1> QED
  BY <1>1, <1>5, <1>6

\* The two dispositive controls win attribution, for any list of registered engines:
\* the freeze is inserted before the sanctions clamp, and once either has spoken no
\* clamp is recorded after it, because a REJECT cannot be narrowed.
THEOREM RuleEngineDispositiveAttribution == Spec => []DispositiveAttribution
<1>1. Init => Upheld /\ TypeOK
  BY InitUpheld, InitType
<1>2. Upheld /\ TypeOK /\ [Next]_vars => (Upheld /\ TypeOK)'
  BY StepUpheld, StepType
<1>3. Upheld /\ TypeOK => DispositiveAttribution
  BY UpheldAttributes
<1> QED
  BY <1>1, <1>2, <1>3, PTL DEF Spec

-----------------------------------------------------------------------------
(***************************************************************************)
(* A narrowing is attributed to a control that asked for it.               *)
(***************************************************************************)
\* A registered engine took part in the narrowing.
EngineNarrowed(rs) == \E i \in DOMAIN rs : rs[i].code = "clamped_by_extension"

\* A control under whose name the last clamp is recorded asked for this verdict.
Traceable(rs, v, said) ==
    \E code : EndsWith(rs, code) /\ Opinion(OriginOf(code), v) \in said

\* The verdict is the policy's, or the last clamp set it.  Until the decision is done no
\* replay was refused.
Traced ==
    /\ stage # "done" => ~Spoke("authorize")
    /\ (stage # "engines" /\ ~EngineNarrowed(reasons)) =>
           \/ Opinion("policy", verdict) \in opinions
           \/ Traceable(reasons, verdict, opinions)
    /\ (stage = "done" /\ final # verdict) => Opinion("advisor", final) \in opinions

\* What is appended takes no part away.
LEMMA EngineStillNarrowed ==
    ASSUME NEW rs \in Seq(Reasons), NEW s \in Seq(Reasons), EngineNarrowed(rs)
    PROVE  EngineNarrowed(rs \o s)
<1>1. PICK i \in DOMAIN rs : rs[i].code = "clamped_by_extension"
  BY DEF EngineNarrowed
<1>2. /\ i \in 1..Len(rs) /\ Len(rs) \in Nat /\ Len(s) \in Nat
      /\ rs \o s \in Seq(Reasons) /\ Len(rs \o s) = Len(rs) + Len(s)
  BY LenProperties, ConcatProperties
<1>3. i \in DOMAIN (rs \o s) /\ (rs \o s)[i] = rs[i]
  BY <1>2, ConcatProperties
<1> QED
  BY <1>1, <1>3 DEF EngineNarrowed

\* A control says something that leaves the verdict: nothing changes for what set it.
LEMMA LeavingTraced ==
    ASSUME TypeOK, Traced, NEW s \in Seq(Reasons), reasons' = reasons \o s,
           Clamps(s) = {}, verdict' = verdict, opinions \subseteq opinions',
           stage # "engines"
    PROVE  ~EngineNarrowed(reasons') =>
               \/ Opinion("policy", verdict') \in opinions'
               \/ Traceable(reasons', verdict', opinions')
<1> SUFFICES ASSUME ~EngineNarrowed(reasons')
             PROVE  \/ Opinion("policy", verdict) \in opinions'
                    \/ Traceable(reasons', verdict, opinions')
  OBVIOUS
<1>1. reasons \in Seq(Reasons)
  BY DEF TypeOK
<1>2. ~EngineNarrowed(reasons)
  BY <1>1, EngineStillNarrowed
<1>3. CASE Opinion("policy", verdict) \in opinions
  BY <1>3
<1>4. CASE Traceable(reasons, verdict, opinions)
  <2>1. PICK code : EndsWith(reasons, code) /\ Opinion(OriginOf(code), verdict) \in opinions
    BY <1>4 DEF Traceable
  <2>2. EndsWith(reasons', code)
    BY <1>1, <2>1, MuteKeepsEnd
  <2> QED
    BY <2>1, <2>2 DEF Traceable
<1> QED
  BY <1>2, <1>3, <1>4 DEF Traced

\* A clamp of its own, at the end, for an opinion that became the verdict.
LEMMA ClampTraced ==
    ASSUME NEW rs \in Seq(Reasons), NEW code \in ReasonCodes, NEW v \in Verdicts,
           NEW said, Opinion(OriginOf(code), v) \in said
    PROVE  Traceable(Append(rs, Reason("authorize", code, v)), v, said)
<1> DEFINE c == Reason("authorize", code, v)
<1>1. c \in Reasons
  BY ReasonType, ControlNames DEF Findings
<1>2. c.source = "authorize" /\ c.verdict # None /\ c.code = code
  BY DEF Reason, None, Verdicts
<1> HIDE DEF c
<1>3. EndsWith(Append(rs, c), code)
  BY <1>1, <1>2, ClampEnds
<1> QED
  BY <1>3 DEF Traceable, c

\* The clamp every narrowing control goes through, after a reason or none.
LEMMA NarrowingTraced ==
    ASSUME TypeOK, Traced, stage # "engines",
           NEW one \in Seq(Reasons), Clamps(one) = {},
           NEW code \in ReasonCodes, NEW found \in Verdicts,
           verdict' = Narrower(verdict, found),
           reasons' = (reasons \o one) \o Clamped(verdict, found, code),
           opinions' = opinions \cup {Opinion(OriginOf(code), found)}
    PROVE  ~EngineNarrowed(reasons') =>
               \/ Opinion("policy", verdict') \in opinions'
               \/ Traceable(reasons', verdict', opinions')
<1>1. reasons \in Seq(Reasons) /\ verdict \in Verdicts /\ reasons \o one \in Seq(Reasons)
  BY TwoTyped DEF TypeOK
<1>2. CASE Narrower(verdict, found) = verdict
  <2>1. Clamped(verdict, found, code) = <<>>
    BY <1>2 DEF Clamped
  <2>2. reasons' = reasons \o one /\ verdict' = verdict /\ opinions \subseteq opinions'
    BY <1>1, <1>2, <2>1, ConcatEmptySeq
  <2> QED
    BY <2>2, LeavingTraced
<1>3. CASE Narrower(verdict, found) # verdict
  <2>1. Narrower(verdict, found) = found
    BY <1>1, <1>3, NarrowerBounds
  <2> DEFINE c == Reason("authorize", code, found)
  <2>2. Clamped(verdict, found, code) = <<c>>
    BY <1>3, <2>1 DEF Clamped
  <2>3. c \in Reasons
    BY ReasonType, ControlNames DEF Findings
  <2>4. reasons' = Append(reasons \o one, c)
    <3> HIDE DEF c
    <3> QED
      BY <1>1, <2>2, <2>3, AppendOne
  <2>5. Traceable(reasons', found, opinions')
    BY <1>1, <2>4, ClampTraced
  <2> QED
    BY <2>1, <2>5
<1> QED
  BY <1>2, <1>3

LEMMA DeclaredTraced ==
    ASSUME TypeOK, Traced, NEW control \in {"identity", "intent"},
           NEW code \in ReasonCodes, OriginOf(code) = control, NEW next,
           ConsultDeclared(control, code, next)
    PROVE  ~EngineNarrowed(reasons') =>
               \/ Opinion("policy", verdict') \in opinions'
               \/ Traceable(reasons', verdict', opinions')
<1>1. PICK found \in Findings :
        IF found = None
        THEN UNCHANGED <<verdict, reasons, opinions>>
        ELSE /\ verdict' = Narrower(verdict, found)
             /\ reasons' = reasons \o <<Reason(control, "finding", found)>>
                                   \o Clamped(verdict, found, code)
             /\ opinions' = opinions \cup {Opinion(control, found)}
  BY Zenon DEF ConsultDeclared
<1>2. stage # "engines"
  BY DEF ConsultDeclared
<1>3. CASE found = None
  BY <1>1, <1>2, <1>3 DEF Traced
<1>4. CASE found # None
  <2> DEFINE one == <<Reason(control, "finding", found)>>
  <2>1. found \in Verdicts
    BY <1>4 DEF Findings
  <2>2. Reason(control, "finding", found) \in Reasons
    BY ReasonType, ControlNames DEF ReasonCodes
  <2>3. Reason(control, "finding", found).source # "authorize"
    BY DEF Reason
  <2>4. one \in Seq(Reasons) /\ Clamps(one) = {}
    BY <2>2, <2>3, OneMute
  <2>5. /\ verdict' = Narrower(verdict, found)
        /\ reasons' = (reasons \o one) \o Clamped(verdict, found, code)
        /\ opinions' = opinions \cup {Opinion(OriginOf(code), found)}
    BY <1>1, <1>4
  <2> HIDE DEF one
  <2> QED
    BY <1>2, <2>1, <2>4, <2>5, NarrowingTraced
<1> QED
  BY <1>3, <1>4

LEMMA TreasuryTraced ==
    ASSUME TypeOK, Traced, ClampTreasury
    PROVE  ~EngineNarrowed(reasons') =>
               \/ Opinion("policy", verdict') \in opinions'
               \/ Traceable(reasons', verdict', opinions')
<1>1. stage # "engines"
  BY DEF ClampTreasury
<1>2. CASE budgetOk
  BY <1>1, <1>2 DEF ClampTreasury, Traced
<1>3. CASE ~budgetOk
  <2>1. OriginOf("clamped_by_treasury") = "treasury" /\ "REVIEW" \in Verdicts
    BY DEF OriginOf, ClampOrigin, Verdicts
  <2>2. <<>> \in Seq(Reasons) /\ Clamps(<<>>) = {} /\ reasons \in Seq(Reasons)
    BY NothingMute, EmptySeq DEF TypeOK
  <2>3. reasons \o <<>> = reasons
    BY <2>2, ConcatEmptySeq
  <2>4. /\ verdict' = Narrower(verdict, "REVIEW")
        /\ reasons' = (reasons \o <<>>) \o Clamped(verdict, "REVIEW", "clamped_by_treasury")
        /\ opinions' = opinions \cup {Opinion(OriginOf("clamped_by_treasury"), "REVIEW")}
    BY <1>3, <2>1, <2>3 DEF ClampTreasury
  <2>5. "clamped_by_treasury" \in ReasonCodes
    BY DEF ReasonCodes, ClampOrigin
  <2> QED
    BY <1>1, <2>1, <2>2, <2>4, <2>5, NarrowingTraced
<1> QED
  BY <1>2, <1>3

LEMMA SanctionsTraced ==
    ASSUME TypeOK, Traced, ClampSanctions
    PROVE  ~EngineNarrowed(reasons') =>
               \/ Opinion("policy", verdict') \in opinions'
               \/ Traceable(reasons', verdict', opinions')
<1>1. CASE UNCHANGED <<verdict, reasons, opinions>>
  BY <1>1 DEF ClampSanctions, Traced
<1>2. CASE /\ verdict' = "REJECT"
           /\ reasons' = Append(reasons, Reason("authorize", "clamped_by_sanction", "REJECT"))
           /\ opinions' = opinions \cup {Opinion("sanctions", "REJECT")}
  <2>1. /\ OriginOf("clamped_by_sanction") = "sanctions" /\ "REJECT" \in Verdicts
        /\ "clamped_by_sanction" \in ReasonCodes
    BY DEF OriginOf, ClampOrigin, Verdicts, ReasonCodes
  <2>2. reasons \in Seq(Reasons)
    BY DEF TypeOK
  <2> QED
    BY <1>2, <2>1, <2>2, ClampTraced
<1> QED
  BY <1>1, <1>2 DEF ClampSanctions

LEMMA RiskTraced ==
    ASSUME TypeOK, Traced, ClampRisk
    PROVE  ~EngineNarrowed(reasons') =>
               \/ Opinion("policy", verdict') \in opinions'
               \/ Traceable(reasons', verdict', opinions')
<1>1. reasons \in Seq(Reasons)
  BY DEF TypeOK
<1>2. CASE highRisk /\ verdict = "APPROVE"
  <2>1. /\ OriginOf("clamped_by_risk") = "risk" /\ "ESCALATE" \in Verdicts
        /\ "clamped_by_risk" \in ReasonCodes
    BY DEF OriginOf, ClampOrigin, Verdicts, ReasonCodes
  <2>2. /\ reasons' = Append(reasons, Reason("authorize", "clamped_by_risk", "ESCALATE"))
        /\ verdict' = "ESCALATE"
        /\ Opinion("risk", "ESCALATE") \in opinions'
    BY <1>2 DEF ClampRisk
  <2> QED
    BY <1>1, <2>1, <2>2, ClampTraced
<1>3. CASE ~(highRisk /\ verdict = "APPROVE")
  <2>1. /\ verdict' = verdict /\ reasons' = reasons
        /\ opinions \subseteq opinions' /\ stage # "engines"
    BY <1>3 DEF ClampRisk
  <2>2. reasons' = reasons \o <<>> /\ <<>> \in Seq(Reasons)
    BY <1>1, <2>1, ConcatEmptySeq, EmptySeq
  <2> QED
    BY <2>1, <2>2, NothingMute, LeavingTraced
<1> QED
  BY <1>2, <1>3

LEMMA ExtensionTraced ==
    ASSUME TypeOK, Traced, ConsultExtension
    PROVE  ~EngineNarrowed(reasons') =>
               \/ Opinion("policy", verdict') \in opinions'
               \/ Traceable(reasons', verdict', opinions')
<1> DEFINE name == Extensions[asked + 1]
<1>1. asked + 1 \in 1..Len(Extensions) /\ DOMAIN Extensions = 1..Len(Extensions)
  BY ExtensionsAssumption, EnginesCounted DEF ExtensionsAssumption, ConsultExtension, TypeOK
<1>2. name \in Controls /\ name # "authorize"
  BY <1>1, ExtensionsAssumption, ControlNames DEF ExtensionsAssumption, Reserved
<1>3. reasons \in Seq(Reasons) /\ verdict \in Verdicts /\ stage # "engines"
  BY DEF TypeOK, ConsultExtension
<1>4. CASE UNCHANGED <<verdict, reasons, opinions>>
  BY <1>3, <1>4 DEF Traced
<1>5. CASE /\ reasons' = Append(reasons, Reason(name, "not_measured", None))
           /\ UNCHANGED <<verdict, opinions>>
  <2> DEFINE r == Reason(name, "not_measured", None)
  <2>1. r \in Reasons /\ r.verdict = None
    BY <1>2, ReasonType DEF Findings, ReasonCodes, Reason
  <2>2. reasons' = reasons \o <<r>>
    BY <1>3, <1>5, <2>1, AppendOne
  <2>3. <<r>> \in Seq(Reasons) /\ Clamps(<<r>>) = {}
    BY <2>1, OneMute
  <2> HIDE DEF r
  <2> QED
    BY <1>3, <1>5, <2>2, <2>3, LeavingTraced
<1>6. ASSUME NEW proposed \in Verdicts,
             verdict' = Narrower(verdict, proposed),
             reasons' = reasons \o ExtensionReason(name, verdict, proposed),
             opinions' = opinions \cup {Opinion(name, proposed)}
      PROVE  ~EngineNarrowed(reasons') =>
                 \/ Opinion("policy", verdict') \in opinions'
                 \/ Traceable(reasons', verdict', opinions')
  <2> DEFINE s == ExtensionReason(name, verdict, proposed)
  <2>1. s \in Seq(Reasons) /\ Clamps(s) = {}
    <3>1. s \in Seq(Reasons)
      BY <1>1, <1>3, ExtensionReasonType
    <3>2. Clamps(s) = {}
      BY <1>2 DEF Clamps, ExtensionReason, Reason
    <3> QED
      BY <3>1, <3>2
  <2>2. CASE Narrower(verdict, proposed) = verdict
    <3>1. reasons' = reasons \o s /\ verdict' = verdict /\ opinions \subseteq opinions'
      BY <1>6, <2>2
    <3> HIDE DEF s
    <3> QED
      BY <1>3, <2>1, <3>1, LeavingTraced
  <2>3. CASE Narrower(verdict, proposed) # verdict
    <3> DEFINE r == Reason(name, "clamped_by_extension", Narrower(verdict, proposed))
    <3>1. s = <<r>> /\ r.code = "clamped_by_extension"
      BY <2>3 DEF ExtensionReason, Reason
    <3>2. r \in Reasons
      BY <1>2, <1>3, ReasonType, NarrowerBounds DEF Findings, ReasonCodes
    <3> HIDE DEF r
    <3>3. reasons' = Append(reasons, r)
      BY <1>3, <1>6, <3>1, <3>2, AppendOne
    <3>4. Len(reasons) + 1 \in DOMAIN reasons' /\ reasons'[Len(reasons) + 1] = r
      BY <1>3, <3>2, <3>3
    <3>5. EngineNarrowed(reasons')
      BY <3>1, <3>4 DEF EngineNarrowed
    <3> QED
      BY <3>5
  <2> QED
    BY <2>2, <2>3
<1> QED
  BY <1>4, <1>5, <1>6 DEF ConsultExtension

LEMMA EnginesTraced ==
    ASSUME EvaluateEngines
    PROVE  Opinion("policy", verdict') \in opinions' /\ ~Spoke("authorize")'
<1>1. PICK rule \in Verdicts : verdict' = rule /\ opinions' = {Opinion("policy", rule)}
  BY Zenon DEF EvaluateEngines
<1>2. \A o \in opinions' : o.control = "policy"
  BY <1>1 DEF Opinion
<1> QED
  BY <1>1, <1>2 DEF Spoke

\* Where sanctions spoke its clamp keeps the last place, and otherwise the freeze takes it.
LEMMA FreezeTraced ==
    ASSUME TypeOK, Upheld, Traced, ApplyFreeze
    PROVE  ~EngineNarrowed(reasons') =>
               \/ Opinion("policy", verdict') \in opinions'
               \/ Traceable(reasons', verdict', opinions')
<1>1. stage # "engines" /\ stage # "done"
  BY DEF ApplyFreeze
<1>2. Barred
  BY <1>1 DEF Traced, Upheld
<1>3. reasons \in Seq(Reasons)
  BY DEF TypeOK
<1>4. CASE UNCHANGED <<verdict, reasons, opinions>>
  BY <1>1, <1>4 DEF Traced
<1>5. CASE /\ verdict' = "REJECT"
           /\ reasons' = WithFreeze(reasons)
           /\ opinions' = opinions \cup {Opinion("killswitch", "REJECT")}
  <2> SUFFICES ASSUME ~EngineNarrowed(reasons')
               PROVE  \/ Opinion("policy", "REJECT") \in opinions'
                      \/ Traceable(reasons', "REJECT", opinions')
    BY <1>5
  <2>1. ~EngineNarrowed(reasons)
    <3> SUFFICES ASSUME NEW i \in DOMAIN reasons, reasons[i].code = "clamped_by_extension"
                 PROVE  EngineNarrowed(reasons')
      BY DEF EngineNarrowed
    <3> DEFINE k == FreezeAt(reasons)
    <3> DEFINE t == WithFreeze(reasons)
    <3>1. k \in 1..(Len(reasons) + 1) /\ Len(reasons) \in Nat /\ i \in 1..Len(reasons)
      BY <1>3, FreezeAtType
    <3>2. /\ t \in Seq(Reasons) /\ Len(t) = Len(reasons) + 1
          /\ \A j \in 1..(Len(reasons) + 1) :
                t[j] = IF j < k THEN reasons[j]
                       ELSE IF j = k THEN Reason("authorize", "frozen", "REJECT")
                       ELSE reasons[j - 1]
      BY <1>3, FreezeEntries
    <3>3. DOMAIN t = 1..(Len(reasons) + 1)
      BY <3>2
    <3> HIDE DEF k, t
    <3>4. CASE i < k
      <4>1. i \in DOMAIN t /\ t[i] = reasons[i]
        BY <3>1, <3>2, <3>3, <3>4
      <4> QED
        BY <4>1, <1>5 DEF EngineNarrowed, t
    <3>5. CASE ~(i < k)
      <4>1. i + 1 \in DOMAIN t /\ t[i + 1] = reasons[i]
        BY <3>1, <3>2, <3>3, <3>5
      <4> QED
        BY <4>1, <1>5 DEF EngineNarrowed, t
    <3> QED
      BY <3>4, <3>5
  <2>2. CASE Spoke("sanctions")
    <3>1. verdict = "REJECT" /\ EndsWith(reasons, "clamped_by_sanction")
      BY <1>2, <2>2 DEF Barred
    <3>2. EndsWith(reasons', "clamped_by_sanction")
      BY <1>3, <1>5, <3>1, FreezeBehindSanction
    <3>3. CASE Opinion("policy", verdict) \in opinions
      BY <1>5, <3>1, <3>3
    <3>4. CASE Traceable(reasons, verdict, opinions)
      <4>1. PICK code : EndsWith(reasons, code) /\ Opinion(OriginOf(code), verdict) \in opinions
        BY <3>4 DEF Traceable
      <4>2. code = "clamped_by_sanction"
        <5>1. Clamps(reasons) \subseteq Int
          BY <1>3 DEF Clamps
        <5> QED
          BY <3>1, <4>1, <5>1 DEF EndsWith
      <4> QED
        BY <1>5, <3>1, <3>2, <4>1, <4>2 DEF Traceable
    <3> QED
      BY <1>1, <2>1, <3>3, <3>4 DEF Traced
  <2>3. CASE ~Spoke("sanctions")
    <3>1. EndsWith(reasons', "frozen")
      BY <1>2, <1>3, <1>5, <2>3, FreezeLast DEF Barred
    <3>2. OriginOf("frozen") = "killswitch"
      BY DEF OriginOf, ClampOrigin
    <3> QED
      BY <1>5, <3>1, <3>2 DEF Traceable
  <2> QED
    BY <2>2, <2>3
<1> QED
  BY <1>4, <1>5 DEF ApplyFreeze

LEMMA ReplayTraced ==
    ASSUME TypeOK, RefuseReplay
    PROVE  Traceable(reasons', verdict', opinions')
<1>1. /\ OriginOf("replayed_request_id") = "authorize" /\ "REJECT" \in Verdicts
      /\ "replayed_request_id" \in ReasonCodes
  BY DEF OriginOf, ClampOrigin, Verdicts, ReasonCodes
<1>2. /\ reasons \in Seq(Reasons)
      /\ reasons' = Append(reasons, Reason("authorize", "replayed_request_id", "REJECT"))
      /\ verdict' = "REJECT" /\ Opinion("authorize", "REJECT") \in opinions'
  BY DEF RefuseReplay, TypeOK
<1> QED
  BY <1>1, <1>2, ClampTraced

\* What an advisor changes it asked for.
LEMMA AdvisorTraced ==
    ASSUME TypeOK, ConsultAdvisor, final' # verdict
    PROVE  Opinion("advisor", final') \in opinions'
<1>1. PICK recommended \in Verdicts, injection \in BOOLEAN :
        LET heard == IF injection THEN {recommended, "REJECT"} ELSE {recommended}
            advised == Narrower(verdict, recommended)
        IN  /\ final' = IF injection THEN Narrower(advised, "REJECT") ELSE advised
            /\ opinions' = opinions \cup {Opinion("advisor", v) : v \in heard}
  BY Zenon DEF ConsultAdvisor
<1>2. verdict \in Verdicts /\ "REJECT" \in Verdicts
  BY DEF TypeOK, Verdicts
<1>3. CASE injection
  <2>1. final' = Narrower(Narrower(verdict, recommended), "REJECT")
    BY <1>1, <1>3
  <2>2. final' = "REJECT"
    BY <1>2, <2>1 DEF Narrower, Severity, Verdicts
  <2>3. opinions' = opinions \cup {Opinion("advisor", v) : v \in {recommended, "REJECT"}}
    BY <1>1, <1>3
  <2> QED
    BY <2>2, <2>3
<1>4. CASE ~injection
  <2>1. final' = recommended
    BY <1>1, <1>2, <1>4, NarrowerBounds
  <2>2. opinions' = opinions \cup {Opinion("advisor", v) : v \in {recommended}}
    BY <1>1, <1>4
  <2> QED
    BY <2>1, <2>2
<1> QED
  BY <1>3, <1>4

LEMMA InitTraced == Init => Traced
  BY DEF Init, Traced, Spoke

\* Only a replay speaks in the pipeline's own name.
LEMMA OthersSpeak ==
    ASSUME NEW c, c # "authorize", NEW v, ~Spoke("authorize"),
           opinions' = opinions \cup {Opinion(c, v)}
    PROVE  ~Spoke("authorize")'
  BY OneSpeaks

LEMMA ReplaySpeaksLast ==
    ASSUME TypeOK, Traced, [Next]_vars, stage' # "done"
    PROVE  ~Spoke("authorize")'
<1>0. CASE UNCHANGED <<opinions, stage>>
  BY <1>0 DEF Traced, Spoke
<1>1. CASE EvaluateEngines
  BY <1>1, EnginesTraced
<1>2. ASSUME NEW control \in {"identity", "intent"}, NEW code, NEW next,
             ConsultDeclared(control, code, next)
      PROVE  ~Spoke("authorize")'
  <2>1. ~Spoke("authorize")
    BY <1>2 DEF ConsultDeclared, Traced
  <2>2. opinions' = opinions \/ \E found : opinions' = opinions \cup {Opinion(control, found)}
    BY <1>2, Zenon DEF ConsultDeclared
  <2> QED
    BY <2>1, <2>2, OthersSpeak DEF Spoke
<1>3. CASE ClampTreasury \/ ClampSanctions \/ ClampRisk
  <2>1. ~Spoke("authorize")
    BY <1>3 DEF ClampTreasury, ClampSanctions, ClampRisk, Traced
  <2>2. \/ opinions' = opinions
        \/ opinions' = opinions \cup {Opinion("treasury", "REVIEW")}
        \/ opinions' = opinions \cup {Opinion("sanctions", "REJECT")}
        \/ opinions' = opinions \cup {Opinion("risk", "ESCALATE")}
    BY <1>3 DEF ClampTreasury, ClampSanctions, ClampRisk
  <2> QED
    BY <2>1, <2>2, OthersSpeak DEF Spoke
<1>4. CASE ConsultExtension
  <2> DEFINE name == Extensions[asked + 1]
  <2>1. asked + 1 \in 1..Len(Extensions) /\ DOMAIN Extensions = 1..Len(Extensions)
    BY <1>4, ExtensionsAssumption, EnginesCounted
    DEF ExtensionsAssumption, ConsultExtension, TypeOK
  <2>2. name # "authorize"
    BY <2>1, ExtensionsAssumption DEF ExtensionsAssumption, Reserved
  <2>3. ~Spoke("authorize")
    BY <1>4 DEF ConsultExtension, Traced
  <2>4. opinions' = opinions \/ \E v : opinions' = opinions \cup {Opinion(name, v)}
    BY <1>4, Zenon DEF ConsultExtension
  <2> HIDE DEF name
  <2> QED
    BY <2>2, <2>3, <2>4, OthersSpeak DEF Spoke
<1>5. CASE ApplyFreeze
  <2>1. ~Spoke("authorize")
    BY <1>5 DEF ApplyFreeze, Traced
  <2>2. opinions' = opinions \/ opinions' = opinions \cup {Opinion("killswitch", "REJECT")}
    BY <1>5 DEF ApplyFreeze
  <2> QED
    BY <2>1, <2>2, OthersSpeak DEF Spoke
<1>6. CASE ExtensionsDone
  BY <1>6 DEF ExtensionsDone, Traced, Spoke
<1>7. CASE Decide \/ RefuseReplay \/ ConsultAdvisor
  <2>1. stage' = "done"
    BY <1>7, Zenon DEF Decide, RefuseReplay, ConsultAdvisor
  <2> QED
    BY <2>1
<1> QED
  BY <1>0, <1>1, <1>2, <1>3, <1>4, <1>5, <1>6, <1>7
  DEF Next, vars, ClampIdentity, ClampIntent

\* A step that ends before "done".
LEMMA UnfinishedTraced ==
    ASSUME TypeOK, Traced, [Next]_vars, stage' # "done",
           ~EngineNarrowed(reasons') =>
               \/ Opinion("policy", verdict') \in opinions'
               \/ Traceable(reasons', verdict', opinions')
    PROVE  Traced'
  BY ReplaySpeaksLast DEF Traced

LEMMA StepTraced == TypeOK /\ Upheld /\ Traced /\ [Next]_vars => Traced'
<1> SUFFICES ASSUME TypeOK, Upheld, Traced, [Next]_vars PROVE Traced'
  OBVIOUS
<1>1. CASE EvaluateEngines
  <2>1. stage' = "identity"
    BY <1>1, Zenon DEF EvaluateEngines
  <2> QED
    BY <1>1, <2>1, EnginesTraced, UnfinishedTraced
<1>2. CASE ClampIdentity
  <2>1. OriginOf("clamped_by_identity") = "identity" /\ "clamped_by_identity" \in ReasonCodes
    BY DEF OriginOf, ClampOrigin, ReasonCodes
  <2>2. stage' = "intent"
    BY <1>2, Zenon DEF ClampIdentity, ConsultDeclared
  <2> QED
    BY <1>2, <2>1, <2>2, DeclaredTraced, UnfinishedTraced DEF ClampIdentity
<1>3. CASE ClampIntent
  <2>1. OriginOf("clamped_by_intent") = "intent" /\ "clamped_by_intent" \in ReasonCodes
    BY DEF OriginOf, ClampOrigin, ReasonCodes
  <2>2. stage' = "treasury"
    BY <1>3, Zenon DEF ClampIntent, ConsultDeclared
  <2> QED
    BY <1>3, <2>1, <2>2, DeclaredTraced, UnfinishedTraced DEF ClampIntent
<1>4. CASE ClampTreasury \/ ClampSanctions \/ ClampRisk
  <2>1. stage' # "done"
    BY <1>4 DEF ClampTreasury, ClampSanctions, ClampRisk
  <2> QED
    BY <1>4, <2>1, TreasuryTraced, SanctionsTraced, RiskTraced, UnfinishedTraced
<1>5. CASE ConsultExtension \/ ApplyFreeze
  <2>1. stage' # "done"
    <3>1. CASE ConsultExtension
      BY <3>1, Zenon DEF ConsultExtension
    <3>2. CASE ApplyFreeze
      BY <3>2, Zenon DEF ApplyFreeze
    <3> QED
      BY <1>5, <3>1, <3>2
  <2> QED
    BY <1>5, <2>1, ExtensionTraced, FreezeTraced, UnfinishedTraced
<1>6. CASE ExtensionsDone
  <2>1. /\ UNCHANGED <<verdict, reasons, opinions>>
        /\ stage = "extensions" /\ stage' = "freeze"
    BY <1>6 DEF ExtensionsDone
  <2> QED
    BY <2>1, UnfinishedTraced DEF Traced
<1>7. CASE Decide
  BY <1>7 DEF Decide, Traced
<1>8. CASE RefuseReplay
  <2>1. final' = verdict' /\ stage' = "done"
    BY <1>8 DEF RefuseReplay
  <2> QED
    BY <1>8, <2>1, ReplayTraced DEF Traced
<1>9. CASE ConsultAdvisor
  <2>1. /\ UNCHANGED <<verdict, reasons>> /\ stage = "entry" /\ stage' = "done"
        /\ opinions \subseteq opinions'
    BY <1>9, Zenon DEF ConsultAdvisor
  <2>2. final' # verdict' => Opinion("advisor", final') \in opinions'
    BY <1>9, <2>1, AdvisorTraced
  <2>3. Traceable(reasons, verdict, opinions) => Traceable(reasons, verdict, opinions')
    BY <2>1 DEF Traceable
  <2> QED
    BY <2>1, <2>2, <2>3 DEF Traced
<1>10. CASE UNCHANGED vars
  BY <1>10 DEF Traced, Spoke, vars
<1> QED
  BY <1>1, <1>2, <1>3, <1>4, <1>5, <1>6, <1>7, <1>8, <1>9, <1>10 DEF Next

\* A narrowed verdict is attributed to a control that asked for exactly that verdict, for any
\* list of registered engines of which none took part in the narrowing: every control that
\* narrows appends its clamp, so the last clamp is the one that set the verdict, except that a
\* freeze steps behind sanctions, which asked for the same.
THEOREM RuleEngineNarrowingIsAttributed == Spec => []NarrowingIsAttributed
<1>1. Init => Traced /\ Upheld /\ TypeOK
  BY InitTraced, InitUpheld, InitType
<1>2. Traced /\ Upheld /\ TypeOK /\ [Next]_vars => (Traced /\ Upheld /\ TypeOK)'
  BY StepTraced, StepUpheld, StepType
<1>3. Traced /\ TypeOK => NarrowingIsAttributed
  <2> SUFFICES ASSUME Traced, TypeOK, stage = "done", final \notin Said("policy"),
                      ~EngineNarrowed(reasons)
               PROVE  final \in Said(Attributed)
    BY DEF NarrowingIsAttributed, EngineNarrowed
  <2>1. \A c, v : Opinion(c, v) \in opinions => v \in Said(c)
    <3> SUFFICES ASSUME NEW c, NEW v, Opinion(c, v) \in opinions
                 PROVE  v \in Said(c)
      OBVIOUS
    <3>1. Opinion(c, v).control = c /\ Opinion(c, v).verdict = v
      BY DEF Opinion
    <3> QED
      BY <3>1 DEF Said
  <2>2. CASE final # verdict
    <3>1. Opinion("advisor", final) \in opinions /\ Attributed = "advisor"
      BY <2>2 DEF Traced, Attributed
    <3> QED
      BY <2>1, <3>1
  <2>3. CASE final = verdict
    <3>1. Opinion("policy", final) \notin opinions
      BY <2>1
    <3>2. PICK code : EndsWith(reasons, code) /\ Opinion(OriginOf(code), final) \in opinions
      BY <2>3, <3>1 DEF Traced, Traceable
    <3>3. Attributed = DecidingEngine(reasons, budgetOk, highRisk)
      BY <2>3 DEF Attributed
    <3>4. reasons \in Seq(Reasons)
      BY DEF TypeOK
    <3>5. Attributed = OriginOf(code)
      BY <3>2, <3>3, <3>4, EndDecides
    <3> QED
      BY <2>1, <3>2, <3>5
  <2> QED
    BY <2>2, <2>3
<1> QED
  BY <1>1, <1>2, <1>3, PTL DEF Spec
=============================================================================

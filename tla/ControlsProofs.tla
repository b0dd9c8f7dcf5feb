-------------------------- MODULE ControlsProofs --------------------------
(***************************************************************************)
(* Theorems about Controls: what the envelopes, the rates, the channels    *)
(* and a dispute come to over any sequence of payments, whatever the       *)
(* policy bundle says.                                                     *)
(***************************************************************************)
EXTENDS Controls, Sums, FiniteSetTheorems, SequenceTheorems, WellFoundedInduction, TLAPS

-----------------------------------------------------------------------------
(***************************************************************************)
(* The verdict of the rules.                                               *)
(***************************************************************************)
LEMMA NarrowerIs ==
    ASSUME NEW a \in Verdicts, NEW b \in Verdicts
    PROVE  /\ Narrower(a, b) \in Verdicts
           /\ Narrower(a, b) = "APPROVE" => a = "APPROVE" /\ b = "APPROVE"
BY DEF Narrower, Severity, Verdicts

\* Of finitely many rules that match, one comes before all others.
LEMMA FirstRule ==
    ASSUME NEW M, M \subseteq Rules, M # {}
    PROVE  \E r \in M : \A s \in M : Before(r, s)
<1> DEFINE Bad == {T \in SUBSET M : T # {} /\ ~ \E r \in T : \A s \in T : Before(r, s)}
<1> SUFFICES ASSUME Bad # {} PROVE FALSE
  OBVIOUS
<1>1. IsFiniteSet(M)
  BY ControlsAssumption, FS_Subset DEF ControlsAssumption
<1>2. PICK T \in Bad : \A u \in Bad : u \subseteq T => u = T
  <2>1. Bad \subseteq SUBSET M
    OBVIOUS
  <2> HIDE DEF Bad
  <2> QED
    BY <1>1, <2>1, SmallestSet
<1>3. \A r \in M : r.priority \in Int /\ r.id \in Nat
  BY ControlsAssumption DEF ControlsAssumption, ValidPack
<1>4. PICK x \in T : TRUE
  BY <1>2
<1>5. Before(x, x)
  BY <1>2, <1>3 DEF Before
<1>6. CASE T \ {x} = {}
  <2>1. \A s \in T : s = x
    BY <1>6
  <2> QED
    BY <1>2, <1>5, <2>1
<1>7. CASE T \ {x} # {}
  <2>1. T \ {x} \notin Bad
    BY <1>2, <1>4
  <2>2. PICK r \in T \ {x} : \A s \in T \ {x} : Before(r, s)
    BY <1>2, <1>7, <2>1
  <2>3. \A s \in T : s.priority \in Int /\ s.id \in Nat
    BY <1>2, <1>3
  <2>4. CASE Before(r, x)
    <3>1. \A s \in T : Before(r, s)
      BY <2>2, <2>4
    <3> QED
      BY <1>2, <2>2, <3>1
  <2>5. CASE ~Before(r, x)
    <3>1. \A s \in T \ {x} : Before(x, s)
      BY <2>2, <2>3, <2>5 DEF Before
    <3>2. \A s \in T : Before(x, s)
      BY <1>5, <3>1
    <3> QED
      BY <1>2, <3>2
  <2> QED
    BY <2>4, <2>5
<1> QED
  BY <1>6, <1>7

LEMMA PolicyIs ==
    ASSUME NEW facts
    PROVE  PolicyVerdict(facts) \in Verdicts
<1> DEFINE all == WithDerived(facts)
           matching == {r \in Rules : Holds(all, r.when)}
<1> HIDE DEF all
<1>1. PolicyVerdict(facts) = IF matching = {} THEN "REVIEW"
                             ELSE (CHOOSE r \in matching : \A s \in matching : Before(r, s)).then
  BY DEF PolicyVerdict, all
<1>2. \A r \in Rules : r.then \in Verdicts
  BY ControlsAssumption DEF ControlsAssumption, ValidPack
<1>3. matching \subseteq Rules
  OBVIOUS
<1> HIDE DEF matching
<1>4. CASE matching = {}
  BY <1>1, <1>4 DEF Verdicts
<1>5. CASE matching # {}
  <2>1. (CHOOSE r \in matching : \A s \in matching : Before(r, s)) \in matching
    BY <1>3, <1>5, FirstRule
  <2> QED
    BY <1>1, <1>2, <1>3, <1>5, <2>1
<1> QED
  BY <1>4, <1>5

\* What is approved is within the budget and not of high risk.
RiskOf(table, req, t) == Risk(RiskWeights, table, req, Snapshot(table, req, t))
BudgetOf(table, req, t) == Budget(Treasury[req.channel], Snapshot(table, req, t), req.amount)

LEMMA DecidedIs ==
    ASSUME NEW table, NEW req, NEW t
    PROVE  /\ Decided(table, req, t).verdict \in Verdicts
           /\ Decided(table, req, t).verdict = "APPROVE" =>
                 BudgetOf(table, req, t).ok /\ "high_risk" \notin RiskOf(table, req, t).flags
<1> DEFINE snap == Snapshot(table, req, t)
           budget == BudgetOf(table, req, t)
           age == IF firstSeen[req.vendor] = Never THEN 0 ELSE t - firstSeen[req.vendor]
           trust == [score |-> TrustScore(TrustWeights, snap.vendor, age),
                     flags |-> TrustFlags(snap.vendor)]
           risk == RiskOf(table, req, t)
           policy == PolicyVerdict(Facts(req, snap, trust, risk, budget))
           funded == IF budget.ok THEN policy ELSE Narrower(policy, "REVIEW")
           high == "high_risk" \in risk.flags
<1>1. Decided(table, req, t).verdict =
         IF req.vendor \in Sanctioned THEN "REJECT"
         ELSE IF "high_risk" \in risk.flags /\ funded = "APPROVE" THEN "ESCALATE"
         ELSE funded
  BY DEF Decided, BudgetOf, RiskOf
<1>2. policy \in Verdicts
  BY PolicyIs
<1> HIDE DEF policy, budget, risk
<1>3. funded \in Verdicts /\ (funded = "APPROVE" => budget.ok)
  <2>1. Narrower(policy, "REVIEW") \in Verdicts /\ Narrower(policy, "REVIEW") # "APPROVE"
    BY <1>2, NarrowerIs DEF Verdicts
  <2> QED
    BY <1>2, <2>1
<1> HIDE DEF funded
<1>4. Decided(table, req, t).verdict \in Verdicts
  BY <1>1, <1>3 DEF Verdicts
<1>5. ASSUME Decided(table, req, t).verdict = "APPROVE"
      PROVE  budget.ok /\ "high_risk" \notin risk.flags
  BY <1>1, <1>3, <1>5
<1> QED
  BY <1>4, <1>5 DEF budget, risk
-----------------------------------------------------------------------------
(***************************************************************************)
(* The steps.                                                              *)
(***************************************************************************)
\* Whether or not an advisor was asked, what is recorded as approved the engines approved.
Asked(req, verdict) ==
    /\ MayAsk(req)
    /\ verdict \in Verdicts
    /\ verdict = "APPROVE" => Decided(rows, req, now).verdict = "APPROVE"
    /\ Record(req, verdict)

\* An outcome is reported, of a payment or of a run.
Ended(i, success) == Settle(i, success) \/ SettleRun(i, success)

LEMMA StepKinds ==
    ASSUME [Next]_vars
    PROVE  \/ \E req \in Requests, verdict \in Verdicts : Asked(req, verdict)
           \/ \E i \in Ids, success \in BOOLEAN : Ended(i, success)
           \/ \E i \in Ids : Abandon(i) \/ MarkDisputed(i)
           \/ Tick \/ UNCHANGED vars
<1>1. ASSUME NEW req \in Requests, Authorize(req)
      PROVE  \E verdict \in Verdicts : Asked(req, verdict)
  <2>1. PICK verdict : verdict = Decided(rows, req, now).verdict
    OBVIOUS
  <2>2. verdict \in Verdicts
    BY <2>1, DecidedIs
  <2> QED
    BY <1>1, <2>1, <2>2 DEF Authorize, Asked
<1>2. ASSUME NEW req \in Requests, Advise(req)
      PROVE  \E verdict \in Verdicts : Asked(req, verdict)
  <2>1. PICK verdict : verdict = Decided(rows, req, now).verdict
    OBVIOUS
  <2>2. verdict \in Verdicts
    BY <2>1, DecidedIs
  <2>3. PICK recommended \in Recommendations : Record(req, Narrower(verdict, recommended))
    BY <1>2, <2>1 DEF Advise
  <2>4. recommended \in Verdicts
    BY ControlsAssumption DEF ControlsAssumption
  <2>5. PICK final : final = Narrower(verdict, recommended)
    OBVIOUS
  <2>6. final \in Verdicts /\ (final = "APPROVE" => verdict = "APPROVE")
    BY <2>2, <2>4, <2>5, NarrowerIs
  <2> QED
    BY <1>2, <2>1, <2>3, <2>5, <2>6 DEF Advise, Asked
<1> QED
  BY <1>1, <1>2 DEF Next, Ended

\* The table, as a function with a finite domain.
Table(t) == /\ IsFiniteSet(DOMAIN t)
            /\ \A i \in DOMAIN t : t[i] \in Row

LEMMA RowsAreATable ==
    ASSUME rows \in Seq(Row)
    PROVE  /\ Table(rows)
           /\ Len(rows) \in Nat /\ DOMAIN rows = 1..Len(rows)
           /\ NextId = Len(rows) + 1 /\ NextId \notin DOMAIN rows
<1>1. Len(rows) \in Nat /\ DOMAIN rows = 1..Len(rows) /\ \A i \in DOMAIN rows : rows[i] \in Row
  BY LenProperties
<1>2. IsFiniteSet(1..Len(rows)) /\ Cardinality(1..Len(rows)) = Len(rows)
  BY <1>1, FS_Interval
<1> QED
  BY <1>1, <1>2 DEF Table, NextId

\* What Record appends.
NewRow(req, verdict) ==
    [agent |-> req.agent, vendor |-> req.vendor, resource |-> req.resource,
     channel |-> req.channel, amount |-> req.amount, verdict |-> verdict, at |-> now,
     settled |-> FALSE, success |-> FALSE, disputed |-> FALSE, paid |-> NotReported,
     asked |-> req.amount]

LEMMA Recorded ==
    ASSUME rows \in Seq(Row), NEW req, NEW verdict, Record(req, verdict)
    PROVE  /\ DOMAIN rows' = DOMAIN rows \cup {NextId}
           /\ \A i \in DOMAIN rows : rows'[i] = rows[i]
           /\ rows'[NextId] = NewRow(req, verdict)
<1>1. PICK row : row = NewRow(req, verdict)
  OBVIOUS
<1>2. rows' = Append(rows, row)
  BY <1>1 DEF Record, NewRow
<1>3. Len(rows) \in Nat /\ DOMAIN rows = 1..Len(rows) /\ NextId = Len(rows) + 1
  BY RowsAreATable
<1>4. rows \in Seq(Row \cup {row})
  BY SeqMonotonic
<1>5. /\ rows' \in Seq(Row \cup {row}) /\ Len(rows') = Len(rows) + 1
      /\ \A i \in 1..Len(rows) : rows'[i] = rows[i]
      /\ rows'[Len(rows) + 1] = row
  BY <1>2, <1>4, AppendProperties
<1>6. DOMAIN rows' = 1..(Len(rows) + 1)
  BY <1>5, LenProperties
<1> QED
  BY <1>1, <1>3, <1>5, <1>6

\* Nothing but its outcome changes in a row.
SameRequest(i) ==
    /\ rows'[i].agent = rows[i].agent /\ rows'[i].vendor = rows[i].vendor
    /\ rows'[i].resource = rows[i].resource /\ rows'[i].channel = rows[i].channel
    /\ rows'[i].asked = rows[i].asked /\ rows'[i].verdict = rows[i].verdict
    /\ rows'[i].at = rows[i].at

LEMMA RowIs ==
    ASSUME NEW r \in Row
    PROVE  /\ r.agent \in Agents /\ r.vendor \in Vendors /\ r.resource \in Resources
           /\ r.channel \in Channels /\ r.amount \in Nat /\ r.asked \in Nat
           /\ r.verdict \in Verdicts /\ r.at \in 0..LastMoment /\ r.at \in Nat
           /\ r.settled \in BOOLEAN /\ r.success \in BOOLEAN /\ r.disputed \in BOOLEAN
           /\ r.paid \in Nat \cup {NotReported}
<1>1. LastMoment \in Nat
  BY ControlsAssumption DEF ControlsAssumption
<1>2. /\ r.agent \in Agents /\ r.vendor \in Vendors /\ r.resource \in Resources
      /\ r.channel \in Channels /\ r.amount \in Nat /\ r.asked \in Nat
      /\ r.verdict \in Verdicts /\ r.at \in 0..LastMoment
  BY DEF Row
<1>3. /\ r.settled \in BOOLEAN /\ r.success \in BOOLEAN /\ r.disputed \in BOOLEAN
      /\ r.paid \in Nat \cup {NotReported}
  BY DEF Row
<1>4. r.at \in Nat
  <2>1. \A m \in 0..LastMoment : m \in Nat
    BY <1>1
  <2> QED
    BY <1>2, <2>1
<1> QED
  BY <1>2, <1>3, <1>4

LEMMA Settled ==
    ASSUME rows \in Seq(Row), NEW i \in DOMAIN rows, NEW success \in BOOLEAN, Ended(i, success)
    PROVE  /\ rows' \in Seq(Row) /\ DOMAIN rows' = DOMAIN rows
           /\ \A j \in DOMAIN rows : SameRequest(j) /\ (j # i => rows'[j] = rows[j])
           /\ rows'[i].settled /\ rows'[i].success = success
           /\ open' = open \ {i} /\ UNCHANGED <<firstSeen, now>>
<1>1. Len(rows) \in Nat /\ DOMAIN rows = 1..Len(rows) /\ \A j \in DOMAIN rows : rows[j] \in Row
  BY RowsAreATable DEF Table
<1>2. PICK row : /\ row \in Row /\ rows' = [rows EXCEPT ![i] = row]
                 /\ row.settled /\ row.success = success
                 /\ row.agent = rows[i].agent /\ row.vendor = rows[i].vendor
                 /\ row.resource = rows[i].resource /\ row.channel = rows[i].channel
                 /\ row.asked = rows[i].asked /\ row.verdict = rows[i].verdict
                 /\ row.at = rows[i].at
  <2>1. CASE Settle(i, success)
    <3>1. PICK paid \in {NotReported} \cup {n \in Reported : success} :
             rows' = [rows EXCEPT ![i].settled = TRUE, ![i].success = success, ![i].paid = paid]
      BY <2>1 DEF Settle
    <3>2. PICK row : row = [rows[i] EXCEPT !.settled = TRUE, !.success = success, !.paid = paid]
      OBVIOUS
    <3>3. paid \in Nat \cup {NotReported}
      BY ControlsAssumption DEF ControlsAssumption
    <3>4. rows' = [rows EXCEPT ![i] = row]
      BY <3>1, <3>2
    <3>5. /\ row \in Row /\ row.settled /\ row.success = success
          /\ row.agent = rows[i].agent /\ row.vendor = rows[i].vendor
          /\ row.resource = rows[i].resource /\ row.channel = rows[i].channel
          /\ row.asked = rows[i].asked /\ row.verdict = rows[i].verdict
          /\ row.at = rows[i].at
      BY <1>1, <3>2, <3>3 DEF Row
    <3> QED
      BY <3>4, <3>5
  <2>2. CASE SettleRun(i, success)
    <3>1. PICK actual \in Reported :
             rows' = [rows EXCEPT ![i].settled = TRUE, ![i].success = success, ![i].amount = actual]
      BY <2>2 DEF SettleRun
    <3>2. PICK row : row = [rows[i] EXCEPT !.settled = TRUE, !.success = success, !.amount = actual]
      OBVIOUS
    <3>3. actual \in Nat
      BY ControlsAssumption DEF ControlsAssumption
    <3>4. rows' = [rows EXCEPT ![i] = row]
      BY <3>1, <3>2
    <3>5. /\ row \in Row /\ row.settled /\ row.success = success
          /\ row.agent = rows[i].agent /\ row.vendor = rows[i].vendor
          /\ row.resource = rows[i].resource /\ row.channel = rows[i].channel
          /\ row.asked = rows[i].asked /\ row.verdict = rows[i].verdict
          /\ row.at = rows[i].at
      BY <1>1, <3>2, <3>3 DEF Row
    <3> QED
      BY <3>4, <3>5
  <2> QED
    BY <2>1, <2>2 DEF Ended
<1>3. rows' \in Seq(Row) /\ DOMAIN rows' = DOMAIN rows
  BY <1>1, <1>2, ExceptSeq
<1>4. rows'[i] = row /\ \A j \in DOMAIN rows : j # i => rows'[j] = rows[j]
  BY <1>2
<1>5. open' = open \ {i} /\ UNCHANGED <<firstSeen, now>>
  BY DEF Ended, Settle, SettleRun
<1> QED
  BY <1>2, <1>3, <1>4, <1>5 DEF SameRequest

LEMMA Disputed ==
    ASSUME rows \in Seq(Row), NEW i, MarkDisputed(i)
    PROVE  /\ rows' \in Seq(Row) /\ DOMAIN rows' = DOMAIN rows
           /\ \A j \in DOMAIN rows :
                 /\ SameRequest(j)
                 /\ rows'[j].settled = rows[j].settled /\ rows'[j].success = rows[j].success
                 /\ rows'[j].paid = rows[j].paid /\ rows'[j].amount = rows[j].amount
<1>1. i \in DOMAIN rows
  BY DEF MarkDisputed
<1>2. Len(rows) \in Nat /\ DOMAIN rows = 1..Len(rows) /\ \A j \in DOMAIN rows : rows[j] \in Row
  BY RowsAreATable DEF Table
<1>3. PICK row : row = [rows[i] EXCEPT !.disputed = TRUE]
  OBVIOUS
<1>4. rows' = [rows EXCEPT ![i] = row]
  BY <1>3 DEF MarkDisputed
<1>5. row \in Row
  BY <1>1, <1>2, <1>3 DEF Row
<1>6. rows' \in Seq(Row) /\ DOMAIN rows' = DOMAIN rows
  BY <1>1, <1>2, <1>4, <1>5, ExceptSeq
<1>7. rows'[i] = row /\ \A j \in DOMAIN rows : j # i => rows'[j] = rows[j]
  BY <1>1, <1>4
<1>8. /\ row.settled = rows[i].settled /\ row.success = rows[i].success
      /\ row.paid = rows[i].paid
      /\ row.agent = rows[i].agent /\ row.vendor = rows[i].vendor
      /\ row.resource = rows[i].resource /\ row.channel = rows[i].channel
      /\ row.amount = rows[i].amount /\ row.asked = rows[i].asked
      /\ row.verdict = rows[i].verdict /\ row.at = rows[i].at
  BY <1>1, <1>2, <1>3 DEF Row
<1> QED
  BY <1>6, <1>7, <1>8 DEF SameRequest

-----------------------------------------------------------------------------
(***************************************************************************)
(* Types.                                                                  *)
(***************************************************************************)
LEMMA LeastMoment ==
    ASSUME NEW T, T \subseteq Nat, T # {}
    PROVE  \E m \in T : \A n \in T : m <= n
<1> DEFINE R == OpToRel(<, Nat)
<1>1. PICK m \in T : \A n \in T : <<n, m>> \notin R
  <2>1. IsWellFoundedOn(R, Nat)
    BY NatLessThanWellFounded
  <2> HIDE DEF R
  <2> QED
    BY <2>1, WFMin
<1>2. \A n \in T : ~(n < m)
  BY <1>1 DEF OpToRel
<1> QED
  BY <1>2

\* With the moments nothing is later than.
IInv == /\ TypeOK
        /\ \A i \in DOMAIN rows : rows[i].at <= now
        /\ \A v \in Vendors : firstSeen[v] <= now

LEMMA TypeInit ==
    ASSUME Init
    PROVE  IInv
<1>1. rows \in Seq(Row) /\ DOMAIN rows \subseteq Ids /\ \A i \in DOMAIN rows : rows[i].at <= FirstMoment
  BY ControlsAssumption DEF Init, ControlsAssumption
<1>2. now = FirstMoment /\ now \in 0..LastMoment /\ open = {} /\ LastMoment \in Nat
  BY ControlsAssumption DEF Init, ControlsAssumption
<1>3. Table(rows)
  BY <1>1, RowsAreATable
<1> DEFINE moments(v) == {rows[i].at : i \in {j \in DOMAIN rows : rows[j].vendor = v}}
<1>4. ASSUME NEW v, moments(v) # {}
      PROVE  Min(moments(v)) \in moments(v) /\ \A m \in moments(v) : Min(moments(v)) <= m
  <2>1. moments(v) \subseteq Nat
    BY <1>3, RowIs DEF Table
  <2> HIDE DEF moments
  <2>2. \E m \in moments(v) : \A n \in moments(v) : m <= n
    BY <1>4, <2>1, LeastMoment
  <2> QED
    BY <2>2 DEF Min
<1>5. firstSeen = [v \in Vendors |-> IF moments(v) = {} THEN Never ELSE Min(moments(v))]
  BY DEF Init
<1>6. ASSUME NEW v \in Vendors
      PROVE  firstSeen[v] \in {Never} \cup 0..LastMoment
  <2>1. \A m \in moments(v) : m \in 0..LastMoment
    BY <1>3, RowIs DEF Table
  <2>2. firstSeen[v] = IF moments(v) = {} THEN Never ELSE Min(moments(v))
    BY <1>5
  <2> HIDE DEF moments
  <2> QED
    BY <1>4, <2>1, <2>2
<1>7. ASSUME NEW i \in DOMAIN rows
      PROVE  firstSeen[rows[i].vendor] \in 0..rows[i].at
  <2>1. PICK v \in Vendors, m \in Nat : v = rows[i].vendor /\ m = rows[i].at
    BY <1>3, RowIs DEF Table
  <2>2. m \in moments(v)
    BY <2>1
  <2>3. firstSeen[v] = Min(moments(v))
    BY <1>5, <2>2
  <2>4. \A k \in moments(v) : k \in Nat
    BY <1>3, RowIs DEF Table
  <2> HIDE DEF moments
  <2>5. Min(moments(v)) \in Nat /\ Min(moments(v)) <= m
    BY <1>4, <2>2, <2>4
  <2> QED
    BY <2>1, <2>3, <2>5
<1>8. firstSeen \in [Vendors -> {Never} \cup 0..LastMoment]
  BY <1>5, <1>6
<1>9. ASSUME NEW v \in Vendors
      PROVE  firstSeen[v] <= now
  <2>1. CASE moments(v) = {}
    BY <1>2, <1>5, <2>1 DEF Never
  <2>2. CASE moments(v) # {}
    <3>1. firstSeen[v] = Min(moments(v))
      BY <1>5, <2>2
    <3>2. \A m \in moments(v) : m <= FirstMoment
      BY <1>1
    <3> HIDE DEF moments
    <3> QED
      BY <1>2, <1>4, <2>2, <3>1, <3>2
  <2> QED
    BY <2>1, <2>2
<1> QED
  BY <1>1, <1>2, <1>7, <1>8, <1>9 DEF IInv, TypeOK

LEMMA RequestIs ==
    ASSUME NEW req \in Requests
    PROVE  /\ req.agent \in Agents /\ req.vendor \in Vendors /\ req.resource \in Resources
           /\ req.channel \in Channels /\ req.amount \in Amounts
           /\ req.amount \in Nat /\ req.amount > 0
<1>1. /\ req \in [agent: Agents, vendor: Vendors, resource: Resources, channel: Channels,
                   amount: Amounts, purpose: Purposes, expected: Optional]
      /\ Amounts \subseteq Nat \ {0}
  BY ControlsAssumption DEF ControlsAssumption
<1>2. \A m \in Amounts : m \in Nat /\ m > 0
  BY <1>1
<1> QED
  BY <1>1, <1>2

LEMMA RecordTyped ==
    ASSUME IInv, NEW req \in Requests, NEW verdict \in Verdicts, Asked(req, verdict)
    PROVE  IInv'
<1>1. /\ rows \in Seq(Row) /\ DOMAIN rows \subseteq Ids /\ NextId \in Ids
      /\ NextId \notin DOMAIN rows /\ now \in 0..LastMoment /\ LastMoment \in Nat
      /\ \A i \in DOMAIN rows : rows[i].at <= now
  BY RowsAreATable, ControlsAssumption DEF IInv, TypeOK, Asked, MayAsk, ControlsAssumption
<1>2. /\ DOMAIN rows' = DOMAIN rows \cup {NextId}
      /\ \A i \in DOMAIN rows : rows'[i] = rows[i]
      /\ rows'[NextId] = NewRow(req, verdict)
  BY <1>1, Recorded DEF Asked
<1>3. rows' \in Seq(Row)
  <2>1. PICK row : row = NewRow(req, verdict)
    OBVIOUS
  <2>2. row \in Row
    BY <1>1, <2>1, RequestIs DEF NewRow, Row, NotReported
  <2>3. rows' = Append(rows, row)
    BY <2>1 DEF Asked, Record, NewRow
  <2> QED
    BY <1>1, <2>2, <2>3, AppendProperties
<1>4. PICK n : n = NextId
  OBVIOUS
<1>5. /\ now' = now
      /\ open' = IF verdict = "APPROVE" THEN open \cup {n} ELSE open
      /\ firstSeen' = [firstSeen EXCEPT ![req.vendor] = IF @ = Never THEN now ELSE @]
  BY <1>4 DEF Asked, Record
<1>6. rows'[n].at = now /\ rows'[n].vendor = req.vendor /\ rows'[n].verdict = verdict /\ ~rows'[n].settled
  BY <1>2, <1>4 DEF NewRow
<1>7. ASSUME NEW v \in Vendors
      PROVE  /\ firstSeen'[v] \in {Never} \cup 0..LastMoment /\ firstSeen'[v] <= now
             /\ firstSeen[v] # Never => firstSeen'[v] = firstSeen[v]
             /\ v = req.vendor => firstSeen'[v] \in 0..now
  <2>1. firstSeen \in [Vendors -> {Never} \cup 0..LastMoment] /\ firstSeen[v] <= now
    BY DEF IInv, TypeOK
  <2>2. firstSeen'[v] = IF v = req.vendor /\ firstSeen[v] = Never THEN now ELSE firstSeen[v]
    BY <1>5, <2>1
  <2> QED
    BY <1>1, <2>1, <2>2 DEF Never
<1>8. ASSUME NEW i \in DOMAIN rows
      PROVE  firstSeen'[rows[i].vendor] \in 0..rows[i].at
  <2>1. rows[i].vendor \in Vendors /\ firstSeen[rows[i].vendor] \in 0..rows[i].at
    BY <1>1, RowsAreATable, RowIs DEF Table, IInv, TypeOK
  <2>2. firstSeen[rows[i].vendor] # Never
    BY <2>1 DEF Never
  <2> QED
    BY <1>7, <2>1, <2>2
<1>9. \A i \in DOMAIN rows' : firstSeen'[rows'[i].vendor] \in 0..rows'[i].at /\ rows'[i].at <= now
  <2>1. req.vendor \in Vendors /\ now <= now
    BY <1>1, RequestIs
  <2> QED
    BY <1>1, <1>2, <1>4, <1>6, <1>7, <1>8, <2>1
<1>10. firstSeen' \in [Vendors -> {Never} \cup 0..LastMoment]
  <2>1. firstSeen' = [v \in Vendors |-> firstSeen'[v]]
    BY <1>5 DEF IInv, TypeOK
  <2> QED
    BY <1>7, <2>1
<1>11. open' \subseteq DOMAIN rows' /\ \A i \in open' : rows'[i].verdict = "APPROVE" /\ ~rows'[i].settled
  <2>1. open \subseteq DOMAIN rows /\ \A i \in open : rows[i].verdict = "APPROVE" /\ ~rows[i].settled
    BY DEF IInv, TypeOK
  <2> QED
    BY <1>2, <1>4, <1>5, <1>6, <2>1
<1>12. DOMAIN rows' \subseteq Ids
  BY <1>1, <1>2
<1>13. \A v \in Vendors : firstSeen'[v] <= now
  BY <1>7
<1> QED
  BY <1>1, <1>3, <1>5, <1>9, <1>10, <1>11, <1>12, <1>13 DEF IInv, TypeOK

LEMMA TypeStep ==
    ASSUME IInv, [Next]_vars
    PROVE  IInv'
<1>1. /\ rows \in Seq(Row) /\ open \subseteq DOMAIN rows /\ now \in Nat
      /\ \A i \in open : rows[i].verdict = "APPROVE" /\ ~rows[i].settled
  BY ControlsAssumption DEF IInv, TypeOK, ControlsAssumption
<1>2. ASSUME NEW i \in Ids, NEW success \in BOOLEAN, Ended(i, success)
      PROVE  IInv'
  <2>0. i \in DOMAIN rows
    BY <1>1, <1>2 DEF Ended, Settle, SettleRun
  <2>1. i \in DOMAIN rows /\ open' = open \ {i} /\ firstSeen' = firstSeen /\ now' = now
    BY <1>1, <1>2, <2>0, Settled
  <2>2. /\ rows' \in Seq(Row) /\ DOMAIN rows' = DOMAIN rows
        /\ \A j \in DOMAIN rows : SameRequest(j) /\ (j # i => rows'[j] = rows[j])
    BY <1>1, <1>2, <2>1, Settled
  <2>3. \A j \in open' : rows'[j].verdict = "APPROVE" /\ ~rows'[j].settled
    BY <1>1, <2>1, <2>2 DEF SameRequest
  <2>4. \A j \in DOMAIN rows : firstSeen[rows'[j].vendor] \in 0..rows'[j].at /\ rows'[j].at <= now
    BY <2>2 DEF SameRequest, IInv, TypeOK
  <2> QED
    BY <2>1, <2>2, <2>3, <2>4 DEF IInv, TypeOK
<1>3. ASSUME NEW i \in Ids, Abandon(i)
      PROVE  IInv'
  BY <1>3 DEF Abandon, IInv, TypeOK
<1>4. ASSUME NEW i \in Ids, MarkDisputed(i)
      PROVE  IInv'
  <2>1. /\ rows' \in Seq(Row) /\ DOMAIN rows' = DOMAIN rows
        /\ \A j \in DOMAIN rows : SameRequest(j) /\ rows'[j].settled = rows[j].settled
    BY <1>1, <1>4, Disputed
  <2>2. open' = open /\ firstSeen' = firstSeen /\ now' = now
    BY <1>4 DEF MarkDisputed
  <2>3. \A j \in open : rows'[j].verdict = "APPROVE" /\ ~rows'[j].settled
    BY <1>1, <2>1 DEF SameRequest
  <2>4. \A j \in DOMAIN rows : firstSeen[rows'[j].vendor] \in 0..rows'[j].at /\ rows'[j].at <= now
    BY <2>1 DEF SameRequest, IInv, TypeOK
  <2> QED
    BY <2>1, <2>2, <2>3, <2>4 DEF IInv, TypeOK
<1>5. ASSUME Tick
      PROVE  IInv'
  <2>1. /\ now \in 0..LastMoment /\ LastMoment \in Nat /\ now < LastMoment /\ now' = now + 1
        /\ UNCHANGED <<rows, firstSeen, open>>
    BY <1>5, ControlsAssumption DEF Tick, IInv, TypeOK, ControlsAssumption
  <2>2. \A i \in DOMAIN rows : rows[i].at \in Nat /\ rows[i].at <= now
    BY <1>1, RowsAreATable, RowIs DEF Table, IInv
  <2>3. \A v \in Vendors : firstSeen[v] \in Int /\ firstSeen[v] <= now
    BY <2>1 DEF IInv, TypeOK, Never
  <2>4. now' \in 0..LastMoment /\ \A m \in Int : m <= now => m <= now'
    BY <2>1
  <2>5. \A i \in DOMAIN rows : rows[i].at <= now'
    BY <2>2, <2>4
  <2>6. \A v \in Vendors : firstSeen[v] <= now'
    BY <2>3, <2>4
  <2> QED
    BY <2>1, <2>4, <2>5, <2>6 DEF IInv, TypeOK
<1>6. ASSUME UNCHANGED vars
      PROVE  IInv'
  BY <1>6 DEF vars, IInv, TypeOK
<1> QED
  BY <1>2, <1>3, <1>4, <1>5, <1>6, StepKinds, RecordTyped

\* Whatever the engines compute, every row keeps its type, and a payment whose outcome may
\* still be reported is an approved one that has not settled.
THEOREM ControlsTypeOK == Spec => []TypeOK
<1>1. IInv => TypeOK
  BY DEF IInv
<1> QED
  BY <1>1, TypeInit, TypeStep, PTL DEF Spec

-----------------------------------------------------------------------------
(***************************************************************************)
(* What is within the budget.                                              *)
(***************************************************************************)
LEMMA LengthsAre ==
    /\ Minute \in Nat \ {0} /\ Hour \in Nat \ {0} /\ Day \in Nat \ {0}
    /\ ThirtyDays \in Nat \ {0} /\ Month \in Nat \ {0}
BY ControlsAssumption DEF ControlsAssumption

LEMMA CountedIs ==
    ASSUME NEW table, Table(table), NEW i \in DOMAIN table
    PROVE  Counted(table, i) \in Nat
BY RowIs DEF Table, Counted

LEMMA SpentIs ==
    ASSUME NEW table, Table(table), NEW S, S \subseteq DOMAIN table
    PROVE  Spent(table, S) \in Nat
<1> DEFINE f == [i \in DOMAIN table |-> Counted(table, i)]
           P == {i \in S : Paid(table, i)}
<1>1. \A i \in P : f[i] \in Nat
  BY CountedIs
<1>2. IsFiniteSet(P)
  BY FS_Subset DEF Table
<1> HIDE DEF f, P
<1>3. SumFunctionOnSet(f, P) \in Nat
  BY <1>1, <1>2, SumType
<1> QED
  BY <1>3 DEF Spent, f, P

\* What is spent over fewer rows, of which no more is counted, is no more.
LEMMA SpentBelow ==
    ASSUME NEW table, Table(table), NEW other, Table(other),
           NEW S, S \subseteq DOMAIN table, NEW T, T \subseteq DOMAIN other,
           \A i \in S : Paid(table, i) =>
               i \in T /\ Paid(other, i) /\ Counted(table, i) <= Counted(other, i)
    PROVE  Spent(table, S) <= Spent(other, T)
<1> DEFINE f == [i \in DOMAIN table |-> Counted(table, i)]
           g == [i \in DOMAIN other |-> Counted(other, i)]
           P == {i \in S : Paid(table, i)}
           Q == {i \in T : Paid(other, i)}
<1>1. (\A i \in P : f[i] \in Nat) /\ (\A i \in Q : g[i] \in Nat)
  BY CountedIs
<1>2. IsFiniteSet(P) /\ IsFiniteSet(Q)
  BY FS_Subset DEF Table
<1>3. \A i \in P : i \in Q /\ f[i] <= g[i]
  OBVIOUS
<1> HIDE DEF f, g, P, Q
<1>4. SumFunctionOnSet(f, P) <= SumFunctionOnSet(g, Q)
  BY <1>1, <1>2, <1>3, SumBelow
<1> QED
  BY <1>4 DEF Spent, f, g, P, Q

LEMMA OwnRowsAre ==
    ASSUME NEW table, Table(table), NEW req, NEW moment
    PROVE  /\ OwnRows(table, req) \subseteq DOMAIN table
           /\ Since(table, OwnRows(table, req), moment) \subseteq DOMAIN table
           /\ IsFiniteSet(Since(table, OwnRows(table, req), moment))
           /\ Cardinality(Since(table, OwnRows(table, req), moment)) \in Nat
<1>1. /\ OwnRows(table, req) \subseteq DOMAIN table
      /\ Since(table, OwnRows(table, req), moment) \subseteq DOMAIN table
  BY DEF OwnRows, Since
<1>2. IsFiniteSet(Since(table, OwnRows(table, req), moment))
  BY <1>1, FS_Subset DEF Table
<1> QED
  BY <1>1, <1>2, FS_CardinalityType

LEMMA SnapshotTyped ==
    ASSUME NEW table, Table(table), NEW req, NEW t
    PROVE  LET snap == Snapshot(table, req, t)
           IN  /\ snap.spentToday \in Nat /\ snap.spentMonth \in Nat
               /\ snap.spentVendor \in Nat /\ snap.spentResource \in Nat
               /\ snap.countMinute \in Nat /\ snap.countHour \in Nat
               /\ snap.countToday \in Nat /\ snap.countMonth \in Nat
<1> DEFINE own == OwnRows(table, req)
           month == Since(table, own, t - ThirtyDays)
           snap == Snapshot(table, req, t)
<1>1. /\ month \subseteq DOMAIN table
      /\ Since(table, own, StartOfDay(t)) \subseteq DOMAIN table
      /\ Since(table, own, StartOfMonth(t)) \subseteq DOMAIN table
  BY OwnRowsAre
<1>2. \A S \in SUBSET DOMAIN table : Spent(table, S) \in Nat
  BY SpentIs
<1>3. /\ {i \in month : table[i].vendor = req.vendor} \in SUBSET DOMAIN table
      /\ {i \in month : table[i].resource = req.resource} \in SUBSET DOMAIN table
  BY <1>1
<1>4. /\ snap.spentToday = Spent(table, Since(table, own, StartOfDay(t)))
      /\ snap.spentMonth = Spent(table, Since(table, own, StartOfMonth(t)))
      /\ snap.spentVendor = Spent(table, {i \in month : table[i].vendor = req.vendor})
      /\ snap.spentResource = Spent(table, {i \in month : table[i].resource = req.resource})
  BY DEF Snapshot
<1>5. /\ snap.countMinute = Cardinality(Since(table, own, t - Minute))
      /\ snap.countHour = Cardinality(Since(table, own, t - Hour))
      /\ snap.countToday = Cardinality(Since(table, own, StartOfDay(t)))
      /\ snap.countMonth = Cardinality(Since(table, own, StartOfMonth(t)))
  BY DEF Snapshot
<1>6. \A moment : Cardinality(Since(table, own, moment)) \in Nat
  BY OwnRowsAre
<1> HIDE DEF snap, own, month
<1>7. /\ snap.spentToday \in Nat /\ snap.spentMonth \in Nat
      /\ snap.spentVendor \in Nat /\ snap.spentResource \in Nat
  BY <1>1, <1>2, <1>3, <1>4
<1>8. /\ snap.countMinute \in Nat /\ snap.countHour \in Nat
      /\ snap.countToday \in Nat /\ snap.countMonth \in Nat
  BY <1>5, <1>6
<1> QED
  BY <1>7, <1>8 DEF snap

\* A sequence of two and up to two more has each of them.
Joined(a, b, c, d, X, Y) ==
    <<a, b>> \o (IF X = {} THEN <<>> ELSE <<c>>) \o (IF Y = {} THEN <<>> ELSE <<d>>)

LEMMA TwoAndMore ==
    ASSUME NEW E, NEW a \in E, NEW b \in E, NEW c \in E, NEW d \in E, NEW X, NEW Y, NEW s,
           s = Joined(a, b, c, d, X, Y)
    PROVE  /\ \E i \in DOMAIN s : s[i] = a
           /\ \E i \in DOMAIN s : s[i] = b
           /\ X # {} => \E i \in DOMAIN s : s[i] = c
           /\ Y # {} => \E i \in DOMAIN s : s[i] = d
<1>1. PICK ab, x, y : /\ ab = <<a, b>>
                      /\ x = IF X = {} THEN <<>> ELSE <<c>>
                      /\ y = IF Y = {} THEN <<>> ELSE <<d>>
  OBVIOUS
<1>2. ab \in Seq(E) /\ Len(ab) = 2 /\ ab[1] = a /\ ab[2] = b
  BY <1>1
<1>3. x \in Seq(E) /\ Len(x) \in Nat /\ (X # {} => Len(x) = 1 /\ x[1] = c)
  BY <1>1
<1>4. y \in Seq(E) /\ Len(y) \in Nat /\ (Y # {} => Len(y) = 1 /\ y[1] = d)
  BY <1>1
<1>5. PICK both : both = ab \o x
  OBVIOUS
<1>6. /\ both \in Seq(E) /\ Len(both) = Len(ab) + Len(x)
      /\ \A i \in 1..(Len(ab) + Len(x)) : both[i] = IF i <= Len(ab) THEN ab[i] ELSE x[i - Len(ab)]
  BY <1>2, <1>3, <1>5, ConcatProperties
<1>7. s = both \o y
  <2>1. s = <<a, b>> \o (IF X = {} THEN <<>> ELSE <<c>>) \o (IF Y = {} THEN <<>> ELSE <<d>>)
    BY Zenon DEF Joined
  <2> QED
    BY <1>1, <1>5, <2>1, Zenon
<1>8. /\ s \in Seq(E) /\ Len(s) = Len(both) + Len(y)
      /\ \A i \in 1..(Len(both) + Len(y)) : s[i] = IF i <= Len(both) THEN both[i] ELSE y[i - Len(both)]
  <2>1. both \in Seq(E) /\ y \in Seq(E)
    BY <1>4, <1>6
  <2>2. PICK z : z = both \o y
    OBVIOUS
  <2>3. /\ z \in Seq(E) /\ Len(z) = Len(both) + Len(y)
        /\ \A i \in 1..(Len(both) + Len(y)) : z[i] = IF i <= Len(both) THEN both[i] ELSE y[i - Len(both)]
    BY <2>1, <2>2, ConcatProperties
  <2>4. s = z
    BY <1>7, <2>2, Zenon
  <2> QED
    BY <2>3, <2>4, Zenon
<1>9. DOMAIN s = 1..(2 + Len(x) + Len(y))
  BY <1>2, <1>3, <1>4, <1>6, <1>8, LenProperties
<1> DEFINE m == Len(x)
           n == Len(y)
<1>13. /\ m \in Nat /\ n \in Nat /\ DOMAIN s = 1..(2 + m + n)
       /\ \A i \in 1..(2 + m) : both[i] = IF i <= 2 THEN ab[i] ELSE x[i - 2]
       /\ \A i \in 1..(2 + m + n) : s[i] = IF i <= 2 + m THEN both[i] ELSE y[i - (2 + m)]
  BY <1>2, <1>3, <1>4, <1>6, <1>8, <1>9
<1>14. (X # {} => m = 1) /\ (Y # {} => n = 1)
  BY <1>3, <1>4
<1> HIDE DEF m, n
<1>10. 1 \in DOMAIN s /\ s[1] = a /\ 2 \in DOMAIN s /\ s[2] = b
  <2>1. 1 \in 1..(2 + m) /\ 2 \in 1..(2 + m) /\ 1 \in 1..(2 + m + n) /\ 2 \in 1..(2 + m + n)
    BY <1>13
  <2>2. both[1] = ab[1] /\ both[2] = ab[2]
    BY <1>13, <2>1
  <2>3. s[1] = both[1] /\ s[2] = both[2]
    BY <1>13, <2>1
  <2> QED
    BY <1>2, <1>13, <2>1, <2>2, <2>3
<1>11. ASSUME X # {}
       PROVE  3 \in DOMAIN s /\ s[3] = c
  <2>1. m = 1 /\ 3 \in 1..(2 + m) /\ 3 \in 1..(2 + m + n)
    BY <1>11, <1>13, <1>14
  <2>2. both[3] = x[1]
    BY <1>13, <2>1
  <2>3. s[3] = both[3]
    BY <1>13, <2>1
  <2> QED
    BY <1>3, <1>11, <1>13, <2>1, <2>2, <2>3
<1>12. ASSUME Y # {}
       PROVE  3 + m \in DOMAIN s /\ s[3 + m] = d
  <2>1. n = 1 /\ 3 + m \in 1..(2 + m + n) /\ ~(3 + m <= 2 + m) /\ (3 + m) - (2 + m) = 1
    BY <1>12, <1>13, <1>14
  <2>2. s[3 + m] = y[1]
    BY <1>13, <2>1
  <2> QED
    BY <1>4, <1>12, <1>13, <2>1, <2>2
<1> QED
  BY <1>10, <1>11, <1>12

LEMMA TreasuryIs ==
    ASSUME NEW channel \in Channels
    PROVE  LET cfg == Treasury[channel] IN
           /\ cfg.balance \in Nat /\ cfg.reserve \in Nat /\ cfg.daily \in Nat
           /\ cfg.monthly \in Nat /\ cfg.perVendor \in Nat /\ cfg.perResource \in Nat
           /\ cfg.velocityMinute \in Nat /\ cfg.velocityHour \in Nat
           /\ cfg.perDay \in Optional /\ cfg.perMonth \in Optional
BY ControlsAssumption DEF ControlsAssumption, TreasuryConfig

\* A payment that is within the budget leaves every counter and every envelope in place.
LEMMA CountersAdmit ==
    ASSUME NEW channel \in Channels, NEW table, Table(table), NEW req, NEW t, NEW amount,
           Budget(Treasury[channel], Snapshot(table, req, t), amount).ok
    PROVE  LET cfg == Treasury[channel]
               snap == Snapshot(table, req, t)
           IN  /\ snap.countMinute < cfg.velocityMinute
               /\ snap.countHour < cfg.velocityHour
               /\ \A n \in cfg.perDay : snap.countToday < n
               /\ \A n \in cfg.perMonth : snap.countMonth < n
<1> DEFINE cfg == Treasury[channel]
           snap == Snapshot(table, req, t)
           counters == Counters(cfg, snap)
<1>1. /\ snap.countMinute \in Nat /\ snap.countHour \in Nat
      /\ snap.countToday \in Nat /\ snap.countMonth \in Nat
  BY SnapshotTyped
<1>2. /\ cfg.velocityMinute \in Nat /\ cfg.velocityHour \in Nat
      /\ cfg.perDay \in Optional /\ cfg.perMonth \in Optional
  BY TreasuryIs
<1>3. \A i \in DOMAIN counters : ~Exhausted(counters[i])
  BY DEF Budget
<1> HIDE DEF cfg, snap
<1>4. PICK minute, hour, day, month :
         /\ minute = Envelope("velocity_60s", cfg.velocityMinute, snap.countMinute)
         /\ hour = Envelope("velocity_1h", cfg.velocityHour, snap.countHour)
         /\ day = Envelope("actions_per_day", CHOOSE n \in cfg.perDay : TRUE, snap.countToday)
         /\ month = Envelope("actions_per_month", CHOOSE n \in cfg.perMonth : TRUE, snap.countMonth)
  OBVIOUS
<1>5. counters = <<minute, hour>> \o (IF cfg.perDay = {} THEN <<>> ELSE <<day>>)
                                 \o (IF cfg.perMonth = {} THEN <<>> ELSE <<month>>)
  BY <1>4 DEF Counters
<1> HIDE DEF counters
<1>6. /\ ~Exhausted(minute) /\ ~Exhausted(hour)
      /\ cfg.perDay # {} => ~Exhausted(day)
      /\ cfg.perMonth # {} => ~Exhausted(month)
  <2>1. PICK E, X, Y, q : /\ E = {minute, hour, day, month}
                          /\ X = cfg.perDay /\ Y = cfg.perMonth /\ q = counters
    OBVIOUS
  <2>2. q = Joined(minute, hour, day, month, X, Y)
    BY <1>5, <2>1 DEF Joined
  <2>3. minute \in E /\ hour \in E /\ day \in E /\ month \in E
    BY <2>1
  <2>4. /\ \E i \in DOMAIN q : q[i] = minute
        /\ \E i \in DOMAIN q : q[i] = hour
        /\ X # {} => \E i \in DOMAIN q : q[i] = day
        /\ Y # {} => \E i \in DOMAIN q : q[i] = month
    BY <2>2, <2>3, TwoAndMore
  <2> QED
    BY <1>3, <2>1, <2>4
<1>7. snap.countMinute < cfg.velocityMinute /\ snap.countHour < cfg.velocityHour
  BY <1>1, <1>2, <1>4, <1>6 DEF Exhausted, Envelope
<1>8. ASSUME NEW n \in cfg.perDay
      PROVE  snap.countToday < n
  <2>1. PICK limit : limit = CHOOSE m \in cfg.perDay : TRUE
    OBVIOUS
  <2>2. n \in Nat /\ limit = n
    BY <1>2, <2>1 DEF Optional
  <2>3. day.limit = n /\ day.used = snap.countToday
    BY <1>4, <2>1, <2>2 DEF Envelope
  <2> QED
    BY <1>1, <1>6, <2>2, <2>3 DEF Exhausted
<1>9. ASSUME NEW n \in cfg.perMonth
      PROVE  snap.countMonth < n
  <2>1. PICK limit : limit = CHOOSE m \in cfg.perMonth : TRUE
    OBVIOUS
  <2>2. n \in Nat /\ limit = n
    BY <1>2, <2>1 DEF Optional
  <2>3. month.limit = n /\ month.used = snap.countMonth
    BY <1>4, <2>1, <2>2 DEF Envelope
  <2> QED
    BY <1>1, <1>6, <2>2, <2>3 DEF Exhausted
<1> QED
  BY <1>7, <1>8, <1>9 DEF cfg, snap

HasAll(s, p) == \A i \in 1..Len(p) : \E k \in DOMAIN s : s[k] = p[i]

LEMMA JoinHas ==
    ASSUME NEW E, NEW p \in Seq(E), NEW q \in Seq(E), NEW s, s = p \o q
    PROVE  HasAll(s, p) /\ HasAll(s, q)
<1>1. Len(p) \in Nat /\ Len(q) \in Nat
  BY LenProperties
<1>2. /\ s \in Seq(E) /\ Len(s) = Len(p) + Len(q)
      /\ \A i \in 1..(Len(p) + Len(q)) : s[i] = IF i <= Len(p) THEN p[i] ELSE q[i - Len(p)]
  BY ConcatProperties
<1>3. DOMAIN s = 1..(Len(p) + Len(q))
  BY <1>2, LenProperties
<1>4. ASSUME NEW i \in 1..Len(p)
      PROVE  i \in DOMAIN s /\ s[i] = p[i]
  BY <1>1, <1>2, <1>3
<1>5. ASSUME NEW i \in 1..Len(q)
      PROVE  i + Len(p) \in DOMAIN s /\ s[i + Len(p)] = q[i]
  <2>1. PICK k : k = i + Len(p)
    OBVIOUS
  <2>2. k \in 1..(Len(p) + Len(q)) /\ ~(k <= Len(p)) /\ k - Len(p) = i
    BY <1>1, <2>1
  <2> QED
    BY <1>2, <1>3, <2>1, <2>2
<1> QED
  BY <1>4, <1>5 DEF HasAll

LEMMA EnvelopesAdmit ==
    ASSUME NEW channel \in Channels, NEW table, Table(table), NEW req, NEW t,
           NEW amount \in Nat, amount > 0,
           Budget(Treasury[channel], Snapshot(table, req, t), amount).ok
    PROVE  LET cfg == Treasury[channel]
               snap == Snapshot(table, req, t)
           IN  /\ snap.spentToday + amount <= cfg.daily
               /\ snap.spentMonth + amount <= cfg.monthly
               /\ cfg.balance - (snap.spentMonth + amount) >= cfg.reserve
               /\ snap.spentVendor + amount <= cfg.perVendor
               /\ snap.spentResource + amount <= cfg.perResource
<1> DEFINE cfg == Treasury[channel]
           snap == Snapshot(table, req, t)
           all == Envelopes(cfg, snap) \o Reserve(cfg, snap, amount)
<1>1. /\ snap.spentToday \in Nat /\ snap.spentMonth \in Nat
      /\ snap.spentVendor \in Nat /\ snap.spentResource \in Nat
  BY SnapshotTyped
<1>2. /\ cfg.balance \in Nat /\ cfg.reserve \in Nat /\ cfg.daily \in Nat
      /\ cfg.monthly \in Nat /\ cfg.perVendor \in Nat /\ cfg.perResource \in Nat
  BY TreasuryIs
<1>3. \A i \in DOMAIN all : ~(amount > Headroom(all[i]))
  BY DEF Budget
<1> HIDE DEF cfg, snap
<1>4. PICK a, b, c, d, e, f, g :
         /\ a = Envelope("per_transaction", PerTxLimit(cfg, snap.vendor), 0)
         /\ b = Envelope("balance", Above(cfg.balance, cfg.reserve), snap.spentMonth)
         /\ c = Envelope("daily", cfg.daily, snap.spentToday)
         /\ d = Envelope("monthly", cfg.monthly, snap.spentMonth)
         /\ e = Envelope("per_vendor", cfg.perVendor, snap.spentVendor)
         /\ f = Envelope("per_resource", cfg.perResource, snap.spentResource)
         /\ g = Envelope("emergency_reserve", cfg.reserve, cfg.reserve)
  OBVIOUS
<1>5. PICK p, q, s : p = Envelopes(cfg, snap) /\ q = Reserve(cfg, snap, amount) /\ s = all
  OBVIOUS
<1>6. p = <<a, b, c, d, e, f>>
  BY <1>4, <1>5 DEF Envelopes
<1>7. q = <<g>> \/ q = <<>>
  BY <1>4, <1>5 DEF Reserve
<1>8. cfg.balance - snap.spentMonth - amount < cfg.reserve => q = <<g>>
  BY <1>4, <1>5 DEF Reserve
<1>9. PICK E : E = {a, b, c, d, e, f, g}
  OBVIOUS
<1>10. p \in Seq(E) /\ Len(p) = 6
  BY <1>6, <1>9
<1>11. q \in Seq(E) /\ (q = <<g>> => Len(q) = 1 /\ q[1] = g)
  <2>1. CASE q = <<g>>
    <3>1. <<g>> \in Seq(E) /\ Len(<<g>>) = 1 /\ <<g>>[1] = g
      BY <1>9
    <3> QED
      BY <2>1, <3>1
  <2>2. CASE q = <<>>
    <3>1. <<>> \in Seq(E) /\ <<>> # <<g>>
      OBVIOUS
    <3> QED
      BY <2>2, <3>1
  <2> QED
    BY <1>7, <2>1, <2>2
<1>12. s = p \o q
  BY <1>5
<1>13. \A i \in DOMAIN s : ~(amount > Headroom(s[i]))
  BY <1>3, <1>5
<1> HIDE DEF all
<1>14. /\ \A i \in 1..Len(p) : ~(amount > Headroom(p[i]))
       /\ \A i \in 1..Len(q) : ~(amount > Headroom(q[i]))
  <2>1. HasAll(s, p) /\ HasAll(s, q)
    <3>1. p \in Seq(E) /\ q \in Seq(E)
      BY <1>10, <1>11
    <3> QED
      BY <1>12, <3>1, JoinHas, Zenon
  <2> QED
    BY <1>13, <2>1 DEF HasAll
<1>15. /\ ~(amount > Headroom(c)) /\ ~(amount > Headroom(d))
       /\ ~(amount > Headroom(e)) /\ ~(amount > Headroom(f))
  <2>1. p[3] = c /\ p[4] = d /\ p[5] = e /\ p[6] = f
    BY <1>6
  <2>2. 3 \in 1..6 /\ 4 \in 1..6 /\ 5 \in 1..6 /\ 6 \in 1..6
    OBVIOUS
  <2> QED
    BY <1>10, <1>14, <2>1, <2>2
<1>16. \A limit, used \in Nat : ~(amount > Above(limit, used)) => used + amount <= limit
  BY DEF Above
<1>17. /\ snap.spentToday + amount <= cfg.daily
       /\ snap.spentMonth + amount <= cfg.monthly
       /\ snap.spentVendor + amount <= cfg.perVendor
       /\ snap.spentResource + amount <= cfg.perResource
  <2>1. /\ Headroom(c) = Above(cfg.daily, snap.spentToday)
        /\ Headroom(d) = Above(cfg.monthly, snap.spentMonth)
        /\ Headroom(e) = Above(cfg.perVendor, snap.spentVendor)
        /\ Headroom(f) = Above(cfg.perResource, snap.spentResource)
    BY <1>4 DEF Headroom, Envelope
  <2> QED
    BY <1>1, <1>2, <1>15, <1>16, <2>1
<1>18. cfg.balance - (snap.spentMonth + amount) >= cfg.reserve
  <2> SUFFICES ASSUME ~(cfg.balance - (snap.spentMonth + amount) >= cfg.reserve)
               PROVE  FALSE
    OBVIOUS
  <2>1. cfg.balance - snap.spentMonth - amount < cfg.reserve
    BY <1>1, <1>2
  <2>2. ~(amount > Headroom(g))
    BY <1>8, <1>11, <1>14, <2>1
  <2>3. Headroom(g) = 0
    BY <1>2, <1>4 DEF Headroom, Envelope, Above
  <2> QED
    BY <2>2, <2>3
<1> QED
  BY <1>17, <1>18 DEF cfg, snap

\* What lies in the same day or month as a moment is no earlier than its start.
LEMMA SamePeriod ==
    ASSUME NEW a \in Nat, NEW b \in Nat, NEW d \in Nat \ {0}, a \div d = b \div d
    PROVE  a >= b - (b % d)
BY SMTT(60)

-----------------------------------------------------------------------------
(***************************************************************************)
(* Rates.                                                                  *)
(***************************************************************************)
\* The approvals RatesHold counts.
ApprovedLike(i) == {j \in Alike(i) : rows[j].verdict = "APPROVE"}
Stretch(i, length) == EndingAt(i, length, ApprovedLike(i))
Period(i, length) == {j \in ApprovedLike(i) : rows[j].at \div length = rows[i].at \div length}

Rates(i) ==
    LET cfg == Treasury[rows[i].channel]
    IN  /\ Cardinality(Stretch(i, Minute)) <= cfg.velocityMinute
        /\ Cardinality(Stretch(i, Hour)) <= cfg.velocityHour
        /\ \A n \in cfg.perDay : Cardinality(Period(i, Day)) <= n
        /\ \A n \in cfg.perMonth : Cardinality(Period(i, Month)) <= n

LEMMA RatesHoldIs ==
    RatesHold <=> \A i \in DOMAIN rows : rows[i].verdict = "APPROVE" => Rates(i)
BY DEF RatesHold, Rates, Stretch, Period, ApprovedLike

\* One more of less than the limit is within it.
LEMMA OneMore ==
    ASSUME NEW W, NEW V, NEW O, NEW n, NEW limit \in Nat,
           IsFiniteSet(V), IsFiniteSet(O),
           n \in W => W \subseteq O \cup {n} /\ Cardinality(O) < limit,
           n \notin W => W \subseteq V /\ Cardinality(V) <= limit
    PROVE  Cardinality(W) <= limit
<1>1. CASE n \in W
  <2>1. PICK U : U = O \cup {n}
    OBVIOUS
  <2>4. Cardinality(O) \in Nat
    BY FS_CardinalityType
  <2>5. /\ IsFiniteSet(O \cup {n})
        /\ Cardinality(O \cup {n}) = IF n \in O THEN Cardinality(O) ELSE Cardinality(O) + 1
    BY FS_AddElement
  <2>2. IsFiniteSet(U) /\ Cardinality(U) <= Cardinality(O) + 1 /\ Cardinality(O) \in Nat
    BY <2>1, <2>4, <2>5
  <2>3. Cardinality(W) <= Cardinality(U) /\ Cardinality(W) \in Nat /\ Cardinality(U) \in Nat
    BY <1>1, <2>1, <2>2, FS_Subset, FS_CardinalityType
  <2> QED
    BY <1>1, <2>2, <2>3
<1>2. CASE n \notin W
  <2>1. Cardinality(W) <= Cardinality(V) /\ Cardinality(W) \in Nat /\ Cardinality(V) \in Nat
    BY <1>2, FS_Subset, FS_CardinalityType
  <2> QED
    BY <1>2, <2>1
<1> QED
  BY <1>1, <1>2

LEMMA SeqIsATable ==
    ASSUME NEW table \in Seq(Row)
    PROVE  Table(table)
<1>1. Len(table) \in Nat /\ DOMAIN table = 1..Len(table) /\ \A i \in DOMAIN table : table[i] \in Row
  BY LenProperties
<1> QED
  BY <1>1, FS_Interval DEF Table

LEMMA ApprovalsAreRows ==
    ASSUME Table(rows), NEW i, NEW length
    PROVE  /\ Stretch(i, length) \subseteq DOMAIN rows /\ IsFiniteSet(Stretch(i, length))
           /\ Period(i, length) \subseteq DOMAIN rows /\ IsFiniteSet(Period(i, length))
<1>1. Stretch(i, length) \subseteq DOMAIN rows /\ Period(i, length) \subseteq DOMAIN rows
  BY DEF Stretch, Period, EndingAt, ApprovedLike, Alike
<1> QED
  BY <1>1, FS_Subset DEF Table

\* A new row counts where it is the latest; there, all the others had been counted.
LEMMA RecordRates ==
    ASSUME IInv, RatesHold, NEW req \in Requests, NEW verdict \in Verdicts, Asked(req, verdict)
    PROVE  RatesHold'
<1> DEFINE own == OwnRows(rows, req)
           cfg == Treasury[req.channel]
           snap == Snapshot(rows, req, now)
<1>1. IInv' /\ now' = now /\ now \in Nat
  <2>1. IInv'
    BY RecordTyped
  <2>2. now' = now
    BY DEF Asked, Record
  <2>3. now \in Nat
    BY ControlsAssumption DEF IInv, TypeOK, ControlsAssumption
  <2> QED
    BY <2>1, <2>2, <2>3
<1>2. Table(rows) /\ Table(rows)' /\ NextId \notin DOMAIN rows
  <2>1. rows \in Seq(Row) /\ rows' \in Seq(Row)
    BY <1>1 DEF IInv, TypeOK
  <2>2. Table(rows') /\ Table(rows)
    BY <2>1, SeqIsATable
  <2> QED
    BY <2>1, <2>2, RowsAreATable DEF Table
<1>3. PICK n : n = NextId
  OBVIOUS
<1>4. /\ DOMAIN rows' = DOMAIN rows \cup {n} /\ n \notin DOMAIN rows
      /\ \A i \in DOMAIN rows : rows'[i] = rows[i]
      /\ rows'[n] = NewRow(req, verdict)
  BY <1>2, <1>3, Recorded DEF IInv, TypeOK, Asked
<1>5. /\ rows'[n].agent = req.agent /\ rows'[n].channel = req.channel
      /\ rows'[n].at = now /\ rows'[n].verdict = verdict
  BY <1>4 DEF NewRow
<1>6. \A i \in DOMAIN rows' : rows'[i].at \in Nat /\ rows'[i].at <= now
  BY <1>1, <1>2, RowIs DEF Table, IInv
<1>7. req.channel \in Channels
  BY RequestIs
<1>8. ASSUME verdict = "APPROVE"
      PROVE  /\ Cardinality(Since(rows, own, now - Minute)) < cfg.velocityMinute
             /\ Cardinality(Since(rows, own, now - Hour)) < cfg.velocityHour
             /\ \A m \in cfg.perDay : Cardinality(Since(rows, own, StartOfDay(now))) < m
             /\ \A m \in cfg.perMonth : Cardinality(Since(rows, own, StartOfMonth(now))) < m
  <2>1. Budget(cfg, snap, req.amount).ok
    BY <1>8, DecidedIs DEF Asked, BudgetOf
  <2>2. /\ snap.countMinute < cfg.velocityMinute
        /\ snap.countHour < cfg.velocityHour
        /\ \A m \in cfg.perDay : snap.countToday < m
        /\ \A m \in cfg.perMonth : snap.countMonth < m
    BY <1>2, <1>7, <2>1, CountersAdmit
  <2>3. /\ snap.countMinute = Cardinality(Since(rows, own, now - Minute))
        /\ snap.countHour = Cardinality(Since(rows, own, now - Hour))
        /\ snap.countToday = Cardinality(Since(rows, own, StartOfDay(now)))
        /\ snap.countMonth = Cardinality(Since(rows, own, StartOfMonth(now)))
    BY DEF Snapshot
  <2> HIDE DEF snap, cfg
  <2> QED
    BY <2>2, <2>3
<1> SUFFICES ASSUME NEW k \in DOMAIN rows', rows'[k].verdict = "APPROVE"
             PROVE  Rates(k)'
  BY DEF RatesHold, Rates, Stretch, Period, ApprovedLike
<1>9. ASSUME n \in ApprovedLike(k)'
      PROVE  /\ verdict = "APPROVE" /\ rows'[k].agent = req.agent /\ rows'[k].channel = req.channel
             /\ \A j \in ApprovedLike(k)' : j # n => j \in own /\ rows'[j].at = rows[j].at
  BY <1>4, <1>5, <1>9 DEF ApprovedLike, Alike, OwnRows
<1>10. ASSUME n \notin ApprovedLike(k)'
       PROVE  k \in DOMAIN rows /\ rows'[k] = rows[k] /\ ApprovedLike(k)' \subseteq ApprovedLike(k)
  BY <1>4, <1>5, <1>10 DEF ApprovedLike, Alike
<1>11. k \in DOMAIN rows => rows'[k] = rows[k] /\ Rates(k)
  BY <1>4, RatesHoldIs
<1>12. ASSUME NEW length \in Nat, n \in Stretch(k, length)'
       PROVE  /\ verdict = "APPROVE" /\ rows'[k].channel = req.channel
              /\ Stretch(k, length)' \subseteq Since(rows, own, now - length) \cup {n}
  <2>1. n \in ApprovedLike(k)' /\ rows'[n].at <= rows'[k].at
    BY <1>12 DEF Stretch, EndingAt
  <2>2. rows'[k].at = now
    BY <1>1, <1>5, <1>6, <2>1
  <2>3. ASSUME NEW j \in Stretch(k, length)', j # n
        PROVE  j \in Since(rows, own, now - length)
    <3>1. j \in ApprovedLike(k)' /\ now - length <= rows'[j].at
      BY <2>2, <2>3 DEF Stretch, EndingAt
    <3>2. j \in own /\ rows'[j].at = rows[j].at
      BY <1>9, <2>1, <2>3, <3>1
    <3>3. rows'[j].at \in Nat
      BY <1>6, <3>1 DEF ApprovedLike, Alike
    <3> QED
      BY <1>1, <3>1, <3>2, <3>3 DEF Since
  <2> QED
    BY <1>9, <2>1, <2>3
<1>13. ASSUME NEW length \in Nat, n \notin Stretch(k, length)'
       PROVE  k \in DOMAIN rows /\ Stretch(k, length)' \subseteq Stretch(k, length)
  <2>1. k # n
    <3> SUFFICES ASSUME k = n
                 PROVE  FALSE
      OBVIOUS
    <3>1. n \in ApprovedLike(k)'
      BY <1>4 DEF ApprovedLike, Alike
    <3>2. rows'[n].at \in Nat /\ rows'[n].at - length <= rows'[n].at /\ rows'[n].at <= rows'[n].at
      BY <1>1, <1>5
    <3> QED
      BY <1>13, <3>1, <3>2 DEF Stretch, EndingAt
  <2>2. k \in DOMAIN rows /\ rows'[k] = rows[k]
    BY <1>4, <2>1
  <2>3. ASSUME NEW j \in Stretch(k, length)'
        PROVE  j \in Stretch(k, length)
    <3>1. j # n /\ j \in DOMAIN rows /\ rows'[j] = rows[j]
      BY <1>4, <1>13, <2>3 DEF Stretch, EndingAt, ApprovedLike, Alike
    <3> QED
      BY <2>2, <2>3, <3>1 DEF Stretch, EndingAt, ApprovedLike, Alike
  <2> QED
    BY <2>2, <2>3
<1>14. ASSUME NEW length \in Nat \ {0}, n \in Period(k, length)'
       PROVE  /\ verdict = "APPROVE" /\ rows'[k].channel = req.channel
              /\ Period(k, length)' \subseteq Since(rows, own, now - (now % length)) \cup {n}
  <2>1. n \in ApprovedLike(k)' /\ now \div length = rows'[k].at \div length
    BY <1>5, <1>14 DEF Period
  <2>2. ASSUME NEW j \in Period(k, length)', j # n
        PROVE  j \in Since(rows, own, now - (now % length))
    <3>1. j \in ApprovedLike(k)' /\ rows'[j].at \div length = now \div length
      BY <2>1, <2>2 DEF Period
    <3>2. j \in own /\ rows'[j].at = rows[j].at
      BY <1>9, <2>1, <2>2, <3>1
    <3>3. rows'[j].at \in Nat
      BY <1>6, <3>1 DEF ApprovedLike, Alike
    <3>4. rows'[j].at >= now - (now % length)
      BY <1>1, <3>1, <3>3, SamePeriod
    <3> QED
      BY <3>2, <3>4 DEF Since
  <2> QED
    BY <1>9, <2>1, <2>2
<1>15. ASSUME NEW length \in Nat \ {0}, n \notin Period(k, length)'
       PROVE  k \in DOMAIN rows /\ Period(k, length)' \subseteq Period(k, length)
  <2>1. k # n
    BY <1>4, <1>15 DEF Period, ApprovedLike, Alike
  <2>2. k \in DOMAIN rows /\ rows'[k] = rows[k]
    BY <1>4, <2>1
  <2>3. ASSUME NEW j \in Period(k, length)'
        PROVE  j \in Period(k, length)
    <3>1. j # n /\ j \in DOMAIN rows /\ rows'[j] = rows[j]
      BY <1>4, <1>15, <2>3 DEF Period, ApprovedLike, Alike
    <3> QED
      BY <2>2, <2>3, <3>1 DEF Period, ApprovedLike, Alike
  <2> QED
    BY <2>2, <2>3
<1>16. PICK limits : limits = Treasury[rows'[k].channel]
  OBVIOUS
<1>17. /\ limits.velocityMinute \in Nat /\ limits.velocityHour \in Nat
       /\ limits.perDay \subseteq Nat /\ limits.perMonth \subseteq Nat
  <2>1. rows'[k].channel \in Channels
    BY <1>2, RowIs DEF Table
  <2> QED
    BY <1>16, <2>1, TreasuryIs DEF Optional
<1>18. \A moment : IsFiniteSet(Since(rows, own, moment))
  BY <1>2, OwnRowsAre
<1>19. \A length : IsFiniteSet(Stretch(k, length)) /\ IsFiniteSet(Period(k, length))
  BY <1>2, ApprovalsAreRows
<1>20. ASSUME k \in DOMAIN rows
       PROVE  /\ Cardinality(Stretch(k, Minute)) <= limits.velocityMinute
              /\ Cardinality(Stretch(k, Hour)) <= limits.velocityHour
              /\ \A m \in limits.perDay : Cardinality(Period(k, Day)) <= m
              /\ \A m \in limits.perMonth : Cardinality(Period(k, Month)) <= m
  BY <1>11, <1>16, <1>20 DEF Rates
<1>21. ASSUME verdict = "APPROVE", rows'[k].channel = req.channel
       PROVE  /\ Cardinality(Since(rows, own, now - Minute)) < limits.velocityMinute
              /\ Cardinality(Since(rows, own, now - Hour)) < limits.velocityHour
              /\ \A m \in limits.perDay : Cardinality(Since(rows, own, now - (now % Day))) < m
              /\ \A m \in limits.perMonth : Cardinality(Since(rows, own, now - (now % Month))) < m
  BY <1>8, <1>16, <1>21 DEF StartOfDay, StartOfMonth
<1> HIDE DEF own, cfg, snap
<1> DEFINE counted == verdict = "APPROVE" /\ rows'[k].channel = req.channel
<1>26. ASSUME NEW length \in Nat, NEW m \in Nat,
              k \in DOMAIN rows => Cardinality(Stretch(k, length)) <= m,
              counted => Cardinality(Since(rows, own, now - length)) < m
       PROVE  Cardinality(Stretch(k, length)') <= m
  <2>1. PICK W, V, O : W = Stretch(k, length)' /\ V = Stretch(k, length) /\ O = Since(rows, own, now - length)
    OBVIOUS
  <2>2. n \in W => W \subseteq O \cup {n} /\ Cardinality(O) < m
    BY <1>12, <1>26, <2>1
  <2>3. n \notin W => W \subseteq V /\ Cardinality(V) <= m
    BY <1>13, <1>26, <2>1
  <2>4. IsFiniteSet(V) /\ IsFiniteSet(O)
    BY <1>18, <1>19, <2>1
  <2>5. Cardinality(W) <= m
    BY <2>2, <2>3, <2>4, OneMore
  <2> QED
    BY <2>1, <2>5
<1>27. ASSUME NEW length \in Nat \ {0}, NEW m \in Nat,
              k \in DOMAIN rows => Cardinality(Period(k, length)) <= m,
              counted => Cardinality(Since(rows, own, now - (now % length))) < m
       PROVE  Cardinality(Period(k, length)') <= m
  <2>1. PICK W, V, O : W = Period(k, length)' /\ V = Period(k, length) /\ O = Since(rows, own, now - (now % length))
    OBVIOUS
  <2>2. n \in W => W \subseteq O \cup {n} /\ Cardinality(O) < m
    BY <1>14, <1>27, <2>1
  <2>3. n \notin W => W \subseteq V /\ Cardinality(V) <= m
    BY <1>15, <1>27, <2>1
  <2>4. IsFiniteSet(V) /\ IsFiniteSet(O)
    BY <1>18, <1>19, <2>1
  <2>5. Cardinality(W) <= m
    BY <2>2, <2>3, <2>4, OneMore
  <2> QED
    BY <2>1, <2>5
<1>22. Cardinality(Stretch(k, Minute)') <= limits.velocityMinute
  BY <1>17, <1>20, <1>21, <1>26, LengthsAre
<1>23. Cardinality(Stretch(k, Hour)') <= limits.velocityHour
  BY <1>17, <1>20, <1>21, <1>26, LengthsAre
<1>24. \A m \in limits.perDay : Cardinality(Period(k, Day)') <= m
  BY <1>17, <1>20, <1>21, <1>27, LengthsAre
<1>25. \A m \in limits.perMonth : Cardinality(Period(k, Month)') <= m
  BY <1>17, <1>20, <1>21, <1>27, LengthsAre
<1> QED
  BY <1>16, <1>22, <1>23, <1>24, <1>25 DEF Rates

\* Outcomes count for nothing.
LEMMA SameRates ==
    ASSUME RatesHold, DOMAIN rows' = DOMAIN rows, \A j \in DOMAIN rows : SameRequest(j)
    PROVE  RatesHold'
<1> SUFFICES ASSUME NEW k \in DOMAIN rows, rows'[k].verdict = "APPROVE"
             PROVE  Rates(k)'
  BY DEF RatesHold, Rates, Stretch, Period, ApprovedLike
<1>1. ApprovedLike(k)' = ApprovedLike(k)
  BY DEF ApprovedLike, Alike, SameRequest
<1>2. /\ ApprovedLike(k) \subseteq DOMAIN rows
      /\ rows'[k].channel = rows[k].channel /\ rows'[k].at = rows[k].at
      /\ \A j \in DOMAIN rows : rows'[j].at = rows[j].at
  BY DEF ApprovedLike, Alike, SameRequest
<1>3. \A length : Stretch(k, length)' = Stretch(k, length) /\ Period(k, length)' = Period(k, length)
  BY <1>1, <1>2 DEF Stretch, Period, EndingAt
<1>4. Rates(k)
  BY RatesHoldIs DEF SameRequest
<1> QED
  BY <1>2, <1>3, <1>4 DEF Rates

LEMMA RatesStep ==
    ASSUME IInv, RatesHold, [Next]_vars
    PROVE  RatesHold'
<1>1. rows \in Seq(Row) /\ open \subseteq DOMAIN rows
  BY DEF IInv, TypeOK
<1>2. ASSUME NEW i \in Ids, NEW success \in BOOLEAN, Ended(i, success)
      PROVE  RatesHold'
  <2>1. i \in DOMAIN rows
    BY <1>1, <1>2 DEF Ended, Settle, SettleRun
  <2> QED
    BY <1>1, <1>2, <2>1, Settled, SameRates
<1>3. ASSUME NEW i \in Ids, MarkDisputed(i)
      PROVE  RatesHold'
  BY <1>1, <1>3, Disputed, SameRates
<1>4. ASSUME rows' = rows
      PROVE  RatesHold'
  BY <1>4, SameRates DEF SameRequest
<1> QED
  BY <1>2, <1>3, <1>4, StepKinds, RecordRates DEF Abandon, Tick, vars

\* If the rows that were seeded keep the rates, every row does, in every minute, hour, day and
\* month, whatever became of the payments.
THEOREM ControlsRatesHold == Spec /\ RatesHold => []RatesHold
<1>1. IInv /\ RatesHold /\ [Next]_vars => IInv' /\ RatesHold'
  BY TypeStep, RatesStep
<1> QED
  BY <1>1, TypeInit, PTL DEF Spec

-----------------------------------------------------------------------------
(***************************************************************************)
(* Envelopes.                                                              *)
(***************************************************************************)
\* The windows EnvelopesHold sums over, and what they may come to; "balance" is the month
\* again, with what the reserve leaves of the balance.
Windows == {"day", "month", "balance", "vendor", "resource"}

Falls(w, r, s) ==
    /\ w = "day" => r.at \div Day = s.at \div Day
    /\ w \in {"month", "balance"} => r.at \div Month = s.at \div Month
    /\ w \in {"vendor", "resource"} => s.at - ThirtyDays <= r.at /\ r.at <= s.at
    /\ w = "vendor" => r.vendor = s.vendor
    /\ w = "resource" => r.resource = s.resource

Window(t, i, w) ==
    {j \in DOMAIN t : /\ t[j].agent = t[i].agent /\ t[j].channel = t[i].channel
                      /\ j <= i /\ Falls(w, t[j], t[i])}

Limit(channel, w) ==
    LET cfg == Treasury[channel]
    IN  CASE w = "day" -> cfg.daily
          [] w = "month" -> cfg.monthly
          [] w = "balance" -> cfg.balance - cfg.reserve
          [] w = "vendor" -> cfg.perVendor
          [] w = "resource" -> cfg.perResource

Over(t, i) == Above(Counted(t, i), t[i].asked)

Keeps(t, i) ==
    \A w \in Windows : Spent(t, Window(t, i, w)) <= Limit(t[i].channel, w) + Over(t, i)
HasRoom(t, i) == \A w \in Windows : Spent(t, Window(t, i, w)) + t[i].asked <= Limit(t[i].channel, w)

\* While a payment's outcome may still be reported, its agent asks for nothing else, and
\* there is room for it in every window that ends with it.
IsLastOf(t, i) == \A j \in DOMAIN t : t[j].agent = t[i].agent /\ i <= j => j = i
AllKeep(t) == \A i \in DOMAIN t : Paid(t, i) => Keeps(t, i)
OpenHaveRoom(t, S) == \A i \in S : HasRoom(t, i) /\ IsLastOf(t, i)

SpendInv == AllKeep(rows) /\ OpenHaveRoom(rows, open)

LEMMA WindowIs ==
    ASSUME NEW t, Table(t), NEW i, NEW w
    PROVE  Window(t, i, w) \subseteq DOMAIN t /\ Spent(t, Window(t, i, w)) \in Nat
<1>1. Window(t, i, w) \subseteq DOMAIN t
  BY DEF Window
<1> QED
  BY <1>1, SpentIs

LEMMA LimitsAre ==
    ASSUME NEW channel \in Channels
    PROVE  /\ Limit(channel, "day") = Treasury[channel].daily
           /\ Limit(channel, "month") = Treasury[channel].monthly
           /\ Limit(channel, "balance") = Treasury[channel].balance - Treasury[channel].reserve
           /\ Limit(channel, "vendor") = Treasury[channel].perVendor
           /\ Limit(channel, "resource") = Treasury[channel].perResource
           /\ \A w \in Windows : Limit(channel, w) \in Int
<1>1. /\ Limit(channel, "day") = Treasury[channel].daily
      /\ Limit(channel, "month") = Treasury[channel].monthly
      /\ Limit(channel, "balance") = Treasury[channel].balance - Treasury[channel].reserve
      /\ Limit(channel, "vendor") = Treasury[channel].perVendor
      /\ Limit(channel, "resource") = Treasury[channel].perResource
  BY DEF Limit
<1> QED
  BY <1>1, TreasuryIs DEF Windows

LEMMA OverIs ==
    ASSUME NEW t, Table(t), NEW i \in DOMAIN t
    PROVE  /\ Over(t, i) \in Nat /\ Counted(t, i) \in Nat /\ t[i].asked \in Nat
           /\ Counted(t, i) <= t[i].asked + Over(t, i)
<1>1. Counted(t, i) \in Nat /\ t[i].asked \in Nat
  BY CountedIs, RowIs DEF Table
<1> QED
  BY <1>1 DEF Over, Above

LEMMA EnvelopesHoldIs ==
    ASSUME Table(rows)
    PROVE  EnvelopesHold <=> AllKeep(rows)
<1> SUFFICES ASSUME NEW i \in DOMAIN rows
             PROVE  LET cfg == Treasury[rows[i].channel]
                        before == {j \in Alike(i) : j <= i}
                        sameDay == {j \in before : rows[j].at \div Day = rows[i].at \div Day}
                        sameMonth == {j \in before : rows[j].at \div Month = rows[i].at \div Month}
                        vendor == {j \in before : rows[j].vendor = rows[i].vendor}
                        resource == {j \in before : rows[j].resource = rows[i].resource}
                        within(S, limit) == Spent(rows, S) <= limit + Overcharge(i)
                    IN  Keeps(rows, i) <=>
                          /\ within(sameDay, cfg.daily)
                          /\ within(sameMonth, cfg.monthly)
                          /\ within(sameMonth, cfg.balance - cfg.reserve)
                          /\ within(EndingAt(i, ThirtyDays, vendor), cfg.perVendor)
                          /\ within(EndingAt(i, ThirtyDays, resource), cfg.perResource)
  BY DEF EnvelopesHold, AllKeep
<1> DEFINE cfg == Treasury[rows[i].channel]
           before == {j \in Alike(i) : j <= i}
           sameDay == {j \in before : rows[j].at \div Day = rows[i].at \div Day}
           sameMonth == {j \in before : rows[j].at \div Month = rows[i].at \div Month}
           vendor == {j \in before : rows[j].vendor = rows[i].vendor}
           resource == {j \in before : rows[j].resource = rows[i].resource}
<1>1. /\ Window(rows, i, "day") = sameDay
      /\ Window(rows, i, "month") = sameMonth
      /\ Window(rows, i, "balance") = sameMonth
      /\ Window(rows, i, "vendor") = EndingAt(i, ThirtyDays, vendor)
      /\ Window(rows, i, "resource") = EndingAt(i, ThirtyDays, resource)
  BY DEF Window, Falls, Alike, EndingAt
<1>2. rows[i].channel \in Channels
  BY RowIs DEF Table
<1>3. /\ Limit(rows[i].channel, "day") = cfg.daily
      /\ Limit(rows[i].channel, "month") = cfg.monthly
      /\ Limit(rows[i].channel, "balance") = cfg.balance - cfg.reserve
      /\ Limit(rows[i].channel, "vendor") = cfg.perVendor
      /\ Limit(rows[i].channel, "resource") = cfg.perResource
  BY <1>2, LimitsAre
<1>4. Over(rows, i) = Overcharge(i)
  BY DEF Over, Overcharge
<1> HIDE DEF cfg, before, sameDay, sameMonth, vendor, resource
<1>5. Keeps(rows, i) <=>
        /\ Spent(rows, sameDay) <= cfg.daily + Overcharge(i)
        /\ Spent(rows, sameMonth) <= cfg.monthly + Overcharge(i)
        /\ Spent(rows, sameMonth) <= cfg.balance - cfg.reserve + Overcharge(i)
        /\ Spent(rows, EndingAt(i, ThirtyDays, vendor)) <= cfg.perVendor + Overcharge(i)
        /\ Spent(rows, EndingAt(i, ThirtyDays, resource)) <= cfg.perResource + Overcharge(i)
  BY <1>1, <1>3, <1>4 DEF Keeps, Windows
<1> QED
  BY <1>5 DEF cfg, before, sameDay, sameMonth, vendor, resource

\* What one request has in common in two tables.
SameIn(t, o, i) ==
    /\ t[i].agent = o[i].agent /\ t[i].channel = o[i].channel /\ t[i].asked = o[i].asked
    /\ t[i].vendor = o[i].vendor /\ t[i].resource = o[i].resource /\ t[i].at = o[i].at

\* A payment that had been made, and for as much.
PaidAlike(t, o, j) ==
    j \in DOMAIN o /\ SameIn(t, o, j) /\ Paid(o, j) /\ Counted(t, j) = Counted(o, j)

\* A table in which no more is paid spends no more in any window.
LEMMA WindowBelow ==
    ASSUME NEW t, Table(t), NEW o, Table(o), NEW i \in DOMAIN t, i \in DOMAIN o, SameIn(t, o, i),
           NEW w \in Windows,
           \A j \in Window(t, i, w) : Paid(t, j) => PaidAlike(t, o, j)
    PROVE  Spent(t, Window(t, i, w)) <= Spent(o, Window(o, i, w))
<1>1. Window(t, i, w) \subseteq DOMAIN t /\ Window(o, i, w) \subseteq DOMAIN o
  BY WindowIs
<1>2. ASSUME NEW j \in Window(t, i, w), Paid(t, j)
      PROVE  j \in Window(o, i, w) /\ Paid(o, j) /\ Counted(t, j) <= Counted(o, j)
  <2>1. PaidAlike(t, o, j) /\ j \in DOMAIN o /\ Counted(o, j) \in Nat
    BY <1>2, CountedIs DEF PaidAlike
  <2>2. j \in Window(o, i, w)
    BY <1>2, <2>1 DEF Window, Falls, SameIn, PaidAlike
  <2> QED
    BY <2>1, <2>2 DEF PaidAlike
<1> QED
  BY <1>1, <1>2, SpentBelow

LEMMA KeepsAgain ==
    ASSUME NEW t, Table(t), NEW o, Table(o), NEW i \in DOMAIN t, i \in DOMAIN o, SameIn(t, o, i),
           \A w \in Windows : \A j \in Window(t, i, w) : Paid(t, j) => PaidAlike(t, o, j)
    PROVE  /\ Keeps(o, i) /\ Counted(t, i) = Counted(o, i) => Keeps(t, i)
           /\ HasRoom(o, i) => HasRoom(t, i)
<1>1. /\ t[i].channel = o[i].channel /\ t[i].channel \in Channels
      /\ t[i].asked = o[i].asked /\ t[i].asked \in Nat
      /\ Counted(t, i) = Counted(o, i) => Over(t, i) = Over(o, i)
      /\ Over(o, i) \in Nat
  BY RowIs, OverIs DEF SameIn, Table, Over
<1>2. ASSUME NEW w \in Windows
      PROVE  /\ Spent(t, Window(t, i, w)) <= Spent(o, Window(o, i, w))
             /\ Spent(t, Window(t, i, w)) \in Nat /\ Spent(o, Window(o, i, w)) \in Nat
             /\ Limit(t[i].channel, w) \in Int
  BY <1>1, WindowBelow, WindowIs, LimitsAre
<1>3. ASSUME Keeps(o, i), Counted(t, i) = Counted(o, i), NEW w \in Windows
      PROVE  Spent(t, Window(t, i, w)) <= Limit(t[i].channel, w) + Over(t, i)
  BY <1>1, <1>2, <1>3 DEF Keeps
<1>4. ASSUME HasRoom(o, i), NEW w \in Windows
      PROVE  Spent(t, Window(t, i, w)) + t[i].asked <= Limit(t[i].channel, w)
  BY <1>1, <1>2, <1>4 DEF HasRoom
<1> QED
  BY <1>3, <1>4 DEF Keeps, HasRoom

\* Changes that pay nothing more.
LEMMA AllAgain ==
    ASSUME NEW t, Table(t), NEW o, Table(o), DOMAIN t = DOMAIN o,
           \A j \in DOMAIN t : SameIn(t, o, j),
           \A j \in DOMAIN t : Paid(t, j) => PaidAlike(t, o, j),
           NEW S, NEW U, S \subseteq DOMAIN t, U \subseteq S,
           AllKeep(o), OpenHaveRoom(o, S)
    PROVE  AllKeep(t) /\ OpenHaveRoom(t, U)
<1>1. ASSUME NEW i \in DOMAIN t
      PROVE  /\ Keeps(o, i) /\ Counted(t, i) = Counted(o, i) => Keeps(t, i)
             /\ HasRoom(o, i) => HasRoom(t, i)
  <2>1. \A w \in Windows : \A j \in Window(t, i, w) : Paid(t, j) => PaidAlike(t, o, j)
    BY DEF Window
  <2>2. SameIn(t, o, i)
    OBVIOUS
  <2> QED
    BY <2>1, <2>2, KeepsAgain
<1>2. AllKeep(t)
  BY <1>1 DEF AllKeep, PaidAlike
<1>3. ASSUME NEW i \in U
      PROVE  HasRoom(t, i) /\ IsLastOf(t, i)
  <2>1. i \in DOMAIN t /\ i \in S
    OBVIOUS
  <2>2. HasRoom(o, i) /\ IsLastOf(o, i)
    BY <2>1 DEF OpenHaveRoom
  <2>3. HasRoom(t, i)
    BY <1>1, <2>1, <2>2
  <2> QED
    BY <2>1, <2>2, <2>3 DEF IsLastOf, SameIn
<1> QED
  BY <1>2, <1>3 DEF OpenHaveRoom

\* What is spent with a payment that had not been made.
LEMMA SpentWith ==
    ASSUME NEW t, Table(t), NEW o, Table(o), NEW i \in DOMAIN t, i \in DOMAIN o,
           NEW S, S \subseteq DOMAIN t, NEW T, T \subseteq DOMAIN o, NEW amount \in Nat,
           ~Paid(o, i), Counted(t, i) <= amount,
           \A j \in S : j # i /\ Paid(t, j) =>
               j \in T /\ Paid(o, j) /\ Counted(t, j) <= Counted(o, j)
    PROVE  Spent(t, S) <= Spent(o, T) + amount
<1> DEFINE f == [j \in DOMAIN t |-> Counted(t, j)]
           g == [j \in DOMAIN o |-> Counted(o, j)]
           P == {j \in S : Paid(t, j)}
           Q == {j \in T : Paid(o, j)}
<1>1. (\A j \in P : f[j] \in Nat) /\ (\A j \in Q : g[j] \in Nat) /\ f[i] \in Nat
  BY CountedIs
<1>2. IsFiniteSet(P) /\ IsFiniteSet(Q)
  BY FS_Subset DEF Table
<1>3. /\ \A j \in P : j # i => j \in Q /\ f[j] <= g[j]
      /\ f[i] <= amount
  OBVIOUS
<1> HIDE DEF f, g, P, Q
<1>4. SumFunctionOnSet(g, Q) \in Nat
  BY <1>1, <1>2, SumType
<1>5. CASE i \in P
  <2>1. PICK R : R = P \ {i}
    OBVIOUS
  <2>2. IsFiniteSet(R) /\ (\A j \in R : f[j] \in Nat) /\ (\A j \in R : j \in Q /\ f[j] <= g[j])
    BY <1>1, <1>2, <1>3, <2>1, FS_Subset
  <2>3. SumFunctionOnSet(f, R) <= SumFunctionOnSet(g, Q)
    BY <1>1, <1>2, <2>2, SumBelow
  <2>4. SumFunctionOnSet(f, P) = f[i] + SumFunctionOnSet(f, P \ {i})
    BY <1>1, <1>2, <1>5, SumRemove
  <2>5. SumFunctionOnSet(f, R) \in Nat
    BY <2>2, SumType
  <2> QED
    BY <1>1, <1>3, <1>4, <2>1, <2>3, <2>4, <2>5 DEF Spent, f, g, P, Q
<1>6. CASE i \notin P
  <2>1. \A j \in P : j \in Q /\ f[j] <= g[j]
    BY <1>3, <1>6
  <2>2. SumFunctionOnSet(f, P) <= SumFunctionOnSet(g, Q)
    BY <1>1, <1>2, <2>1, SumBelow
  <2>3. SumFunctionOnSet(f, P) \in Nat
    BY <1>1, <1>2, SumType
  <2> QED
    BY <1>4, <2>2, <2>3 DEF Spent, f, g, P, Q
<1> QED
  BY <1>5, <1>6

\* A payment that was approved finds the room it was approved for, and no window that ends
\* with another payment holds it.
LEMMA SettleKeeps ==
    ASSUME NEW t, Table(t), NEW o, Table(o), DOMAIN t = DOMAIN o, NEW S, S \subseteq DOMAIN o,
           NEW i \in S, ~Paid(o, i),
           \A j \in DOMAIN t : SameIn(t, o, j),
           \A j \in DOMAIN t : j # i => t[j] = o[j],
           AllKeep(o), OpenHaveRoom(o, S)
    PROVE  AllKeep(t) /\ OpenHaveRoom(t, S \ {i})
<1>1. i \in DOMAIN t /\ HasRoom(o, i) /\ IsLastOf(o, i)
  BY DEF OpenHaveRoom
<1>2. ASSUME NEW j \in DOMAIN t, j # i
      PROVE  /\ Counted(t, j) = Counted(o, j)
             /\ Paid(t, j) <=> Paid(o, j)
             /\ Paid(t, j) => PaidAlike(t, o, j)
  <2>1. t[j] = o[j] /\ SameIn(t, o, j)
    BY <1>2
  <2> QED
    BY <2>1 DEF Counted, Paid, PaidAlike
<1>3. ASSUME NEW k \in DOMAIN t, k # i
      PROVE  /\ Keeps(o, k) => Keeps(t, k)
             /\ HasRoom(o, k) => HasRoom(t, k)
  <2>1. ASSUME NEW w \in Windows, NEW j \in Window(t, k, w), Paid(t, j)
        PROVE  PaidAlike(t, o, j)
    <3>1. j \in DOMAIN t /\ t[j].agent = t[k].agent /\ j <= k
      BY <2>1 DEF Window
    <3>2. j # i
      BY <1>1, <1>3, <3>1 DEF IsLastOf, SameIn
    <3> QED
      BY <1>2, <2>1, <3>1, <3>2
  <2>2. SameIn(t, o, k) /\ Counted(t, k) = Counted(o, k)
    BY <1>2, <1>3
  <2> QED
    BY <2>1, <2>2, KeepsAgain
<1>4. Keeps(t, i)
  <2> SUFFICES ASSUME NEW w \in Windows
               PROVE  Spent(t, Window(t, i, w)) <= Limit(t[i].channel, w) + Over(t, i)
    BY DEF Keeps
  <2>1. Window(t, i, w) \subseteq DOMAIN t /\ Window(o, i, w) \subseteq DOMAIN o
    BY WindowIs
  <2>2. ASSUME NEW j \in Window(t, i, w), j # i, Paid(t, j)
        PROVE  j \in Window(o, i, w) /\ Paid(o, j) /\ Counted(t, j) <= Counted(o, j)
    <3>1. j \in DOMAIN t /\ PaidAlike(t, o, j) /\ Counted(t, j) \in Nat
      BY <1>2, <2>1, <2>2, CountedIs
    <3>2. j \in Window(o, i, w)
      BY <2>2, <3>1 DEF Window, Falls, SameIn, PaidAlike
    <3> QED
      BY <3>1, <3>2 DEF PaidAlike
  <2>3. /\ Counted(t, i) \in Nat /\ t[i].asked \in Nat /\ Over(t, i) \in Nat
        /\ Counted(t, i) <= t[i].asked + Over(t, i)
    BY <1>1, OverIs
  <2>4. Counted(t, i) <= Counted(t, i)
    BY <2>3
  <2>5. Spent(t, Window(t, i, w)) <= Spent(o, Window(o, i, w)) + Counted(t, i)
    BY <1>1, <2>1, <2>2, <2>3, <2>4, SpentWith
  <2>6. /\ Spent(o, Window(o, i, w)) + t[i].asked <= Limit(t[i].channel, w)
        /\ Limit(t[i].channel, w) \in Int
    BY <1>1, RowIs, LimitsAre DEF HasRoom, SameIn, Table
  <2>7. Spent(t, Window(t, i, w)) \in Nat /\ Spent(o, Window(o, i, w)) \in Nat
    BY WindowIs
  <2> QED
    BY <2>3, <2>5, <2>6, <2>7
<1>5. ASSUME NEW k \in DOMAIN t, Paid(t, k)
      PROVE  Keeps(t, k)
  BY <1>2, <1>3, <1>4, <1>5 DEF AllKeep
<1>6. ASSUME NEW k \in S \ {i}
      PROVE  HasRoom(t, k) /\ IsLastOf(t, k)
  <2>1. k \in DOMAIN t /\ HasRoom(o, k) /\ IsLastOf(o, k)
    BY DEF OpenHaveRoom
  <2> QED
    BY <1>3, <2>1 DEF IsLastOf, SameIn
<1> QED
  BY <1>5, <1>6 DEF AllKeep, OpenHaveRoom

\* A row is recorded unpaid; what is approved is approved with room for it in every window
\* that ends now, and no later row has to fit in an earlier window.
LEMMA RecordSpends ==
    ASSUME IInv, SpendInv, NEW req \in Requests, NEW verdict \in Verdicts, Asked(req, verdict)
    PROVE  SpendInv'
<1>1. PICK t, n, m : t = rows' /\ n = NextId /\ m = now
  OBVIOUS
<1>2. Table(rows) /\ Table(t) /\ n \notin DOMAIN rows /\ m \in Nat
  <2>1. IInv'
    BY RecordTyped
  <2>2. t \in Seq(Row) /\ rows \in Seq(Row)
    BY <1>1, <2>1 DEF IInv, TypeOK
  <2>3. m \in Nat
    BY <1>1, ControlsAssumption DEF IInv, TypeOK, ControlsAssumption
  <2> QED
    BY <1>1, <2>2, <2>3, SeqIsATable, RowsAreATable
<1>3. /\ DOMAIN t = DOMAIN rows \cup {n}
      /\ \A i \in DOMAIN rows : t[i] = rows[i]
      /\ t[n] = NewRow(req, verdict)
  BY <1>1, Recorded DEF Asked, IInv, TypeOK
<1>4. /\ t[n].agent = req.agent /\ t[n].channel = req.channel /\ t[n].at = m
      /\ t[n].vendor = req.vendor /\ t[n].resource = req.resource /\ t[n].asked = req.amount
      /\ ~Paid(t, n)
  BY <1>1, <1>3 DEF NewRow, Paid
<1>5. ASSUME NEW j \in DOMAIN t, Paid(t, j)
      PROVE  j # n /\ PaidAlike(t, rows, j)
  <2>1. j # n /\ j \in DOMAIN rows /\ t[j] = rows[j]
    BY <1>3, <1>4, <1>5
  <2>2. Counted(rows, j) \in Nat /\ Counted(t, j) = Counted(rows, j) /\ Paid(rows, j)
    BY <1>2, <1>5, <2>1, CountedIs DEF Counted, Paid
  <2> QED
    BY <2>1, <2>2 DEF PaidAlike, SameIn
<1>6. ASSUME NEW i \in DOMAIN rows
      PROVE  /\ i \in DOMAIN t /\ t[i] = rows[i]
             /\ Keeps(rows, i) => Keeps(t, i)
             /\ HasRoom(rows, i) => HasRoom(t, i)
  <2>1. i \in DOMAIN t /\ t[i] = rows[i]
    BY <1>3
  <2>2. SameIn(t, rows, i) /\ Counted(t, i) = Counted(rows, i)
    BY <2>1 DEF SameIn, Counted
  <2>3. \A w \in Windows : \A j \in Window(t, i, w) : Paid(t, j) => PaidAlike(t, rows, j)
    BY <1>5 DEF Window
  <2> QED
    BY <1>2, <2>1, <2>2, <2>3, KeepsAgain
<1>7. AllKeep(t)
  <2> SUFFICES ASSUME NEW i \in DOMAIN t, Paid(t, i)
               PROVE  Keeps(t, i)
    BY DEF AllKeep
  <2>1. i \in DOMAIN rows /\ Paid(rows, i)
    BY <1>5 DEF PaidAlike
  <2> QED
    BY <1>6, <2>1 DEF SpendInv, AllKeep
<1>8. ASSUME verdict = "APPROVE"
      PROVE  HasRoom(t, n)
  <2> DEFINE own == OwnRows(rows, req)
             month == Since(rows, own, m - ThirtyDays)
             snap == Snapshot(rows, req, m)
             cfg == Treasury[req.channel]
  <2>1. req.channel \in Channels /\ req.amount \in Nat /\ req.amount > 0
    BY RequestIs
  <2>2. Budget(cfg, snap, req.amount).ok
    BY <1>1, <1>8, DecidedIs DEF Asked, BudgetOf
  <2>3. /\ snap.spentToday + req.amount <= cfg.daily
        /\ snap.spentMonth + req.amount <= cfg.monthly
        /\ cfg.balance - (snap.spentMonth + req.amount) >= cfg.reserve
        /\ snap.spentVendor + req.amount <= cfg.perVendor
        /\ snap.spentResource + req.amount <= cfg.perResource
    BY <1>2, <2>1, <2>2, EnvelopesAdmit
  <2>4. PICK today, calendar, vendor, resource :
           /\ today = Since(rows, own, StartOfDay(m))
           /\ calendar = Since(rows, own, StartOfMonth(m))
           /\ vendor = {i \in month : rows[i].vendor = req.vendor}
           /\ resource = {i \in month : rows[i].resource = req.resource}
    OBVIOUS
  <2>5. /\ snap.spentToday = Spent(rows, today) /\ snap.spentMonth = Spent(rows, calendar)
        /\ snap.spentVendor = Spent(rows, vendor) /\ snap.spentResource = Spent(rows, resource)
    BY <2>4 DEF Snapshot
  <2>6. ASSUME NEW w \in Windows, NEW j \in Window(t, n, w), Paid(t, j)
        PROVE  /\ j \in own /\ Paid(rows, j) /\ Counted(t, j) <= Counted(rows, j)
               /\ Falls(w, rows[j], t[n]) /\ rows[j] \in Row
    <3>1. j \in DOMAIN t /\ t[j].agent = req.agent /\ t[j].channel = req.channel /\ Falls(w, t[j], t[n])
      BY <1>4, <2>6 DEF Window
    <3>2. PaidAlike(t, rows, j) /\ j # n
      BY <1>5, <2>6, <3>1
    <3>3. j \in DOMAIN rows /\ t[j] = rows[j]
      BY <1>3, <3>1, <3>2
    <3>4. Counted(rows, j) \in Nat
      BY <1>2, <3>3, CountedIs
    <3> QED
      BY <1>2, <3>1, <3>2, <3>3, <3>4 DEF PaidAlike, OwnRows, Table
  <2>7. /\ \A j \in Window(t, n, "day") : Paid(t, j) => j \in today
        /\ \A j \in Window(t, n, "month") : Paid(t, j) => j \in calendar
        /\ \A j \in Window(t, n, "balance") : Paid(t, j) => j \in calendar
        /\ \A j \in Window(t, n, "vendor") : Paid(t, j) => j \in vendor
        /\ \A j \in Window(t, n, "resource") : Paid(t, j) => j \in resource
    <3>1. ASSUME NEW j \in Window(t, n, "day"), Paid(t, j)
          PROVE  j \in today
      <4>1. j \in own /\ rows[j].at \in Nat /\ rows[j].at \div Day = m \div Day
        BY <1>4, <2>6, <3>1, RowIs DEF Falls, Windows
      <4>2. rows[j].at >= m - (m % Day)
        BY <1>2, <4>1, SamePeriod, LengthsAre
      <4> QED
        BY <2>4, <4>1, <4>2 DEF Since, StartOfDay
    <3>2. ASSUME NEW w \in {"month", "balance"}, NEW j \in Window(t, n, w), Paid(t, j)
          PROVE  j \in calendar
      <4>1. j \in own /\ rows[j].at \in Nat /\ rows[j].at \div Month = m \div Month
        BY <1>4, <2>6, <3>2, RowIs DEF Falls, Windows
      <4>2. rows[j].at >= m - (m % Month)
        BY <1>2, <4>1, SamePeriod, LengthsAre
      <4> QED
        BY <2>4, <4>1, <4>2 DEF Since, StartOfMonth
    <3>3. ASSUME NEW w \in {"vendor", "resource"}, NEW j \in Window(t, n, w), Paid(t, j)
          PROVE  /\ j \in month
                 /\ w = "vendor" => rows[j].vendor = req.vendor
                 /\ w = "resource" => rows[j].resource = req.resource
      <4>1. /\ j \in own /\ rows[j].at \in Nat /\ m - ThirtyDays <= rows[j].at
            /\ w = "vendor" => rows[j].vendor = req.vendor
            /\ w = "resource" => rows[j].resource = req.resource
        BY <1>4, <2>6, <3>3, RowIs DEF Falls, Windows
      <4>2. rows[j].at >= m - ThirtyDays
        BY <1>2, <4>1, LengthsAre
      <4> QED
        BY <4>1, <4>2 DEF Since
    <3> QED
      BY <2>4, <3>1, <3>2, <3>3
  <2>8. ASSUME NEW w \in Windows, NEW T, T \subseteq DOMAIN rows,
               \A j \in Window(t, n, w) : Paid(t, j) => j \in T
        PROVE  Spent(t, Window(t, n, w)) <= Spent(rows, T)
    <3>1. Window(t, n, w) \subseteq DOMAIN t
      BY <1>2, WindowIs
    <3> QED
      BY <1>2, <2>6, <2>8, <3>1, SpentBelow
  <2>9. /\ today \subseteq DOMAIN rows /\ calendar \subseteq DOMAIN rows
        /\ vendor \subseteq DOMAIN rows /\ resource \subseteq DOMAIN rows
    BY <1>2, <2>4, OwnRowsAre
  <2>10. /\ Spent(rows, today) \in Nat /\ Spent(rows, calendar) \in Nat
         /\ Spent(rows, vendor) \in Nat /\ Spent(rows, resource) \in Nat
    BY <1>2, <2>9, SpentIs
  <2>11. /\ Spent(t, Window(t, n, "day")) <= Spent(rows, today)
         /\ Spent(t, Window(t, n, "month")) <= Spent(rows, calendar)
         /\ Spent(t, Window(t, n, "balance")) <= Spent(rows, calendar)
         /\ Spent(t, Window(t, n, "vendor")) <= Spent(rows, vendor)
         /\ Spent(t, Window(t, n, "resource")) <= Spent(rows, resource)
    BY <2>7, <2>8, <2>9 DEF Windows
  <2>12. \A w \in Windows : Spent(t, Window(t, n, w)) \in Nat
    BY <1>2, WindowIs
  <2>13. /\ Limit(req.channel, "day") = cfg.daily
         /\ Limit(req.channel, "month") = cfg.monthly
         /\ Limit(req.channel, "balance") = cfg.balance - cfg.reserve
         /\ Limit(req.channel, "vendor") = cfg.perVendor
         /\ Limit(req.channel, "resource") = cfg.perResource
    BY <2>1, LimitsAre
  <2>14. /\ cfg.balance \in Nat /\ cfg.reserve \in Nat /\ cfg.daily \in Nat
         /\ cfg.monthly \in Nat /\ cfg.perVendor \in Nat /\ cfg.perResource \in Nat
    BY <2>1, TreasuryIs
  <2> HIDE DEF cfg, snap, own, month
  <2>15. /\ Spent(t, Window(t, n, "day")) + req.amount <= Limit(req.channel, "day")
         /\ Spent(t, Window(t, n, "month")) + req.amount <= Limit(req.channel, "month")
         /\ Spent(t, Window(t, n, "vendor")) + req.amount <= Limit(req.channel, "vendor")
         /\ Spent(t, Window(t, n, "resource")) + req.amount <= Limit(req.channel, "resource")
    BY <2>1, <2>3, <2>5, <2>10, <2>11, <2>12, <2>13, <2>14 DEF Windows
  <2>16. Spent(t, Window(t, n, "balance")) + req.amount <= Limit(req.channel, "balance")
    BY <2>1, <2>3, <2>5, <2>10, <2>11, <2>12, <2>13, <2>14 DEF Windows
  <2> QED
    BY <1>4, <2>15, <2>16 DEF HasRoom, Windows
<1>9. PICK S : S = IF verdict = "APPROVE" THEN open \cup {n} ELSE open
  OBVIOUS
<1>10. open' = S
  BY <1>1, <1>9 DEF Asked, Record
<1>11. /\ open \subseteq DOMAIN rows /\ OpenHaveRoom(rows, open)
       /\ \A i \in open : rows[i].agent # req.agent
  BY DEF IInv, TypeOK, SpendInv, Asked, MayAsk
<1>12. ASSUME NEW i \in S
       PROVE  HasRoom(t, i) /\ IsLastOf(t, i)
  <2>1. CASE i = n
    <3>1. verdict = "APPROVE"
      BY <1>2, <1>9, <1>11, <1>12, <2>1
    <3>2. DOMAIN rows = 1..Len(rows) /\ Len(rows) \in Nat /\ n = Len(rows) + 1
      BY <1>1, RowsAreATable DEF IInv, TypeOK
    <3>3. \A j \in DOMAIN t : n <= j => j = n
      BY <1>3, <3>2
    <3> QED
      BY <1>8, <2>1, <3>1, <3>3 DEF IsLastOf
  <2>2. CASE i # n
    <3>1. i \in open /\ i \in DOMAIN rows /\ t[i] = rows[i] /\ rows[i].agent # req.agent
      BY <1>3, <1>9, <1>11, <1>12, <2>2
    <3>2. HasRoom(rows, i) /\ IsLastOf(rows, i)
      BY <1>11, <3>1 DEF OpenHaveRoom
    <3>3. HasRoom(t, i)
      BY <1>6, <3>1, <3>2
    <3>4. IsLastOf(t, i)
      BY <1>3, <1>4, <3>1, <3>2 DEF IsLastOf
    <3> QED
      BY <3>3, <3>4
  <2> QED
    BY <2>1, <2>2
<1> QED
  BY <1>1, <1>7, <1>10, <1>12 DEF SpendInv, OpenHaveRoom

LEMMA SpendStep ==
    ASSUME IInv, SpendInv, [Next]_vars
    PROVE  SpendInv'
<1>1. /\ rows \in Seq(Row) /\ open \subseteq DOMAIN rows
      /\ \A i \in open : ~rows[i].settled
      /\ AllKeep(rows) /\ OpenHaveRoom(rows, open)
  BY DEF IInv, TypeOK, SpendInv
<1>2. Table(rows)
  BY <1>1, SeqIsATable
<1>3. ASSUME NEW i \in Ids, NEW success \in BOOLEAN, Ended(i, success)
      PROVE  SpendInv'
  <2>1. i \in open /\ i \in DOMAIN rows
    BY <1>1, <1>3 DEF Ended, Settle, SettleRun
  <2>2. PICK t : t = rows'
    OBVIOUS
  <2>3. /\ t \in Seq(Row) /\ DOMAIN t = DOMAIN rows /\ open' = open \ {i}
        /\ \A j \in DOMAIN rows : SameIn(t, rows, j) /\ (j # i => t[j] = rows[j])
    BY <1>1, <1>3, <2>1, <2>2, Settled DEF SameRequest, SameIn
  <2>4. Table(t)
    BY <2>3, SeqIsATable
  <2>5. ~Paid(rows, i)
    BY <1>1, <2>1 DEF Paid
  <2>6. AllKeep(t) /\ OpenHaveRoom(t, open \ {i})
    BY <1>1, <1>2, <2>1, <2>3, <2>4, <2>5, SettleKeeps
  <2> QED
    BY <2>2, <2>3, <2>6 DEF SpendInv
<1>4. ASSUME NEW i \in Ids, MarkDisputed(i)
      PROVE  SpendInv'
  <2>1. PICK t : t = rows'
    OBVIOUS
  <2>2. /\ t \in Seq(Row) /\ DOMAIN t = DOMAIN rows /\ open' = open
        /\ \A j \in DOMAIN rows : /\ SameIn(t, rows, j)
                                  /\ t[j].settled = rows[j].settled
                                  /\ t[j].success = rows[j].success
                                  /\ t[j].paid = rows[j].paid
                                  /\ t[j].amount = rows[j].amount
    BY <1>1, <1>4, <2>1, Disputed DEF SameRequest, SameIn, MarkDisputed
  <2>3. Table(t)
    BY <2>2, SeqIsATable
  <2>4. ASSUME NEW j \in DOMAIN t, Paid(t, j)
        PROVE  PaidAlike(t, rows, j)
    <3>1. Counted(t, j) = Counted(rows, j) /\ Paid(rows, j)
      BY <2>2, <2>4 DEF Counted, Paid
    <3> QED
      BY <2>2, <3>1 DEF PaidAlike
  <2>5. AllKeep(t) /\ OpenHaveRoom(t, open)
    BY <1>1, <1>2, <2>2, <2>3, <2>4, AllAgain
  <2> QED
    BY <2>1, <2>2, <2>5 DEF SpendInv
<1>5. ASSUME rows' = rows, open' \subseteq open
      PROVE  SpendInv'
  BY <1>1, <1>5 DEF SpendInv, OpenHaveRoom
<1> QED
  BY <1>3, <1>4, <1>5, StepKinds, RecordSpends DEF Abandon, Tick, vars

\* If the rows that were seeded keep the envelopes, every payment an agent makes, asking for
\* each when the one before has ended, keeps them but for its own overcharge: in every day,
\* month and thirty days, and leaving the reserve.
THEOREM ControlsEnvelopesHold == Spec /\ EnvelopesHold => []EnvelopesHold
<1>1. IInv => (EnvelopesHold <=> AllKeep(rows))
  BY SeqIsATable, EnvelopesHoldIs DEF IInv, TypeOK
<1>2. Init /\ EnvelopesHold => IInv /\ SpendInv
  <2>1. Init => IInv /\ OpenHaveRoom(rows, open)
    BY TypeInit DEF Init, OpenHaveRoom
  <2> QED
    BY <1>1, <2>1 DEF SpendInv
<1>3. IInv /\ SpendInv /\ [Next]_vars => IInv' /\ SpendInv'
  BY TypeStep, SpendStep
<1>4. IInv /\ SpendInv => EnvelopesHold
  BY <1>1 DEF SpendInv
<1> QED
  BY <1>2, <1>3, <1>4, PTL DEF Spec

-----------------------------------------------------------------------------
(***************************************************************************)
(* Channels.                                                               *)
(***************************************************************************)
LEMMA SpentAlone ==
    ASSUME NEW table, Table(table), NEW mine, Table(mine),
           NEW S, S \subseteq DOMAIN table, S \subseteq DOMAIN mine,
           \A i \in S : mine[i] = table[i]
    PROVE  Spent(mine, S) = Spent(table, S)
<1>1. ASSUME NEW i \in S
      PROVE  /\ Paid(mine, i) <=> Paid(table, i)
             /\ Counted(mine, i) = Counted(table, i) /\ Counted(table, i) \in Nat
  BY CountedIs DEF Paid, Counted
<1>2. Spent(mine, S) <= Spent(table, S)
  BY <1>1, SpentBelow
<1>3. Spent(table, S) <= Spent(mine, S)
  BY <1>1, SpentBelow
<1>4. Spent(mine, S) \in Nat /\ Spent(table, S) \in Nat
  BY SpentIs
<1> QED
  BY <1>2, <1>3, <1>4

\* The fields of a snapshot that the cumulative envelopes and the counters are made of.
SameTotals(s, u) ==
    /\ s.spentToday = u.spentToday /\ s.spentMonth = u.spentMonth
    /\ s.spentVendor = u.spentVendor /\ s.spentResource = u.spentResource
    /\ s.countMinute = u.countMinute /\ s.countHour = u.countHour
    /\ s.countToday = u.countToday /\ s.countMonth = u.countMonth

LEMMA SameLeft ==
    ASSUME NEW cfg, NEW s, NEW u, SameTotals(s, u)
    PROVE  /\ \A e \in 2..6 : Envelopes(cfg, s)[e] = Envelopes(cfg, u)[e]
           /\ Counters(cfg, s) = Counters(cfg, u)
<1>1. PICK a, b, c, d, e, f, g :
         /\ a = Envelope("per_transaction", PerTxLimit(cfg, s.vendor), 0)
         /\ b = Envelope("balance", Above(cfg.balance, cfg.reserve), s.spentMonth)
         /\ c = Envelope("daily", cfg.daily, s.spentToday)
         /\ d = Envelope("monthly", cfg.monthly, s.spentMonth)
         /\ e = Envelope("per_vendor", cfg.perVendor, s.spentVendor)
         /\ f = Envelope("per_resource", cfg.perResource, s.spentResource)
         /\ g = Envelope("per_transaction", PerTxLimit(cfg, u.vendor), 0)
  OBVIOUS
<1>2. Envelopes(cfg, s) = <<a, b, c, d, e, f>> /\ Envelopes(cfg, u) = <<g, b, c, d, e, f>>
  BY <1>1 DEF Envelopes, SameTotals
<1>3. \A k \in 2..6 : k = 2 \/ k = 3 \/ k = 4 \/ k = 5 \/ k = 6
  OBVIOUS
<1>4. \A k \in 2..6 : <<a, b, c, d, e, f>>[k] = <<g, b, c, d, e, f>>[k]
  BY <1>3
<1>5. Counters(cfg, s) = Counters(cfg, u)
  BY DEF Counters, SameTotals
<1> QED
  BY <1>2, <1>4, <1>5

LEMMA TotalsAlone ==
    ASSUME NEW table, Table(table), NEW req, NEW t,
           NEW D, D = OwnRows(table, req), NEW mine, mine = [i \in D |-> table[i]]
    PROVE  SameTotals(Snapshot(table, req, t), Snapshot(mine, req, t))
<1>1. D \subseteq DOMAIN table /\ DOMAIN mine = D /\ \A i \in D : mine[i] = table[i]
  BY DEF OwnRows
<1>2. Table(mine)
  BY <1>1, FS_Subset DEF Table
<1>3. OwnRows(mine, req) = D
  BY <1>1 DEF OwnRows
<1>4. \A moment : Since(mine, D, moment) = Since(table, D, moment) /\ Since(table, D, moment) \subseteq D
  BY <1>1 DEF Since
<1>5. \A S \in SUBSET D : Spent(mine, S) = Spent(table, S)
  BY <1>1, <1>2, SpentAlone
<1>6. PICK today, calendar, month, vendor, resource :
         /\ today = Since(table, D, StartOfDay(t)) /\ calendar = Since(table, D, StartOfMonth(t))
         /\ month = Since(table, D, t - ThirtyDays)
         /\ vendor = {i \in month : table[i].vendor = req.vendor}
         /\ resource = {i \in month : table[i].resource = req.resource}
  OBVIOUS
<1>7. /\ today \in SUBSET D /\ calendar \in SUBSET D /\ month \subseteq D
      /\ vendor \in SUBSET D /\ resource \in SUBSET D
      /\ today = Since(mine, D, StartOfDay(t)) /\ calendar = Since(mine, D, StartOfMonth(t))
      /\ month = Since(mine, D, t - ThirtyDays)
  BY <1>4, <1>6
<1>8. /\ vendor = {i \in month : mine[i].vendor = req.vendor}
      /\ resource = {i \in month : mine[i].resource = req.resource}
  BY <1>1, <1>6, <1>7
<1>9. PICK s : s = Snapshot(table, req, t)
  OBVIOUS
<1>10. /\ s.spentToday = Spent(table, today) /\ s.spentMonth = Spent(table, calendar)
       /\ s.spentVendor = Spent(table, vendor) /\ s.spentResource = Spent(table, resource)
       /\ s.countMinute = Cardinality(Since(table, D, t - Minute))
       /\ s.countHour = Cardinality(Since(table, D, t - Hour))
       /\ s.countToday = Cardinality(today) /\ s.countMonth = Cardinality(calendar)
  BY <1>6, <1>9 DEF Snapshot
<1>11. PICK u : u = Snapshot(mine, req, t)
  OBVIOUS
<1>12. /\ u.spentToday = Spent(mine, today) /\ u.spentMonth = Spent(mine, calendar)
       /\ u.spentVendor = Spent(mine, vendor) /\ u.spentResource = Spent(mine, resource)
       /\ u.countMinute = Cardinality(Since(mine, D, t - Minute))
       /\ u.countHour = Cardinality(Since(mine, D, t - Hour))
       /\ u.countToday = Cardinality(today) /\ u.countMonth = Cardinality(calendar)
  BY <1>3, <1>7, <1>8, <1>11 DEF Snapshot
<1> QED
  BY <1>4, <1>5, <1>7, <1>9, <1>10, <1>11, <1>12 DEF SameTotals

\* What is left on one channel is what it would be without the other channel's rows and
\* without the other agents'.
THEOREM ControlsChannelsDoNotShare == Spec => []ChannelsDoNotShare
<1>1. ASSUME IInv
      PROVE  ChannelsDoNotShare
  <2> SUFFICES ASSUME NEW req \in Requests
               PROVE  LET mine == Restrict(rows, {i \in DOMAIN rows : /\ rows[i].agent = req.agent
                                                                      /\ rows[i].channel = req.channel})
                          all == Snapshot(rows, req, now)
                          alone == Snapshot(mine, req, now)
                          left(s) == [e \in 2..6 |-> Headroom(Envelopes(Treasury[req.channel], s)[e])]
                      IN  /\ left(all) = left(alone)
                          /\ Counters(Treasury[req.channel], all) = Counters(Treasury[req.channel], alone)
    BY DEF ChannelsDoNotShare
  <2>1. Table(rows)
    BY <1>1, SeqIsATable DEF IInv, TypeOK
  <2>2. PICK mine : mine = Restrict(rows, {i \in DOMAIN rows : /\ rows[i].agent = req.agent
                                                               /\ rows[i].channel = req.channel})
    OBVIOUS
  <2>3. PICK D : D = OwnRows(rows, req)
    OBVIOUS
  <2>4. mine = [i \in D |-> rows[i]]
    BY <2>2, <2>3 DEF Restrict, OwnRows
  <2>5. PICK all, alone : all = Snapshot(rows, req, now) /\ alone = Snapshot(mine, req, now)
    OBVIOUS
  <2>6. SameTotals(all, alone)
    BY <2>1, <2>3, <2>4, <2>5, TotalsAlone
  <2>7. PICK cfg : cfg = Treasury[req.channel]
    OBVIOUS
  <2>8. /\ \A e \in 2..6 : Envelopes(cfg, all)[e] = Envelopes(cfg, alone)[e]
        /\ Counters(cfg, all) = Counters(cfg, alone)
    BY <2>6, SameLeft
  <2>9. [e \in 2..6 |-> Headroom(Envelopes(cfg, all)[e])] = [e \in 2..6 |-> Headroom(Envelopes(cfg, alone)[e])]
    BY <2>8
  <2> QED
    BY <2>2, <2>5, <2>7, <2>8, <2>9
<1> QED
  BY <1>1, TypeInit, TypeStep, PTL DEF Spec

-----------------------------------------------------------------------------
(***************************************************************************)
(* The score of the risk.                                                  *)
(***************************************************************************)
LEMMA ShareIs ==
    ASSUME NEW x \in Nat, NEW y \in Nat \ {0}
    PROVE  Share(x, y) \in Nat
<1>1. Share(x, y) = IF x >= y THEN 100 ELSE (100 * x) \div y
  BY DEF Share
<1>2. (100 * x) \div y \in Nat
  <2>1. \A m \in Nat : m \div y \in Nat
    OBVIOUS
  <2> QED
    BY <2>1
<1> QED
  BY <1>1, <1>2

LEMMA ClipIs ==
    ASSUME NEW x \in Int
    PROVE  Clip[x] \in Nat /\ \A h \in 0..100 : h <= x => h <= Clip[x]
BY DEF Clip

\* A square is not negative, and twice a product is within two squares.
LEMMA Squares ==
    ASSUME NEW a \in Int, NEW b \in Int
    PROVE  /\ (a + b) * (a + b) = a * a + 2 * (a * b) + b * b
           /\ a * a >= 0
           /\ 2 * (a * b) <= a * a + b * b
<1>1. \A z \in Int : z * z >= 0
  BY SMT
<1>2. (a - b) * (a - b) = a * a - 2 * (a * b) + b * b
  BY SMT
<1>3. (a - b) * (a - b) >= 0
  BY <1>1
<1>4. a * a \in Int /\ a * b \in Int /\ b * b \in Int
  OBVIOUS
<1> QED
  BY <1>1, <1>2, <1>3, <1>4, SMT

\* The arithmetic of one more amount b, of n that sum to s and whose squares sum to q.
LEMMA OneMoreAmount ==
    ASSUME NEW n \in Nat, NEW s \in Nat, NEW q \in Nat, NEW b \in Nat,
           s * s <= n * q, \A a \in Nat : 2 * (a * s) <= n * (a * a) + q
    PROVE  /\ (b + s) * (b + s) <= (n + 1) * (b * b + q)
           /\ \A a \in Nat : 2 * (a * (b + s)) <= (n + 1) * (a * a) + (b * b + q)
<1>1. 2 * (b * s) <= n * (b * b) + q
  OBVIOUS
<1>2. (b + s) * (b + s) = b * b + 2 * (b * s) + s * s
  BY Squares
<1>3. (n + 1) * (b * b + q) = n * (b * b) + n * q + b * b + q
  BY SMT
<1>4. /\ b * b \in Nat /\ b * s \in Nat /\ s * s \in Nat /\ n * q \in Nat
      /\ n * (b * b) \in Nat
  BY SMT
<1>5. (b + s) * (b + s) <= (n + 1) * (b * b + q)
  BY <1>1, <1>2, <1>3, <1>4
<1>6. ASSUME NEW a \in Nat
      PROVE  2 * (a * (b + s)) <= (n + 1) * (a * a) + (b * b + q)
  <2>1. a * (b + s) = a * b + a * s
    BY SMT
  <2>2. (n + 1) * (a * a) = n * (a * a) + a * a
    BY SMT
  <2>3. 2 * (a * b) <= a * a + b * b
    BY Squares
  <2>4. 2 * (a * s) <= n * (a * a) + q
    OBVIOUS
  <2>5. a * b \in Nat /\ a * s \in Nat /\ a * a \in Nat /\ n * (a * a) \in Nat
    BY SMT
  <2> QED
    BY <1>4, <2>1, <2>2, <2>3, <2>4, <2>5
<1> QED
  BY <1>5, <1>6

\* The square of a sum is at most the number of its terms times the sum of their squares.
LEMMA SpreadIs ==
    ASSUME NEW S, IsFiniteSet(S), NEW f, NEW g,
           \A i \in S : f[i] \in Nat /\ g[i] = f[i] * f[i]
    PROVE  LET s == SumFunctionOnSet(f, S)
               q == SumFunctionOnSet(g, S)
           IN  s \in Nat /\ q \in Nat /\ s * s <= Cardinality(S) * q
<1> DEFINE sum(T) == SumFunctionOnSet(f, T)
           squares(T) == SumFunctionOnSet(g, T)
           Fine(T) == /\ sum(T) * sum(T) <= Cardinality(T) * squares(T)
                      /\ \A a \in Nat : 2 * (a * sum(T)) <= Cardinality(T) * (a * a) + squares(T)
           Bad == {T \in SUBSET S : ~Fine(T)}
<1>1. \A i \in S : g[i] \in Nat
  <2>1. \A m \in Nat : m * m \in Nat
    BY SMT
  <2> QED
    BY <2>1
<1>2. ASSUME NEW T, T \subseteq S
      PROVE  IsFiniteSet(T) /\ Cardinality(T) \in Nat /\ sum(T) \in Nat /\ squares(T) \in Nat
  BY <1>1, <1>2, FS_Subset, FS_CardinalityType, SumType
<1>3. Fine({})
  BY SumEmpty, FS_EmptySet
<1>4. ASSUME NEW T, T \subseteq S, NEW i \in T, Fine(T \ {i})
      PROVE  Fine(T)
  <2>1. PICK U : U = T \ {i}
    OBVIOUS
  <2>2. IsFiniteSet(T) /\ U \subseteq S /\ (\A j \in T : f[j] \in Nat /\ g[j] \in Nat)
    BY <1>1, <1>2, <1>4, <2>1
  <2>3. sum(T) = f[i] + sum(U) /\ squares(T) = g[i] + squares(U)
    BY <2>1, <2>2, SumRemove
  <2>4. Cardinality(U) = Cardinality(T) - 1
    BY <2>1, <2>2, FS_RemoveElement
  <2>5. PICK n, s, q, b : /\ n = Cardinality(U) /\ s = sum(U) /\ q = squares(U) /\ b = f[i]
    OBVIOUS
  <2>6. n \in Nat /\ s \in Nat /\ q \in Nat /\ b \in Nat /\ g[i] = b * b
    BY <1>2, <1>4, <2>2, <2>5
  <2>7. s * s <= n * q /\ \A a \in Nat : 2 * (a * s) <= n * (a * a) + q
    BY <1>4, <2>1, <2>5
  <2>8. sum(T) = b + s /\ squares(T) = b * b + q /\ Cardinality(T) = n + 1
    <3>1. Cardinality(T) \in Nat
      BY <1>2, <1>4
    <3> QED
      BY <2>3, <2>4, <2>5, <2>6, <3>1
  <2> HIDE DEF sum, squares
  <2>9. /\ (b + s) * (b + s) <= (n + 1) * (b * b + q)
        /\ \A a \in Nat : 2 * (a * (b + s)) <= (n + 1) * (a * a) + (b * b + q)
    BY <2>6, <2>7, OneMoreAmount
  <2> QED
    BY <2>8, <2>9
<1> HIDE DEF Fine
<1>5. Bad = {}
  <2> SUFFICES ASSUME Bad # {} PROVE FALSE
    OBVIOUS
  <2>1. PICK T \in Bad : \A U \in Bad : U \subseteq T => U = T
    <3>1. Bad \subseteq SUBSET S
      OBVIOUS
    <3> HIDE DEF Bad
    <3> QED
      BY <3>1, SmallestSet
  <2>2. T # {}
    BY <1>3, <2>1
  <2>3. PICK i \in T : TRUE
    BY <2>2
  <2>4. T \ {i} \notin Bad
    BY <2>1, <2>3
  <2> QED
    BY <1>4, <2>1, <2>3, <2>4
<1>6. Fine(S)
  BY <1>5
<1> QED
  BY <1>2, <1>6 DEF Fine

LEMMA RootIs ==
    ASSUME NEW x \in Nat
    PROVE  Root[x] \in Nat
<1> DEFINE B == {m \in Nat : m * m > x}
<1>1. x + 1 \in B
  <2>1. (x + 1) * (x + 1) = x * x + 2 * x + 1
    BY SMT
  <2>2. x * x \in Nat
    BY SMT
  <2> QED
    BY <2>1, <2>2
<1>2. PICK m \in B : \A k \in B : m <= k
  <2>1. B \subseteq Nat /\ B # {}
    BY <1>1
  <2> HIDE DEF B
  <2> QED
    BY <2>1, LeastMoment
<1>3. m \in Nat /\ m * m > x /\ m # 0
  BY <1>2
<1>4. PICK r : r = m - 1
  OBVIOUS
<1>5. r \in Nat /\ r + 1 = m /\ ~(r * r > x)
  BY <1>2, <1>3, <1>4
<1>6. r * r <= x /\ (r + 1) * (r + 1) > x
  <2>1. r * r \in Nat
    BY <1>5, SMT
  <2> QED
    BY <1>3, <1>5, <2>1
<1>7. r <= x
  <2>1. r <= r * r
    BY <1>5, SMT
  <2>2. r * r \in Nat
    BY <1>5, SMT
  <2> QED
    BY <1>5, <1>6, <2>1, <2>2
<1>8. \E k \in 0..x : k * k <= x /\ (k + 1) * (k + 1) > x
  BY <1>5, <1>6, <1>7
<1>9. Root[x] = CHOOSE k \in 0..x : k * k <= x /\ (k + 1) * (k + 1) > x
  BY DEF Root
<1>10. Root[x] \in 0..x
  BY <1>8, <1>9
<1> QED
  BY <1>10

LEMMA MostOf ==
    ASSUME NEW L, IsFiniteSet(L), L # {}, NEW f, \A i \in L : f[i] \in Nat
    PROVE  \E i \in L : \A j \in L : f[j] <= f[i]
<1> DEFINE P == {f[i] : i \in L}
           g == [i \in L |-> f[i]]
<1>1. g \in Surjection(L, P)
  BY DEF Surjection
<1>2. IsFiniteSet(P)
  BY <1>1, FS_Surjection
<1>3. P \subseteq Nat /\ P # {}
  OBVIOUS
<1> HIDE DEF P
<1>4. PICK a \in P : \A b \in P : b <= a
  BY <1>2, <1>3, LargestExists
<1> QED
  BY <1>4 DEF P

\* There is a price of any rank, and it is a price that was paid.
LEMMA RankedIs ==
    ASSUME NEW table, Table(table), NEW its, its \subseteq DOMAIN table,
           NEW n \in Nat \ {0}, n <= Cardinality(its)
    PROVE  Ranked(table, its, n) \in Nat
<1> DEFINE P == {table[i].amount : i \in its}
           upTo(p) == {i \in its : table[i].amount <= p}
           below(p) == {i \in its : table[i].amount < p}
           B == {p \in P : Cardinality(upTo(p)) >= n}
<1>1. \A i \in its : table[i].amount \in Nat
  BY RowIs DEF Table
<1>2. IsFiniteSet(its) /\ \A p : IsFiniteSet(upTo(p)) /\ IsFiniteSet(below(p))
  BY FS_Subset DEF Table
<1>3. \A p : Cardinality(upTo(p)) \in Nat /\ Cardinality(below(p)) \in Nat
  BY <1>2, FS_CardinalityType
<1>4. its # {}
  BY FS_EmptySet
<1>5. \A L \in SUBSET its : L # {} => \E i \in L : \A j \in L : table[j].amount <= table[i].amount
  <2> SUFFICES ASSUME NEW L, L \subseteq its, L # {}
               PROVE  \E i \in L : \A j \in L : table[j].amount <= table[i].amount
    OBVIOUS
  <2>1. PICK f : f = [i \in L |-> table[i].amount]
    OBVIOUS
  <2>2. IsFiniteSet(L) /\ \A i \in L : f[i] \in Nat
    BY <1>1, <1>2, <2>1, FS_Subset
  <2>3. \E i \in L : \A j \in L : f[j] <= f[i]
    BY <2>2, MostOf
  <2> QED
    BY <2>1, <2>3
<1>6. B # {}
  <2>1. PICK i \in its : \A j \in its : table[j].amount <= table[i].amount
    BY <1>4, <1>5
  <2>2. upTo(table[i].amount) = its
    BY <2>1
  <2> QED
    BY <2>2
<1>7. PICK p \in B : \A q \in B : p <= q
  <2>1. B \subseteq Nat
    BY <1>1
  <2> HIDE DEF B
  <2> QED
    BY <1>6, <2>1, LeastMoment
<1>8. p \in P /\ p \in Nat /\ Cardinality(upTo(p)) >= n
  BY <1>1, <1>7
<1>9. Cardinality(below(p)) < n
  <2> SUFFICES ASSUME ~(Cardinality(below(p)) < n)
               PROVE  FALSE
    OBVIOUS
  <2>8. PICK L : L = below(p)
    OBVIOUS
  <2>9. Cardinality(L) \in Nat /\ ~(Cardinality(L) < n)
    BY <1>3, <2>8
  <2>1. Cardinality(L) >= n
    BY <2>9
  <2>2. L # {}
    <3>1. Cardinality({}) = 0
      BY FS_EmptySet
    <3>2. ~(0 >= n)
      OBVIOUS
    <3> HIDE DEF upTo, below, B, P
    <3> QED
      BY <2>1, <3>1, <3>2
  <2>3. PICK i \in L : \A j \in L : table[j].amount <= table[i].amount
    <3>1. L \in SUBSET its
      BY <2>8
    <3> QED
      BY <1>5, <2>2, <3>1
  <2>4. table[i].amount \in P /\ table[i].amount \in Nat /\ table[i].amount < p
    BY <1>1, <2>3, <2>8
  <2>5. upTo(table[i].amount) = L
    BY <1>1, <1>8, <2>3, <2>4, <2>8
  <2>6. table[i].amount \in B
    BY <2>1, <2>4, <2>5
  <2>7. p <= table[i].amount
    BY <1>7, <2>6
  <2> QED
    BY <1>8, <2>4, <2>7
<1>10. Ranked(table, its, n) = CHOOSE q \in P : Cardinality(below(q)) < n /\ Cardinality(upTo(q)) >= n
  BY DEF Ranked
<1> HIDE DEF upTo, below
<1>11. Ranked(table, its, n) \in P
  BY <1>8, <1>9, <1>10
<1> QED
  BY <1>1, <1>11

LEMMA MedianIs ==
    ASSUME NEW table, Table(table), NEW its, its \subseteq DOMAIN table, its # {}
    PROVE  Median(table, its) \in Nat
<1>1. IsFiniteSet(its)
  BY FS_Subset DEF Table
<1>2. PICK n \in Nat \ {0} : n = Cardinality(its)
  BY <1>1, FS_CardinalityType, FS_EmptySet
<1>3. PICK k, l : k = (n + 1) \div 2 /\ l = (n + 2) \div 2
  OBVIOUS
<1>4. k \in Nat \ {0} /\ l \in Nat \ {0} /\ k <= n /\ l <= n
  BY <1>2, <1>3
<1>5. Ranked(table, its, k) \in Nat /\ Ranked(table, its, l) \in Nat
  BY <1>2, <1>4, RankedIs
<1>6. \A a, b \in Nat : (a + b) \div 2 \in Nat
  OBVIOUS
<1>7. Median(table, its) = (Ranked(table, its, k) + Ranked(table, its, l)) \div 2
  BY <1>2, <1>3 DEF Median
<1> QED
  BY <1>5, <1>6, <1>7

LEMMA StatsAre ==
    ASSUME NEW table, Table(table), NEW v
    PROVE  LET stats == VendorStats(table, v)
           IN  /\ stats.settled \subseteq DOMAIN table /\ Cardinality(stats.settled) \in Nat
               /\ Cardinality(stats.failed) \in Nat /\ Attempts(stats) \in Nat
<1>1. PICK stats : stats = VendorStats(table, v)
  OBVIOUS
<1>2. stats.settled \subseteq DOMAIN table /\ stats.failed \subseteq DOMAIN table
  BY <1>1 DEF VendorStats
<1>3. IsFiniteSet(stats.settled) /\ IsFiniteSet(stats.failed)
  BY <1>2, FS_Subset DEF Table
<1>4. Cardinality(stats.settled) \in Nat /\ Cardinality(stats.failed) \in Nat
  BY <1>3, FS_CardinalityType
<1> QED
  BY <1>1, <1>2, <1>4 DEF Attempts

LEMMA RepriceIs ==
    ASSUME NEW table, Table(table), NEW req \in Requests, NEW snap,
           snap.vendor.settled \subseteq DOMAIN table, NEW ratioFlag \in Nat
    PROVE  Reprice(table, req, snap, ratioFlag).term \in Nat
<1>1. PICK its : its = {i \in snap.vendor.settled : table[i].resource = req.resource}
  OBVIOUS
<1>2. CASE its = {} \/ Median(table, its) = 0
  BY <1>1, <1>2 DEF Reprice, Term
<1>3. CASE its # {} /\ Median(table, its) # 0
  <2>1. Median(table, its) \in Nat \ {0}
    BY <1>1, <1>3, MedianIs
  <2>2. PICK m \in Nat \ {0} : m = Median(table, its)
    BY <2>1
  <2>3. PICK ratio : ratio = (100 * req.amount) \div m
    OBVIOUS
  <2>4. ratio \in Nat
    BY <2>2, <2>3, RequestIs
  <2>5. PICK d, x : d = Above(ratioFlag, 101) + 1 /\ x = (100 * Above(ratio, 100)) \div d
    OBVIOUS
  <2>6. d \in Nat \ {0} /\ Above(ratio, 100) \in Nat
    BY <2>4, <2>5 DEF Above
  <2>7. x \in Int
    BY <2>5, <2>6
  <2>8. Clip[x] \in Nat
    BY <2>7, ClipIs
  <2>9. Reprice(table, req, snap, ratioFlag).term = Clip[x]
    BY <1>1, <1>3, <2>2, <2>3, <2>5 DEF Reprice, Term
  <2> QED
    BY <2>8, <2>9
<1> QED
  BY <1>2, <1>3

LEMMA DeviationIs ==
    ASSUME NEW table, Table(table), NEW baseline, baseline \subseteq DOMAIN table, NEW amount \in Nat
    PROVE  LET d == Deviation(table, baseline, amount)
           IN  d.n \in Nat /\ d.off \in Int /\ d.spread \in Nat
<1>1. IsFiniteSet(baseline)
  BY FS_Subset DEF Table
<1>2. PICK f, g : /\ f = [i \in DOMAIN table |-> table[i].amount]
                  /\ g = [i \in DOMAIN table |-> table[i].amount * table[i].amount]
  OBVIOUS
<1>3. \A i \in baseline : f[i] \in Nat /\ g[i] = f[i] * f[i]
  BY <1>2, RowIs DEF Table
<1>4. PICK n, s, q : /\ n = Cardinality(baseline)
                     /\ s = SumFunctionOnSet(f, baseline) /\ q = SumFunctionOnSet(g, baseline)
  OBVIOUS
<1>5. s \in Nat /\ q \in Nat /\ s * s <= n * q
  BY <1>1, <1>3, <1>4, SpreadIs
<1>6. n \in Nat
  BY <1>1, <1>4, FS_CardinalityType
<1>7. n * amount - s \in Int /\ n * q - s * s \in Nat
  <2>1. n * amount \in Nat /\ n * q \in Nat /\ s * s \in Nat
    BY <1>5, <1>6, SMT
  <2> QED
    BY <1>5, <2>1
<1>8. Deviation(table, baseline, amount) = [n |-> n, off |-> n * amount - s, spread |-> n * q - s * s]
  BY <1>2, <1>4 DEF Deviation
<1> QED
  BY <1>6, <1>7, <1>8

LEMMA AnomalyIs ==
    ASSUME NEW d, d.n \in Nat, d.off \in Int, d.spread \in Nat, NEW saturation \in Nat \ {0}
    PROVE  Anomaly(d, saturation).term \in Nat
<1>1. PICK limit : limit = saturation * saturation * d.spread
  OBVIOUS
<1>2. PICK off, x : off = d.off /\ x = (10000 * off * off) \div limit
  OBVIOUS
<1>3. ASSUME d.spread > 0
      PROVE  x \in Nat
  <2>1. limit \in Nat \ {0}
    <3>1. \A a, b \in Nat \ {0} : a * b \in Nat \ {0}
      BY SMT
    <3>2. saturation * saturation \in Nat \ {0} /\ d.spread \in Nat \ {0}
      BY <1>3, <3>1
    <3> QED
      BY <1>1, <3>1, <3>2
  <2>2. 10000 * off * off \in Nat
    <3>1. off \in Int
      BY <1>2
    <3>2. off * off \in Nat
      BY <3>1, SMT
    <3>3. 10000 * off * off = 10000 * (off * off)
      BY <3>1, SMT
    <3> QED
      BY <3>2, <3>3
  <2>3. \A a \in Nat, b \in Nat \ {0} : a \div b \in Nat
    OBVIOUS
  <2> QED
    BY <1>2, <2>1, <2>2, <2>3
<1>4. \/ d.n < 3 \/ d.off = 0
      \/ d.n >= 3 /\ d.off # 0 /\ d.spread = 0
      \/ d.n >= 3 /\ d.off < 0 /\ d.spread > 0
      \/ d.n >= 3 /\ d.off > 0 /\ d.spread > 0
  OBVIOUS
<1>5. ASSUME d.spread > 0
      PROVE  Root[x] \in Nat
  BY <1>3, <1>5, RootIs
<1>6. CASE d.n < 3 \/ d.off = 0
  <2>1. ~(d.n >= 3 /\ d.off # 0)
    BY <1>6
  <2> QED
    BY <1>6, <2>1 DEF Anomaly, Term
<1>7. CASE d.n >= 3 /\ d.off # 0 /\ d.spread = 0
  BY <1>7 DEF Anomaly, Term
<1>8. CASE d.n >= 3 /\ d.off < 0 /\ d.spread > 0
  BY <1>8 DEF Anomaly, Term
<1>9. CASE d.n >= 3 /\ d.off > 0 /\ d.spread > 0
  <2>1. Anomaly(d, saturation) = IF off * off >= limit THEN Term(100, {"amount_anomaly"})
                                 ELSE Term(Root[x], {})
    BY <1>1, <1>2, <1>9 DEF Anomaly
  <2> QED
    BY <1>5, <1>9, <2>1 DEF Term
<1> QED
  BY <1>4, <1>6, <1>7, <1>8, <1>9

\* The threshold is one that a score can be, and that it still is when it is rounded.
ThresholdIsKept ==
    RiskWeights.high <= 1000 /\ RiskWeights.high <= 10 * Rounded(RiskWeights.high)

LEMMA RoundedIs ==
    ASSUME NEW h \in Int, NEW x \in Int, h <= x, h <= 1000, h <= 10 * Rounded(h)
    PROVE  Rounded(x) \in Int /\ h <= 10 * Clip[Rounded(x)]
<1>1. \A y \in Int : Rounded(y) = (y + 5) \div 10 /\ Rounded(y) \in Int
  BY DEF Rounded
<1>2. Rounded(h) <= Rounded(x)
  <2>1. (h + 5) \div 10 <= (x + 5) \div 10
    BY SMTT(60)
  <2> QED
    BY <1>1, <2>1
<1>3. PICK m, n \in Int : m = Rounded(h) /\ n = Rounded(x) /\ m <= n
  BY <1>1, <1>2
<1>4. Clip[n] = IF n < 0 THEN 0 ELSE IF n > 100 THEN 100 ELSE n
  BY <1>3 DEF Clip
<1>5. h <= 10 * m /\ h <= 1000
  BY <1>3
<1>6. h <= 10 * Clip[n]
  BY <1>3, <1>4, <1>5
<1> QED
  BY <1>1, <1>3, <1>6

\* A dispute floors the score, whatever else there is to add up.
LEMMA DisputedIsRisky ==
    ASSUME ThresholdIsKept, NEW table, Table(table), NEW req \in Requests, NEW t,
           NEW j \in DOMAIN table, table[j].disputed, table[j].vendor = req.vendor
    PROVE  "high_risk" \in RiskOf(table, req, t).flags
<1> DEFINE w == RiskWeights
           snap == Snapshot(table, req, t)
           stats == snap.vendor
           n == Cardinality(stats.settled)
           failRate == IF Attempts(stats) = 0 THEN 0
                       ELSE (100 * Cardinality(stats.failed)) \div Attempts(stats)
           anomaly == Anomaly(Deviation(table, snap.baseline, req.amount), w.zSaturation)
           reprice == Reprice(table, req, snap, w.repriceRatio)
           a == Share(req.amount, w.amountSaturation)
           b == Share(n, w.noveltySaturation)
           c == Share(snap.countMinute, w.burst)
           sum == (w.amount * a + w.novelty * (100 - b) + w.zscore * anomaly.term
                     + w.velocity * c + w.reprice * reprice.term + w.failures * failRate) \div 10
           score == Clip[Rounded(Floor(sum, stats, w.high))]
<1>1. /\ w.amount \in Nat /\ w.novelty \in Nat /\ w.zscore \in Nat /\ w.velocity \in Nat
      /\ w.reprice \in Nat /\ w.failures \in Nat /\ w.repriceRatio \in Nat
      /\ w.amountSaturation \in Nat \ {0} /\ w.zSaturation \in Nat \ {0}
      /\ w.noveltySaturation \in Nat \ {0} /\ w.burst \in Nat \ {0} /\ w.high \in Int
  BY ControlsAssumption DEF ControlsAssumption, RiskConfig
<1>2. stats = VendorStats(table, req.vendor)
  BY DEF Snapshot
<1>3. /\ stats.settled \subseteq DOMAIN table /\ n \in Nat
      /\ Cardinality(stats.failed) \in Nat /\ Attempts(stats) \in Nat
  BY <1>2, StatsAre
<1>4. stats.disputed # {}
  <2>1. stats.disputed = {i \in {k \in DOMAIN table : table[k].vendor = req.vendor} : table[i].disputed}
    BY <1>2 DEF VendorStats
  <2> QED
    BY <2>1
<1>5. snap.baseline \subseteq DOMAIN table
  <2>1. snap.baseline = Recent(table, BaselineRows(table, OwnRows(table, req), t))
    BY DEF Snapshot
  <2> QED
    BY <2>1 DEF Recent, BaselineRows, Since, OwnRows
<1>6. snap.countMinute \in Nat
  BY SnapshotTyped
<1>7. req.amount \in Nat
  BY RequestIs
<1>8. RiskOf(table, req, t).flags =
         anomaly.flags \cup reprice.flags
           \cup (IF n = 0 THEN {"unknown_vendor"} ELSE {})
           \cup (IF snap.truncated THEN {"baseline_truncated"} ELSE {})
           \cup (IF snap.countMinute >= w.burst THEN {"velocity_burst"} ELSE {})
           \cup (IF failRate > 20 /\ Attempts(stats) >= 3 THEN {"unreliable_vendor"} ELSE {})
           \cup (IF stats.disputed # {} THEN {"disputed_history"} ELSE {})
           \cup (IF 10 * score >= w.high THEN {"high_risk"} ELSE {})
  BY DEF RiskOf, Risk
<1> HIDE DEF w, snap
<1>9. anomaly.term \in Nat
  <2>1. PICK d : d = Deviation(table, snap.baseline, req.amount)
    OBVIOUS
  <2>2. d.n \in Nat /\ d.off \in Int /\ d.spread \in Nat
    BY <1>5, <1>7, <2>1, DeviationIs
  <2> QED
    BY <1>1, <2>1, <2>2, AnomalyIs
<1>10. reprice.term \in Nat
  BY <1>1, <1>3, RepriceIs
<1>11. a \in Nat /\ b \in Nat /\ c \in Nat
  BY <1>1, <1>3, <1>6, <1>7, ShareIs
<1>12. failRate \in Nat
  <2>1. \A x, y \in Nat : y # 0 => (100 * x) \div y \in Nat
    OBVIOUS
  <2> QED
    BY <1>3, <2>1
<1> HIDE DEF failRate, anomaly, reprice, a, b, c, n, stats
<1>13. sum \in Int
  <2>1. PICK x1, x2, x3, x4, x5, x6 :
           /\ x1 = w.amount * a /\ x2 = w.novelty * (100 - b) /\ x3 = w.zscore * anomaly.term
           /\ x4 = w.velocity * c /\ x5 = w.reprice * reprice.term /\ x6 = w.failures * failRate
    OBVIOUS
  <2>2. \A x \in Nat, y \in Int : x * y \in Int
    BY SMT
  <2>3. 100 - b \in Int
    BY <1>11
  <2>4. x1 \in Int /\ x2 \in Int /\ x3 \in Int /\ x4 \in Int /\ x5 \in Int /\ x6 \in Int
    BY <1>1, <1>9, <1>10, <1>11, <1>12, <2>1, <2>2, <2>3
  <2>5. (x1 + x2 + x3 + x4 + x5 + x6) \div 10 \in Int
    BY <2>4
  <2> QED
    BY <2>1, <2>5
<1> HIDE DEF sum
<1>14. Floor(sum, stats, w.high) \in Int /\ w.high <= Floor(sum, stats, w.high)
  BY <1>1, <1>4, <1>13 DEF Floor
<1>15. 10 * score >= w.high
  <2>1. PICK x \in Int : x = Floor(sum, stats, w.high) /\ w.high <= x
    BY <1>14
  <2>2. w.high <= 1000 /\ w.high <= 10 * Rounded(w.high)
    BY DEF ThresholdIsKept, w
  <2>3. Rounded(x) \in Int /\ w.high <= 10 * Clip[Rounded(x)]
    BY <1>1, <2>1, <2>2, RoundedIs
  <2>4. Clip[Rounded(x)] \in Int
    BY <2>3, ClipIs
  <2> QED
    BY <1>1, <2>1, <2>3, <2>4
<1> HIDE DEF score
<1> QED
  BY <1>8, <1>15

\* Once a payment to a vendor is disputed nothing more is approved for that vendor, by any
\* rule, for any agent and on either channel: if the high-risk threshold is not above one,
\* and risk.evaluate's rounding does not take the score it floors to below it again.
THEOREM ControlsDisputeEndsApproval ==
    ASSUME ThresholdIsKept
    PROVE  Spec => DisputeEndsApproval
<1> DEFINE Ends == \A i \in DOMAIN rows' \ DOMAIN rows :
                      (\E j \in DOMAIN rows : rows[j].disputed /\ rows[j].vendor = rows'[i].vendor)
                         => rows'[i].verdict # "APPROVE"
<1>1. ASSUME IInv, [Next]_vars
      PROVE  [Ends]_vars
  <2> SUFFICES ASSUME ~(UNCHANGED vars)
               PROVE  Ends
    OBVIOUS
  <2>1. rows \in Seq(Row) /\ open \subseteq DOMAIN rows
    BY <1>1 DEF IInv, TypeOK
  <2>2. ASSUME NEW req \in Requests, NEW verdict \in Verdicts, Asked(req, verdict)
        PROVE  Ends
    <3> SUFFICES ASSUME NEW i \in DOMAIN rows' \ DOMAIN rows,
                        NEW j \in DOMAIN rows, rows[j].disputed, rows[j].vendor = rows'[i].vendor,
                        rows'[i].verdict = "APPROVE"
                 PROVE  FALSE
      OBVIOUS
    <3>1. /\ DOMAIN rows' = DOMAIN rows \cup {NextId}
          /\ rows'[NextId] = NewRow(req, verdict)
      BY <2>1, <2>2, Recorded DEF Asked
    <3>2. rows'[i].vendor = req.vendor /\ rows'[i].verdict = verdict
      BY <3>1 DEF NewRow
    <3>3. "high_risk" \notin RiskOf(rows, req, now).flags
      BY <2>2, <3>2, DecidedIs DEF Asked
    <3>4. Table(rows)
      BY <2>1, SeqIsATable
    <3> QED
      BY <3>2, <3>3, <3>4, DisputedIsRisky
  <2>3. ASSUME DOMAIN rows' = DOMAIN rows
        PROVE  Ends
    BY <2>3
  <2>4. ASSUME NEW i \in Ids, NEW success \in BOOLEAN, Ended(i, success)
        PROVE  DOMAIN rows' = DOMAIN rows
    <3>1. i \in DOMAIN rows
      BY <2>1, <2>4 DEF Ended, Settle, SettleRun
    <3> QED
      BY <2>1, <2>4, <3>1, Settled
  <2>5. ASSUME NEW i \in Ids, MarkDisputed(i)
        PROVE  DOMAIN rows' = DOMAIN rows
    BY <2>1, <2>5, Disputed
  <2> HIDE DEF Ends
  <2> QED
    BY <1>1, <2>2, <2>3, <2>4, <2>5, StepKinds DEF Abandon, Tick
<1> QED
  BY <1>1, TypeInit, TypeStep, PTL DEF Spec, DisputeEndsApproval
=============================================================================

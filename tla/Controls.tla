------------------------------ MODULE Controls ------------------------------
(***************************************************************************)
(* What the deterministic engines compute from the transaction table, over *)
(* a sequence of payments: Store.snapshot and vendor_stats (store.py), the *)
(* treasury, trust, risk, ROI and policy engines, and the policy bundle    *)
(* they are configured by (config.py).                                     *)
(*                                                                         *)
(* Each agent settles, or gives up on, one payment before it asks for the  *)
(* next, and every request has a fresh id: what several callers at once or *)
(* a reused id do to the same table is Ledger's subject.  Here it is what  *)
(* the windows, the channels, the vendor's record and the rules do.        *)
(*                                                                         *)
(* Scores and weights are in hundredths, rounded down; a hundredth stands  *)
(* for the last digit that risk.evaluate keeps of its score.  A fact is    *)
(* the set of its value, empty where the code has None.                    *)
(***************************************************************************)
EXTENDS Verdicts, Integers, FiniteSets, FiniteSetsExt, SequencesExt

CONSTANTS
    Agents, Vendors, Resources,
    Sanctioned,     \* the vendors with sanctioned = True
    Profile,        \* what an operator has declared of each vendor
    Ids,            \* 1..n: request ids, in the order they are made
    Requests,       \* what may be asked for
    Amounts,        \* atomic units
    Reported,       \* the amounts a settlement may report
    Treasury,       \* channel -> TreasuryConfig
    TrustWeights,   \* TrustConfig
    RiskWeights,    \* RiskConfig, with the literals of risk.py
    Eiap,           \* EiapConfig, with the advisor's price
    Recommendations,    \* what an advisor may answer
    ExpectedValue,  \* RoiConfig.expected_value: resource -> value, where declared
    DerivedFacts,   \* PolicyBundle.derived
    Rules,          \* PolicyBundle.rules
    Minute, Hour, Day, ThirtyDays, Month,   \* lengths, in ticks of the clock
    BaselineCap,    \* store.BASELINE_ROW_CAP
    Histories,      \* what Store.seed may have loaded before
    FirstMoment,    \* the clock when the table has been seeded
    LastMoment,     \* bound on the clock
    MaxDisputes     \* bound on the rows marked as disputed

Channels == {"external", "internal"}

NotReported == -1
Never == -1

Row == [agent: Agents, vendor: Vendors, resource: Resources, channel: Channels,
        amount: Nat, verdict: Verdicts, at: 0..LastMoment, settled: BOOLEAN,
        success: BOOLEAN, disputed: BOOLEAN, paid: Nat \cup {NotReported},
        asked: Nat]     \* history, no column: the amount that was decided about

\* A limit over a long window may be absent: the empty set.
Optional == {S \in SUBSET Nat : \A m, n \in S : m = n}

\* The policy bundle.
TreasuryConfig ==
    [balance: Nat, reserve: Nat, perTx: Nat, daily: Nat, monthly: Nat, perVendor: Nat,
     perResource: Nat, velocityMinute: Nat, velocityHour: Nat, perDay: Optional,
     perMonth: Optional, tiers: SUBSET [settledAtLeast: Nat, multiplier: Nat]]

TrustConfig ==
    [coldStart: 0..100, success: Nat, volume: Nat, age: Nat, dispute: Nat,
     volumeSaturation: Nat \ {0}, ageSaturation: Nat \ {0}]

RiskConfig ==
    [amount: Nat, novelty: Nat, zscore: Nat, velocity: Nat, reprice: Nat, failures: Nat,
     amountSaturation: Nat \ {0}, zSaturation: Nat \ {0}, repriceRatio: Nat,
     noveltySaturation: Nat \ {0}, burst: Nat \ {0},
     high: Int]     \* in thousandths: the threshold may be finer than the scores

EiapConfig == [cost: Nat, baseFlip: 0..100, maxFlip: 0..100]

\* Vendor.jurisdiction: one state of the three has a value.
VendorProfile ==
    {p \in [tags: SUBSET STRING, jurisdiction: SUBSET STRING,
            jurisdictionState: {"undeclared", "unknown", "declared"}] :
        /\ \A x, y \in p.jurisdiction : x = y
        /\ p.jurisdiction # {} <=> p.jurisdictionState = "declared"}

Purposes == {"data_purchase", "compute", "service", "subscription", "inference", "unknown"}

\* The names build_facts gives a rule to match on, and the fixed vocabulary.
FactNames == {"amount", "resource", "purpose", "channel", "agent", "vendor", "sanctioned",
              "tags", "jurisdiction", "jurisdictionState", "isNew", "settledCount",
              "trustScore", "trustFlags", "riskScore", "riskFlags", "roiKnown", "roiRatio",
              "roiJustified", "budgetOk", "binding", "headroom"}

Comparators == {"eq", "ne", "lt", "lte", "gt", "gte", "in", "not_in", "between", "contains"}
Combinators == {"all", "any", "not"}

\* _validate_clause, for conditions over the names in scope.
ValidClause(clause, inScope) ==
    \A c \in clause : c.fact \in inScope /\ c.op \in Comparators

\* validate_pack, without the shapes that records have anyway: a derived fact uses those
\* declared before it, and neither hides another nor an engine's.
DerivedBefore(derived, n) == FactNames \cup {derived[i].name : i \in 1..(n - 1)}

ValidPack(rules, derived) ==
    /\ \A n \in DOMAIN derived :
          /\ derived[n].name \notin DerivedBefore(derived, n)
          /\ derived[n].combinator \in Combinators
          /\ derived[n].clauses # {}
          /\ \A c \in derived[n].clauses : ValidClause(c, DerivedBefore(derived, n))
    /\ \A r \in rules :
          /\ r.then \in Verdicts
          /\ r.priority \in Int /\ r.id \in Nat
          /\ ValidClause(r.when, DerivedBefore(derived, Len(derived) + 1))
          /\ \A s \in rules : r.id = s.id => r = s

\* load_bundle refuses a pack that is not valid.
ASSUME ControlsAssumption ==
    /\ ValidPack(Rules, DerivedFacts) /\ IsFiniteSet(Rules)
    /\ Treasury \in [Channels -> TreasuryConfig]
    /\ TrustWeights \in TrustConfig
    /\ RiskWeights \in RiskConfig
    /\ Eiap \in EiapConfig
    /\ Recommendations \subseteq Verdicts
    /\ Ids \subseteq Nat \ {0}
    /\ Amounts \subseteq Nat \ {0}
    /\ Reported \subseteq Nat
    /\ Requests \subseteq [agent: Agents, vendor: Vendors, resource: Resources,
                            channel: Channels, amount: Amounts, purpose: Purposes,
                            expected: Optional]
    /\ Sanctioned \subseteq Vendors
    /\ Profile \in [Vendors -> VendorProfile]
    /\ DOMAIN ExpectedValue \subseteq Resources
    /\ {Minute, Hour, Day, ThirtyDays, Month} \subseteq Nat \ {0}
    /\ Month % Day = 0
    /\ BaselineCap \in Nat
    /\ LastMoment \in Nat
    /\ MaxDisputes \in Nat
    /\ FirstMoment \in 0..LastMoment
    /\ Histories \subseteq Seq(Row)
    /\ \A h \in Histories : DOMAIN h \subseteq Ids
    /\ \A h \in Histories : \A i \in DOMAIN h : h[i].at <= FirstMoment

VARIABLES
    rows,       \* the transactions table
    firstSeen,  \* the vendors table
    open,       \* approved payments whose outcome may still be reported
    now         \* the clock

vars == <<rows, firstSeen, open, now>>

\* Store.seed: the rows of an earlier history, and their vendors as first seen then.
Init ==
    /\ rows \in Histories
    /\ firstSeen = [v \in Vendors |->
          LET moments == {rows[i].at : i \in {j \in DOMAIN rows : rows[j].vendor = v}}
          IN  IF moments = {} THEN Never ELSE Min(moments)]
    /\ open = {}
    /\ now = FirstMoment

-----------------------------------------------------------------------------
(***************************************************************************)
(* Store.snapshot: sums and counts over one agent's rows on one channel.   *)
(***************************************************************************)
Paid(table, i) == table[i].settled /\ table[i].success

Counted(table, i) == IF table[i].paid = NotReported THEN table[i].amount ELSE table[i].paid

Spent(table, S) ==
    SumFunctionOnSet([i \in DOMAIN table |-> Counted(table, i)], {i \in S : Paid(table, i)})

Since(table, S, moment) == {i \in S : table[i].at >= moment}

StartOfDay(t) == t - (t % Day)
StartOfMonth(t) == t - (t % Month)

OwnRows(table, req) ==
    {i \in DOMAIN table : /\ table[i].agent = req.agent
                          /\ table[i].channel = req.channel}

\* The most recent BaselineCap amounts paid in thirty days; the query fetches one row
\* more to know whether it was cut.
BaselineRows(table, own, t) == {i \in Since(table, own, t - ThirtyDays) : Paid(table, i)}

Recent(table, S) ==
    {i \in S : Cardinality({j \in S : \/ table[j].at > table[i].at
                                      \/ table[j].at = table[i].at /\ j > i}) < BaselineCap}

\* vendor_stats: over every agent and both channels, in the order of the rows.  An
\* approved row that has not succeeded counts as failed, whether its failure was
\* reported or nothing was.
VendorStats(table, v) ==
    LET its == {i \in DOMAIN table : table[i].vendor = v} IN
    [settled  |-> {i \in its : Paid(table, i)},
     failed   |-> {i \in its : ~Paid(table, i) /\ table[i].verdict = "APPROVE"},
     disputed |-> {i \in its : table[i].disputed}]

Snapshot(table, req, t) ==
    LET own == OwnRows(table, req)
        spent(S) == Spent(table, S)
        count(moment) == Cardinality(Since(table, own, moment))
        month == Since(table, own, t - ThirtyDays)
    IN [spentToday    |-> spent(Since(table, own, StartOfDay(t))),
        spentMonth    |-> spent(Since(table, own, StartOfMonth(t))),
        spentVendor   |-> spent({i \in month : table[i].vendor = req.vendor}),
        spentResource |-> spent({i \in month : table[i].resource = req.resource}),
        countMinute   |-> count(t - Minute),
        countHour     |-> count(t - Hour),
        countToday    |-> count(StartOfDay(t)),
        countMonth    |-> count(StartOfMonth(t)),
        baseline      |-> Recent(table, BaselineRows(table, own, t)),
        truncated     |-> Cardinality(BaselineRows(table, own, t)) > BaselineCap,
        vendor        |-> VendorStats(table, req.vendor)]

Attempts(stats) == Cardinality(stats.settled) + Cardinality(stats.failed)

-----------------------------------------------------------------------------
(***************************************************************************)
(* The treasury: every envelope and counter, and the reserve.              *)
(***************************************************************************)
Envelope(name, limit, used) == [name |-> name, limit |-> limit, used |-> used]

Above(a, b) == IF a > b THEN a - b ELSE 0

Headroom_Limit(e) == e.limit                \* mutant: what is used is forgotten
Headroom(e) == Above(e.limit, e.used)

\* The multiplier, in hundredths, of the highest tier reached; one dispute, and none is.
PerTxLimit(cfg, stats) ==
    LET reached == {t \in cfg.tiers : Cardinality(stats.settled) >= t.settledAtLeast}
        top == CHOOSE t \in reached : \A u \in reached : u.settledAtLeast <= t.settledAtLeast
    IN  IF stats.disputed # {} \/ reached = {} THEN cfg.perTx
        ELSE (cfg.perTx * top.multiplier) \div 100

Envelopes(cfg, snap) ==
    <<Envelope("per_transaction", PerTxLimit(cfg, snap.vendor), 0),
      Envelope("balance", Above(cfg.balance, cfg.reserve), snap.spentMonth),
      Envelope("daily", cfg.daily, snap.spentToday),
      Envelope("monthly", cfg.monthly, snap.spentMonth),
      Envelope("per_vendor", cfg.perVendor, snap.spentVendor),
      Envelope("per_resource", cfg.perResource, snap.spentResource)>>

\* An absent long-window limit (None: the empty set) makes no counter at all.
Counters(cfg, snap) ==
    <<Envelope("velocity_60s", cfg.velocityMinute, snap.countMinute),
      Envelope("velocity_1h", cfg.velocityHour, snap.countHour)>>
    \o (IF cfg.perDay = {} THEN <<>>
        ELSE <<Envelope("actions_per_day", CHOOSE n \in cfg.perDay : TRUE, snap.countToday)>>)
    \o (IF cfg.perMonth = {} THEN <<>>
        ELSE <<Envelope("actions_per_month", CHOOSE n \in cfg.perMonth : TRUE, snap.countMonth)>>)

Reserve(cfg, snap, amount) ==
    IF cfg.balance - snap.spentMonth - amount < cfg.reserve
    THEN <<Envelope("emergency_reserve", cfg.reserve, cfg.reserve)>>
    ELSE <<>>

\* The first, among those in S, of the envelopes with the least headroom.
Tightest(es, S) ==
    es[CHOOSE i \in S : \A j \in S :
          \/ Headroom(es[i]) < Headroom(es[j])
          \/ Headroom(es[i]) = Headroom(es[j]) /\ i <= j]

Exhausted_Over(c) == c.used > c.limit       \* mutant: one action too many
Exhausted(c) == c.used >= c.limit

Budget(cfg, snap, amount) ==
    LET envelopes == Envelopes(cfg, snap) \o Reserve(cfg, snap, amount)
        counters == Counters(cfg, snap)
        failing == {i \in DOMAIN envelopes : amount > Headroom(envelopes[i])}
        breached == {i \in DOMAIN counters : Exhausted(counters[i])}
    IN  [ok       |-> failing = {} /\ breached = {},
         binding  |-> IF failing # {} THEN {Tightest(envelopes, failing).name}
                      ELSE {counters[i].name : i \in {j \in breached : \A k \in breached : j <= k}},
         headroom |-> Headroom(Tightest(envelopes, 1..6))]

-----------------------------------------------------------------------------
(***************************************************************************)
(* Trust and risk: weighted sums of named terms, in hundredths.            *)
(***************************************************************************)
Share(x, y) == IF x >= y THEN 100 ELSE (100 * x) \div y         \* min(1, x/y)
Clip[x \in Int] == IF x < 0 THEN 0 ELSE IF x > 100 THEN 100 ELSE x

\* An unknown vendor has the cold-start score, whatever has failed before.
TrustScore(w, stats, age) ==
    LET n == Cardinality(stats.settled)
        d == Cardinality(stats.disputed)
        earned == (w.success * Share(n, Attempts(stats)) + w.volume * Share(n, w.volumeSaturation)
                     + w.age * Share(age, w.ageSaturation)) \div 100
    IN  IF n = 0 THEN w.coldStart
        ELSE Clip[earned - (w.dispute * Share(d, n)) \div 100]

TrustFlags(stats) ==
    LET n == Cardinality(stats.settled) IN
    IF n = 0 THEN {"new_vendor"}
    ELSE (IF stats.disputed # {} THEN {"disputes_on_record"} ELSE {})
         \cup (IF Attempts(stats) >= 3 /\ 100 * n < 80 * Attempts(stats)
               THEN {"elevated_failure_rate"} ELSE {})

\* HistorySnapshot.amount_zscore, in whole numbers: with n amounts, an amount is z standard
\* deviations out when off = z * sqrt(spread).
Deviation(table, baseline, amount) ==
    LET n == Cardinality(baseline)
        sum == SumFunctionOnSet([i \in DOMAIN table |-> table[i].amount], baseline)
        squares == SumFunctionOnSet([i \in DOMAIN table |-> table[i].amount * table[i].amount], baseline)
    IN  [n |-> n, off |-> n * amount - sum, spread |-> n * squares - sum * sum]

Root[x \in Nat] == CHOOSE r \in 0..x : r * r <= x /\ (r + 1) * (r + 1) > x

Term(term, flags) == [term |-> term, flags |-> flags]

\* With no spread (dispersion_state), an amount outside the baseline is as anomalous as
\* can be, and one inside it not at all; below three amounts nothing is known.
Anomaly(d, saturation) ==
    LET limit == saturation * saturation * d.spread
    IN  CASE d.n < 3 \/ d.off = 0 -> Term(0, {})
          [] d.n >= 3 /\ d.off # 0 /\ d.spread = 0 -> Term(100, {"amount_outside_flat_baseline"})
          [] d.n >= 3 /\ d.off < 0 /\ d.spread > 0 -> Term(0, {})
          [] d.n >= 3 /\ d.off > 0 /\ d.spread > 0 ->
                IF d.off * d.off >= limit THEN Term(100, {"amount_anomaly"})
                ELSE Term(Root[(10000 * d.off * d.off) \div limit], {})

\* The price that is n-th from the lowest, ...
Ranked(table, its, n) ==
    CHOOSE p \in {table[i].amount : i \in its} :
        /\ Cardinality({i \in its : table[i].amount < p}) < n
        /\ Cardinality({i \in its : table[i].amount <= p}) >= n

\* ... and the vendor's own median price: the lower middle and the upper one.
Median(table, its) ==
    LET n == Cardinality(its)
    IN  (Ranked(table, its, (n + 1) \div 2) + Ranked(table, its, (n + 2) \div 2)) \div 2

\* Without a price, or with a median of nothing, there is no ratio; a ratioFlag of one or
\* less divides by next to nothing.
Reprice(table, req, snap, ratioFlag) ==
    LET its == {i \in snap.vendor.settled : table[i].resource = req.resource}
        ratio == (100 * req.amount) \div Median(table, its)
    IN  IF its = {} \/ Median(table, its) = 0 THEN Term(0, {})
        ELSE Term(Clip[(100 * Above(ratio, 100)) \div (Above(ratioFlag, 101) + 1)],
                  IF ratio >= ratioFlag THEN {"vendor_repriced"} ELSE {})

Floor_None(score, stats, threshold) == score     \* mutant: a dispute floors nothing

\* A dispute floors the score, still in thousandths, at the high-risk threshold.
Floor(score, stats, threshold) ==
    IF stats.disputed # {} /\ score < threshold THEN threshold ELSE score

\* round(value, 4): the last digit that is kept is a hundredth here.
Rounded(thousandths) == (thousandths + 5) \div 10

Risk(w, table, req, snap) ==
    LET stats == snap.vendor
        n == Cardinality(stats.settled)
        failRate == IF Attempts(stats) = 0 THEN 0
                    ELSE (100 * Cardinality(stats.failed)) \div Attempts(stats)
        anomaly == Anomaly(Deviation(table, snap.baseline, req.amount), w.zSaturation)
        reprice == Reprice(table, req, snap, w.repriceRatio)
        sum == (w.amount * Share(req.amount, w.amountSaturation)
                  + w.novelty * (100 - Share(n, w.noveltySaturation))
                  + w.zscore * anomaly.term
                  + w.velocity * Share(snap.countMinute, w.burst)
                  + w.reprice * reprice.term
                  + w.failures * failRate) \div 10
        score == Clip[Rounded(Floor(sum, stats, w.high))]
    IN  [score |-> score,
         flags |-> anomaly.flags \cup reprice.flags
                   \cup (IF n = 0 THEN {"unknown_vendor"} ELSE {})
                   \cup (IF snap.truncated THEN {"baseline_truncated"} ELSE {})
                   \cup (IF snap.countMinute >= w.burst THEN {"velocity_burst"} ELSE {})
                   \cup (IF failRate > 20 /\ Attempts(stats) >= 3
                         THEN {"unreliable_vendor"} ELSE {})
                   \cup (IF stats.disputed # {} THEN {"disputed_history"} ELSE {})
                   \cup (IF 10 * score >= w.high THEN {"high_risk"} ELSE {})]

-----------------------------------------------------------------------------
(***************************************************************************)
(* The policy: facts, derived facts, and the first rule that matches.      *)
(***************************************************************************)
\* The value the request names wins over the operator's table.
Expected(req) ==
    IF req.expected # {} THEN req.expected
    ELSE {ExpectedValue[r] : r \in DOMAIN ExpectedValue \cap {req.resource}}

Ratio(req) == {(100 * value) \div req.amount : value \in Expected(req)}

Facts(req, snap, trust, risk, budget) ==
    [amount |-> {req.amount}, resource |-> {req.resource}, purpose |-> {req.purpose},
     channel |-> {req.channel}, agent |-> {req.agent}, vendor |-> {req.vendor},
     sanctioned |-> {req.vendor \in Sanctioned},
     tags |-> {Profile[req.vendor].tags},
     jurisdiction |-> Profile[req.vendor].jurisdiction,
     jurisdictionState |-> {Profile[req.vendor].jurisdictionState},
     isNew |-> {snap.vendor.settled = {}},
     settledCount |-> {Cardinality(snap.vendor.settled)},
     trustScore |-> {trust.score}, trustFlags |-> {trust.flags},
     riskScore |-> {risk.score}, riskFlags |-> {risk.flags},
     roiKnown |-> {Ratio(req) # {}}, roiRatio |-> Ratio(req),
     roiJustified |-> {r >= 100 : r \in Ratio(req)},
     budgetOk |-> {budget.ok}, binding |-> budget.binding, headroom |-> {budget.headroom}]

\* _compare: an unknown fact satisfies no ordering comparison.
Compare(fact, op, want) ==
    CASE op = "eq"       -> fact = {want}
      [] op = "ne"       -> fact # {want}
      [] op = "in"       -> fact # {} /\ fact \subseteq want
      [] op = "not_in"   -> fact \cap want = {}
      [] op = "lt"       -> \E f \in fact : f < want
      [] op = "lte"      -> \E f \in fact : f <= want
      [] op = "gt"       -> \E f \in fact : f > want
      [] op = "gte"      -> \E f \in fact : f >= want
      [] op = "between"  -> \E f \in fact : want[1] <= f /\ f <= want[2]
      [] op = "contains" -> \E f \in fact : want \in f

Holds(facts, clauses) ==
    \A c \in clauses :
        Compare(IF c.fact \in DOMAIN facts THEN facts[c.fact] ELSE {}, c.op, c.want)

\* apply_derived: in declaration order, so that one may use those before it.
Derive(facts, d) ==
    LET value == CASE d.combinator = "all" -> \A c \in d.clauses : Holds(facts, c)
                   [] d.combinator = "any" -> \E c \in d.clauses : Holds(facts, c)
                   [] d.combinator = "not" -> ~ \A c \in d.clauses : Holds(facts, c)
    IN  [n \in DOMAIN facts \cup {d.name} |-> IF n = d.name THEN {value} ELSE facts[n]]

WithDerived(facts) == FoldLeft(Derive, facts, DerivedFacts)

\* By priority, then by id.
Before(r, s) == r.priority < s.priority \/ (r.priority = s.priority /\ r.id <= s.id)

\* The first rule that matches decides; no match fails closed.
PolicyVerdict(facts) ==
    LET all == WithDerived(facts)
        matching == {r \in Rules : Holds(all, r.when)}
    IN  IF matching = {} THEN "REVIEW"
        ELSE (CHOOSE r \in matching : \A s \in matching : Before(r, s)).then

\* eiap.evaluate: an advisor is worth its price when what it may save, the amount times
\* the chance that it flips a wrong decision, is more.  The chance grows with what the
\* engines are unsure of: the value, the vendor, and a risk in the middle of the band.
WouldInvoke(cfg, req, trust, risk) ==
    LET ambiguity == 100 - 2 * (IF risk.score > 50 THEN risk.score - 50 ELSE 50 - risk.score)
        uncertainty == Clip[(40 * (IF Ratio(req) = {} THEN 100 ELSE 0)
                               + 30 * (100 - trust.score) + 30 * ambiguity) \div 100]
        flip == 100 * cfg.baseFlip + (cfg.maxFlip - cfg.baseFlip) * uncertainty
    IN  (req.amount * flip) \div 10000 > cfg.cost

\* RuleEngine.decide, for a request without an intent, identity or registered engine.
Decided(table, req, t) ==
    LET snap == Snapshot(table, req, t)
        budget == Budget(Treasury[req.channel], snap, req.amount)
        age == IF firstSeen[req.vendor] = Never THEN 0 ELSE t - firstSeen[req.vendor]
        trust == [score |-> TrustScore(TrustWeights, snap.vendor, age),
                  flags |-> TrustFlags(snap.vendor)]
        risk == Risk(RiskWeights, table, req, snap)
        policy == PolicyVerdict(Facts(req, snap, trust, risk, budget))
        funded == IF budget.ok THEN policy ELSE Narrower(policy, "REVIEW")
    IN  [verdict |-> IF req.vendor \in Sanctioned THEN "REJECT"
                     ELSE IF "high_risk" \in risk.flags /\ funded = "APPROVE" THEN "ESCALATE"
                     ELSE funded,
         advice  |-> WouldInvoke(Eiap, req, trust, risk)]

-----------------------------------------------------------------------------
(***************************************************************************)
(* Operations.                                                             *)
(***************************************************************************)
NextId == Cardinality(DOMAIN rows) + 1

\* Store.record: the first payment to a vendor registers it.
Record(req, verdict) ==
    /\ rows' = Append(rows, [agent |-> req.agent, vendor |-> req.vendor,
                             resource |-> req.resource, channel |-> req.channel,
                             amount |-> req.amount, verdict |-> verdict, at |-> now,
                             settled |-> FALSE, success |-> FALSE, disputed |-> FALSE,
                             paid |-> NotReported, asked |-> req.amount])
    /\ open' = IF verdict = "APPROVE" THEN open \cup {NextId} ELSE open
    /\ firstSeen' = [firstSeen EXCEPT ![req.vendor] = IF @ = Never THEN now ELSE @]
    /\ UNCHANGED now

MayAsk(req) ==
    /\ NextId \in Ids
    /\ \A i \in open : rows[i].agent # req.agent

\* Tesoro.authorize.
Authorize(req) ==
    /\ MayAsk(req)
    /\ Record(req, Decided(rows, req, now).verdict)

\* Tesoro.advise and consult, where an advisor is asked and answers; in every other case
\* advise() records what authorize() does.
Advise(req) ==
    /\ MayAsk(req)
    /\ Decided(rows, req, now).advice
    /\ \E recommended \in Recommendations :
          Record(req, Narrower(Decided(rows, req, now).verdict, recommended))

Settle_Open(i, success) ==                  \* mutant: the payment can be settled again
    /\ i \in open
    /\ rows' = [rows EXCEPT ![i].settled = TRUE, ![i].success = success]
    /\ UNCHANGED <<firstSeen, open, now>>

\* Store.mark_settled, by record_settlement: whatever is reported to have moved is taken,
\* more than was authorised too.  The amount reported with a failure is never read.
Settle(i, success) ==
    /\ i \in open
    /\ \E paid \in {NotReported} \cup {n \in Reported : success} :
          rows' = [rows EXCEPT ![i].settled = TRUE, ![i].success = success, ![i].paid = paid]
    /\ open' = open \ {i}
    /\ UNCHANGED <<firstSeen, now>>

\* InferenceGate.settle_run: the budget of a run is overwritten by what the run cost.
SettleRun(i, success) ==
    /\ i \in open
    /\ rows[i].channel = "internal"
    /\ \E actual \in Reported :
          rows' = [rows EXCEPT ![i].settled = TRUE, ![i].success = success, ![i].amount = actual]
    /\ open' = open \ {i}
    /\ UNCHANGED <<firstSeen, now>>

\* Nothing is ever reported about the payment.
Abandon(i) ==
    /\ i \in open
    /\ open' = open \ {i}
    /\ UNCHANGED <<rows, firstSeen, now>>

\* Store.mark_disputed, of any row, whatever became of it.
MarkDisputed(i) ==
    /\ i \in DOMAIN rows
    /\ Cardinality({j \in DOMAIN rows : rows[j].disputed /\ j # i}) < MaxDisputes
    /\ rows' = [rows EXCEPT ![i].disputed = TRUE]
    /\ UNCHANGED <<firstSeen, open, now>>

Tick ==
    /\ now < LastMoment
    /\ now' = now + 1
    /\ UNCHANGED <<rows, firstSeen, open>>

Next ==
    \/ \E req \in Requests : Authorize(req) \/ Advise(req)
    \/ \E i \in Ids : \/ \E success \in BOOLEAN : Settle(i, success) \/ SettleRun(i, success)
                      \/ Abandon(i)
                      \/ MarkDisputed(i)
    \/ Tick

Spec == Init /\ [][Next]_vars

-----------------------------------------------------------------------------
(***************************************************************************)
(* Correctness.                                                            *)
(***************************************************************************)

\* Every variable has its type; an open payment is an approved one that has not settled.
TypeOK ==
    /\ rows \in Seq(Row)
    /\ DOMAIN rows \subseteq Ids
    /\ firstSeen \in [Vendors -> {Never} \cup 0..LastMoment]
    /\ open \subseteq DOMAIN rows
    /\ \A i \in open : rows[i].verdict = "APPROVE" /\ ~rows[i].settled
    /\ \A i \in DOMAIN rows : firstSeen[rows[i].vendor] \in 0..rows[i].at
    /\ now \in 0..LastMoment

\* The rows of the agent and channel of row i.
Alike(i) == {j \in DOMAIN rows : /\ rows[j].agent = rows[i].agent
                                 /\ rows[j].channel = rows[i].channel}

\* The rows among S in the stretch of the given length that ends at row i.
EndingAt(i, length, S) ==
    {j \in S : rows[i].at - length <= rows[j].at /\ rows[j].at <= rows[i].at}

\* By how much the settlement of row i was for more than what had been asked.
Overcharge(i) == Above(Counted(rows, i), rows[i].asked)

\* treasury.evaluate, runtime.record_settlement: the payments of an agent that ends each
\* before it asks for the next stay within every envelope, but for the overcharge of the
\* last of them: up to any payment, what the agent has spent on the channel in its calendar
\* day and month, and in thirty days with its vendor and for its resource, is more than the
\* limit by no more than that one payment's overcharge.  The overcharges before it do not
\* add up, for each is counted against the payments that come after; and neither does the
\* reserve of the balance give more.
EnvelopesHold ==
    \A i \in {j \in DOMAIN rows : Paid(rows, j)} :
        LET cfg == Treasury[rows[i].channel]
            before == {j \in Alike(i) : j <= i}
            sameDay == {j \in before : rows[j].at \div Day = rows[i].at \div Day}
            sameMonth == {j \in before : rows[j].at \div Month = rows[i].at \div Month}
            vendor == {j \in before : rows[j].vendor = rows[i].vendor}
            resource == {j \in before : rows[j].resource = rows[i].resource}
            within(S, limit) == Spent(rows, S) <= limit + Overcharge(i)
        IN  /\ within(sameDay, cfg.daily)
            /\ within(sameMonth, cfg.monthly)
            /\ within(sameMonth, cfg.balance - cfg.reserve)
            /\ within(EndingAt(i, ThirtyDays, vendor), cfg.perVendor)
            /\ within(EndingAt(i, ThirtyDays, resource), cfg.perResource)

\* No stretch of a minute or an hour, wherever it ends, and no day or month holds more
\* approvals of one agent on one channel than its counters allow, whatever became of
\* the payments.
RatesHold ==
    \A i \in {j \in DOMAIN rows : rows[j].verdict = "APPROVE"} :
        LET cfg == Treasury[rows[i].channel]
            approved == {j \in Alike(i) : rows[j].verdict = "APPROVE"}
            within(length) == {j \in approved : rows[j].at \div length = rows[i].at \div length}
        IN  /\ Cardinality(EndingAt(i, Minute, approved)) <= cfg.velocityMinute
            /\ Cardinality(EndingAt(i, Hour, approved)) <= cfg.velocityHour
            /\ \A n \in cfg.perDay : Cardinality(within(Day)) <= n
            /\ \A n \in cfg.perMonth : Cardinality(within(Month)) <= n

\* config.TreasuryConfig.per_tx_limit_for, risk.evaluate: once a payment to a vendor is
\* disputed, nothing more is approved for that vendor, for any agent on either channel,
\* however good its record and however small the amount.
DisputeEndsApproval ==
    [][\A i \in DOMAIN rows' \ DOMAIN rows :
          (\E j \in DOMAIN rows : rows[j].disputed /\ rows[j].vendor = rows'[i].vendor)
             => rows'[i].verdict # "APPROVE"]_vars

\* domain.Channel: the two channels never share a budget.  What is left of every
\* cumulative envelope and counter is what it would be if the other channel, and the
\* other agents, had no rows at all.
ChannelsDoNotShare ==
    \A req \in Requests :
        LET mine == Restrict(rows, {i \in DOMAIN rows : /\ rows[i].agent = req.agent
                                                        /\ rows[i].channel = req.channel})
            all == Snapshot(rows, req, now)
            alone == Snapshot(mine, req, now)
            left(s) == [e \in 2..6 |-> Headroom(Envelopes(Treasury[req.channel], s)[e])]
        IN  /\ left(all) = left(alone)
            /\ Counters(Treasury[req.channel], all) = Counters(Treasury[req.channel], alone)
=============================================================================

----------------------------- MODULE MCControls -----------------------------
(* A small instance of Controls.  A minute is one tick, an hour and a day   *)
(* two, thirty days three and a month four; the rules are those of          *)
(* policies/default.yaml that the instance can reach, with amounts and      *)
(* scores scaled.                                                           *)
EXTENDS Controls

CONSTANTS a, u, v, s, r, q

Config(balance, reserve, perTx, daily, monthly, perVendor, perResource, minute, hour) ==
    [balance |-> balance, reserve |-> reserve, perTx |-> perTx, daily |-> daily,
     monthly |-> monthly, perVendor |-> perVendor, perResource |-> perResource,
     velocityMinute |-> minute, velocityHour |-> hour, perDay |-> {}, perMonth |-> {},
     tiers |-> {}]

Limits ==
    [external |-> [Config(8, 2, 2, 4, 5, 5, 6, 3, 3) EXCEPT
                      !.perDay = {2}, !.tiers = {[settledAtLeast |-> 2, multiplier |-> 150]}],
     internal |-> [Config(4, 1, 3, 3, 5, 5, 4, 2, 3) EXCEPT !.perMonth = {1}]]

\* A payment of 1 to u that went through, and one nothing was heard of; three that
\* went through for the same price.
Seeded(moment, paid) ==
    [agent |-> a, vendor |-> u, resource |-> r, channel |-> "external", amount |-> 1,
     verdict |-> "APPROVE", at |-> moment, settled |-> paid, success |-> paid,
     disputed |-> FALSE, paid |-> NotReported, asked |-> 1]

Past == {<<Seeded(0, TRUE), Seeded(1, FALSE)>>,
         <<Seeded(0, TRUE), Seeded(1, TRUE), Seeded(2, TRUE)>>}

Trusting == [coldStart |-> 25, success |-> 45, volume |-> 30, age |-> 25, dispute |-> 60,
             volumeSaturation |-> 3, ageSaturation |-> 3]

Wary == [amount |-> 25, novelty |-> 20, zscore |-> 20, velocity |-> 15, reprice |-> 10,
         failures |-> 10, amountSaturation |-> 10, zSaturation |-> 1, repriceRatio |-> 300,
         noveltySaturation |-> 3, burst |-> 4, high |-> 600]

Ask(vendor, resource, channel, amount) ==
    [agent |-> a, vendor |-> vendor, resource |-> resource, channel |-> channel, amount |-> amount,
     purpose |-> IF channel = "internal" THEN "inference" ELSE "data_purchase", expected |-> {}]

Errands == {Ask(u, r, "external", 1), Ask(u, r, "external", 3),
            [Ask(v, q, "external", 3) EXCEPT !.expected = {2}],
            Ask(u, r, "internal", 3), Ask(s, q, "external", 1)}

\* Nobody was asked about u, who vouches for nothing; of v nothing could be told.
Declared(state) == [tags |-> {}, jurisdiction |-> {}, jurisdictionState |-> state]
Vetted == [x \in {u, v, s} |->
              IF x = u THEN Declared("undeclared")
              ELSE IF x = v THEN Declared("unknown")
              ELSE [tags |-> {"data"}, jurisdiction |-> {"XX"}, jurisdictionState |-> "declared"]]

Advisor == [cost |-> 1, baseFlip |-> 40, maxFlip |-> 100]

Worth == [x \in {r} |-> 3]

Is(fact, op, want) == [fact |-> fact, op |-> op, want |-> want]

Deny(n, priority, when, then) == [id |-> n, priority |-> priority, when |-> when, then |-> then]

Composed ==
    <<[name |-> "overdrawn", combinator |-> "all",
       clauses |-> {{Is("budgetOk", "eq", FALSE), Is("binding", "in", {"balance", "emergency_reserve"})}}],
      [name |-> "costly", combinator |-> "any",
       clauses |-> {{Is("roiRatio", "lt", 100)}, {Is("overdrawn", "eq", TRUE)}}]>>

Bundle ==
    {Deny(1, 0, {Is("sanctioned", "eq", TRUE)}, "REJECT"),
     Deny(2, 5, {Is("overdrawn", "eq", TRUE)}, "REJECT"),
     Deny(3, 8, {Is("channel", "eq", "internal"), Is("budgetOk", "eq", TRUE)}, "APPROVE"),
     Deny(4, 9, {Is("channel", "eq", "internal"), Is("budgetOk", "eq", FALSE)}, "REJECT"),
     Deny(5, 10, {Is("budgetOk", "eq", FALSE)}, "REVIEW"),
     Deny(6, 20, {Is("riskScore", "gte", 60)}, "ESCALATE"),
     Deny(7, 50, {Is("costly", "eq", TRUE), Is("trustScore", "lt", 40)}, "REVIEW"),
     Deny(8, 100, {Is("amount", "lt", 5)}, "APPROVE")}
=============================================================================

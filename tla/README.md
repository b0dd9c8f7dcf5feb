# A verification development for aegoll (AEGL / `tesoro`)

`tesoro` is a governance layer between a software agent and the money it may
spend.  An agent asks to pay; a fixed pipeline of controls decides APPROVE,
REVIEW, ESCALATE or REJECT; the decision is written to a transaction table and
an append-only journal; an approved payment goes to a rail (an x402 client), and
what the rail did is recorded back.  Everything is deterministic arithmetic over
stored history, except an optional language-model advisor that may only narrow.

The modules here model that program, TLC checks them on small instances, and
TLAPS proves what matters most for every value of the constants.  Paths below
are relative to the repository.

## 1. Inventory

| component | state it keeps | operations | what makes it correct |
| --- | --- | --- | --- |
| decision pipeline (`authorize.py`) | none between decisions; within one, the verdict so far and the list of reasons | `RuleEngine.decide`: policy, then identity, intent, treasury, sanctions, risk, registered engines | no control is overruled; the deciding control is named |
| registered engines (`extend.py`) | an in-process registry, in order | `register_engine`, `assess` | can only narrow; names are unambiguous |
| advisor (`advise.py`, `advisors/`) | none | `consult` | can only narrow; its failure changes nothing |
| attribution (`domain.py`, `record.py`) | none: a projection of the reasons | `_deciding_engine`, `Decision.reason` | names the control that set the verdict |
| kill switch (`freeze.py`) | one JSON file | `freeze`, `clear`, `read` | an unreadable file is a freeze; a freeze stops payments |
| runtime (`runtime.py`) | owns the stores below | `decide`, `authorize`, `advise`, `record_settlement`, `replay`, `summary` | one request, one row, one decision, one receipt |
| transaction store (`store.py`) | SQLite: transactions, vendors | `record`, `mark_settled`, `already_settled`, `reconcile`, `snapshot`, `vendor_stats` | sums count what moved, counts count what was asked; where a request stands is where its money is |
| journal (`engines/evidence/audit.py`, `anchor.py`) | one append-only file, hash-chained | `append`, `attach_settlement`, `verify`, anchors | the chain verifies; it agrees with the table |
| review queue (`engines/evidence/escalation.py`) | one JSON file, rewritten whole | `enqueue`, `resolve`, `clear_resolved` | nothing that needs a human is lost |
| identity and intent (`engines/evidence/identity.py`, `engines/economic/intent.py`) | a JSON file each | `register`, `set_status`; `declare`, `revoke`, `active_for`, `latest_for`; `evaluate` | revocation is terminal; authority does not widen along delegation or outlive its intent |
| treasury, policy, ROI (`engines/economic/`) | none | pure `evaluate` | envelopes admit exactly their headroom; first matching rule wins |
| risk, trust, EIAP (`engines/risk/`, `engines/evidence/eiap.py`) | none | pure scores in floating point | ranges; monotonicity |
| payment adapter (`adapters/x402_python.py`) | none of its own | `GovernedBuyer.get_paid` | never pays without an APPROVE that is on record |
| governor facade (`governor.py`) | the requests it authorised | `authorize`, `decide`, `settle`, `freeze` | settles only what it authorised |
| inference gate and plugin (`inference.py`, `plugin.py`) | open run, budget, trip, pre-check ids, events | `precheck_run`, `authorize_run`, `check_spend`, `settle_run`, `record_override`, the event recorder | a run stops once at its ceiling; an override names the decision it bypassed |
| framework adapters (`adapters/base.py` and four hooks) | one `RunGuard` per run | `start`, `should_stop`, `finish` | the tighter of two ceilings wins; only an approved run settles |
| records (`record.py`, `profiles.py`, `states.py`, `validate.py`) | none | `records_from_journal`, schema checks | settlements are folded onto their decision |
| configuration, CLI, reports, HTML | none governed | parsing and presentation | not modelled |

**How they interact.**  `GovernedBuyer.get_paid` awaits a quote, calls
`Tesoro.authorize` (or `advise` when an advisor is configured), awaits the rail,
then calls `Tesoro.record_settlement`.  `authorize` takes one snapshot of the
store, runs the pipeline, reads the freeze file, checks for a replayed id, writes
the row, appends to the journal and, for REVIEW and ESCALATE, rewrites the review
queue.  `record_settlement` updates the row and appends a second journal entry.
The stores share nothing but request ids: there is no transaction across them
and no lock around any of them.

**What is hard.**  Several payments are in flight at once (coroutines of one event
loop at the awaits, processes anywhere); the snapshot is stale by the time the
row is written; a process can die between any two durable writes; the rail can
raise after the money has moved; the freeze file is rewritten while it is read;
an id may be used again; the order of the reasons carries meaning.  The hazards
of `PROJECT.json` list each of these at its line.

## 2. Modules

| module | models |
| --- | --- |
| `Verdicts` | the verdict lattice, `narrower`, the attribution projection, `Decision.reason`: operators without state |
| `RuleEngine` | one decision, control by control, through one of its three entry points |
| `MCRuleEngine` | `RuleEngine` with lists of one and two registered engines |
| `RuleEngineProofs` | theorems about `RuleEngine`: types, and that no control is overruled |
| `AttributionProofs` | theorems about attribution, on the order of the reasons |
| `Sums` | lemmas about the sum of a function over a finite set, for the proofs that bound money |
| `Ledger` | the life of a payment: callers, store, freeze file, journal entries, review queue, rail, crashes |
| `MCLedger` | `Ledger` with two callers, in two processes or on one event loop, and a human who reviews |
| `Reconciliation` | the abstract promise of `tesoro reconcile`, which `Ledger` implements |
| `LedgerProofs` | theorems about `Ledger`, the implementation of `Reconciliation` among them |
| `Journal` | the hash-chained journal: appenders, crashes, outside changes, `verify`, anchors, records |
| `MCJournal` | `Journal` with two processes |
| `JournalProofs` | theorems about `Journal`: what verifies was written, and what an alarm means |
| `AgentRun` | token spend: a cockpit's runs and guarded agents on the internal channel |
| `MCAgentRun` | `AgentRun` with one cockpit, a LangGraph and a Claude agent |
| `AgentRunProofs` | theorems about `AgentRun` |
| `Authority` | identities, intents and the review queue as files rewritten whole, and the decisions that read them |
| `MCAuthority` | `Authority` with one operator and two deciders acting for a delegate |
| `AuthorityProofs` | theorems about `Authority` |
| `Controls` | what the engines compute from the table over a sequence of payments, and the policy bundle |
| `MCControls` | `Controls` with a scaled `policies/default.yaml` |
| `ControlsProofs` | theorems about `Controls`, for any policy bundle |

**RuleEngine.**  `stage` is the place in `RuleEngine.decide`, then in
`Tesoro._apply_freeze`, then in the entry point.  Each action is one control:
`EvaluateEngines` (treasury, risk and policy, on one snapshot), `ClampIdentity`,
`ClampIntent`, `ClampTreasury`, `ClampSanctions`, `ClampRisk`, `ConsultExtension`
for every registered engine, `ApplyFreeze`, and finally `Decide` (a dry run),
`RefuseReplay` (`authorize` on a settled id) or `ConsultAdvisor` (`advise`).  A
control's finding is chosen freely; what follows from it is the code's: the
narrowing, the reason written, and under which source.  A reason is its source,
code and verdict; its text is left out.  `opinions` is a history of what each
control said, applied or not; the properties compare the outcome with it.  The
assessments of a registered engine are taken to carry that engine's name, as the
protocol of `extend.py` asks.

**Ledger.**  A task is a coroutine or thread that pays; `pc` is its place between
two durable reads or writes, which are the only points where another process, or
a crash, can be observed.  Within one process a task runs from one await to the
next (`InTurn`): the awaits are before the request is built and around the rail.
`Snapshot` reads the aggregates, `Decide` dates the decision, `ReadFreeze`,
`CheckReplay` or `Consult`, `RecordRow`, `AppendDecision` (which also hands an
APPROVE to the rail or raises a refusal), `Rewriting` and `Enqueue`, `RailAnswers` or
`RailRaises`, `MarkSettled`, `AppendSettlement`.  Around them: `Crash` of a process, the
kill switch (`BeginFreeze`, `BeginClear`, `FinishWrite`: truncated, then written),
`Resolve` by a human, and `NextDay`.  The review queue is one file without a lock:
`enqueue` and `resolve` are each a load (`LoadQueue`), a truncation (`TruncateQueue`) and
a write of the copy that was loaded (`WriteQueue`), and `rewriting` is the copy each of
their callers carries; a process may die in between (`StopRewriting`), and what it had
truncated stays empty.  `moved` is what the rail really moved, `lost` the requests whose
task was interrupted, `escaped` the payments handed over since a freeze began, and
`clashed` the requests whose queue entry was at stake when two processes were rewriting
the queue at once, or when one died with the file truncated.

Abstractions of `Ledger`: one agent, one vendor, one channel; the decision is the
policy's verdict narrowed by one money envelope and one count envelope, the
freeze, and the replay check or the advisor (`RuleEngine` has the rest); the
journal is two sets of entries without its hash chain and refuses none; a write of the
queue file is all or nothing once the file is truncated.  The journal has a module of its
own below, and `clear_resolved` and the tearing of files are in `Authority`.

**Journal.**  `file` is the lines of the journal; a line that `json.loads` refuses is
`Garbage`, and `open` says that the last line lacks its newline, so that the next one
is glued to it.  An append is two steps, because `AuditLog.append` reads the head and
then writes with nothing between to stop another process: `Decide`, `Settle` and
`Override` compute the line a writer then holds (`held`), `WriteLine` writes it,
`CrashBefore` and `CrashWithin` are a process that dies before, inside or at the very
end of its line.  `Publish` sends the length and the head to an anchor; `EditLine`,
`DropLine`, `DropTail` and `SwapLines` change the file from outside.  `Verifies` is
`verify()`, `AnchorOutcome` is `verify_against_anchor` for each thing a sink may
answer, `RecordsFromJournal` is the fold of settlements and overrides onto
decisions.  The digest is collision free: it is the term it digests.

**AgentRun.**  A host is a cockpit (a plugin `Governor` over an `InferenceGate`) or a
guard (the `RunGuard` behind a framework's hook).  `phase` is its place: idle, running
(about to take a step that costs), stepped (about to check), told (to stop), raised (an
exception has left the loop), and the commits of a settlement, correcting and journalling.
A cockpit's operations are `PrecheckRun`, `RecordOverride` (with the payload of any
pre-check it was ever answered with, `shown`), `AuthorizeRun`, `CheckSpend`, `SettleRun`
and `CorrectAmount`; a guard's are `StartGuard`, `ShouldStop` and `Finish` (which may be
told no amount), with `FrameworkStops` for the ceilings a framework keeps itself;
`StepOfAgent`, `JournalSettlement` and `Crash` are common to both.  The journal may refuse
an entry, since a torn line makes every append raise: of a decision (`AuthorizeRefused`,
`StartRefused`), a stop (`StopRefused`) and a settlement (`ReceiptRefused`).  `gone`,
`stale` and `unrecorded` are histories of what that, a crash or a second `authorize_run`
left behind.  What a run may spend and what it
did spend are counted by the same table, so that one run's cost narrows the next.
Where the hook sits differs between frameworks (`AsksFirst`), and so do what it does to
stop (`StopOf`: those of LangGraph and CrewAI raise) and the ceiling of its own it has
(`AtOwnCeiling`).  A decision is one step here; the interleavings
within one are `Ledger`'s.

**Authority.**  `files` is what the three JSON files parse to, and `torn` says which of
them does not parse at the moment, which the code reads as empty.  Every operation on
a file is `Begin` (load, and change the copy: `Register`, `SetStatus`, `Declare`,
`Revoke`, `Resolve`, `ClearResolved`, `Enqueue`), `Truncate` and `Write`, in which two
overlapping writers may also leave a file that is neither's.  A decision (`job`, at
`pc`) reads the intents once or twice (`FindIntent`, `FindLapsed`), weighs what was
spent under the one it found (`WeighIntent`), reads the agent and then its parent
(`FindIdentity`, `FindParent`), on the `advise` path looks the intent up once more for
the row (`LookAgain`, `LookForLapsedAgain`), records, queues or settles, for what was
asked, for less or for more (`Reported`).  `lost` is the entries that a copy replaced
without having seen them, `answered` and `gone` the requests that a human resolved and
that a crash dropped, and `overlap` the most that was in flight under an intent when a
payment was let through.

**Controls.**  `Snapshot` is `Store.snapshot` with all its windows, the baseline and its
cap, and `VendorStats`; `Budget` is the treasury, `TrustScore` and `Risk` the weighted
sums, `Facts`, `Derive` and `PolicyVerdict` the policy, `WouldInvoke` EIAP's break-even,
and `Decided` the pipeline over them.  `Authorize`, `Advise`, `Settle`, `SettleRun`,
`Abandon`, `MarkDisputed` and `Tick` are the table's life, one payment of an agent at a
time.  A settlement reports any amount of `Reported`, above what was authorised too, and
`SettleRun` overwrites the amount of the row; `asked` keeps, for the properties, the amount
that was decided about.  The risk score is summed and floored in thousandths, rounded to
hundredths (`Rounded`, the code's four digits) and compared with a threshold in
thousandths, which may therefore be finer than the scores; other scores are in hundredths
rounded down where the code has floating point, and no property is about an exact one.
The z-score is compared by its square, and only its term takes a root.  The median, the
repricing and the z-score are carried because the verdict of the run depends on them and
because a theorem says that the score is a number; no property tells their values apart.
`ValidPack`, what `validate_pack` requires of a bundle, is an assumption on the constants.

The policy verdict, identity and intent of `RuleEngine`, the single envelope of
`Ledger` and the decision of `AgentRun` are free choices or small instances of what
`Controls` and `Authority` compute in full: each module keeps in detail only what its
own properties turn on.

## 3. Runs

| run | shows | instance |
| --- | --- | --- |
| `RuleEngine` | `TypeOK`, `NoControlOverruled`, `DispositiveAttribution`, `NarrowingIsAttributed` | two registered engines; every finding of every control; 640,897 states |
| `Ledger` | `TypeOK`, `SpendBounded`, `MovedIsAccountedFor`, `ReceiptsMatchRows`, `NothingForgotten`, and that `Ledger` implements `Reconciliation` | two processes, three ids, two days, overcharging rail, a reviewer, crashes; 1.8 million states |
| `LedgerOneLoop` | `ActionsBounded`, `FreezeStops`, `NothingForgotten`, `EveryRequestIsClosed` | two callers on one event loop, kill switch in use, two actions a day, three ids; 781,434 states |
| `Journal` | `TypeOK`, `VerifiedWasWritten`, `AlarmIffForked`, `AnchorIsHonest`, `ConsistentMeansUnchanged`, `RecordsTellTheLastSettlement`, `AppendOnly` | two processes, one id, three lines, one outside change; 1.5 million states |
| `AgentRun` | `TypeOK`, `OneDecisionPerId`, `CeilingHolds`, `StopIsJournalledOnce`, `SpendIsTheCost`, `NoRunForgotten`, `OverrideNamesADecision`, `EveryRunEnds` | one cockpit with two models, two guarded agents, two ids; 873,524 states |
| `Authority` | `TypeOK`, `StopReachesDecision`, `LapsedIsNotUngoverned`, `SpentWithinIntent`, `QueueLosesOnlyToOverlap`, `DepthIsHonest`, `RevocationIsTerminal` | one operator with one operation, two deciders with a request each, a parent and a delegate, two intents, settlements below and above the quote, one step of the clock; 2.75 million states |
| `Controls` | `TypeOK`, `EnvelopesHold`, `RatesHold`, `DisputeEndsApproval` | one agent, three vendors, two channels, five rows, two earlier histories, settlements of nothing, less and more, one dispute; 599,729 states |
| `RuleEngineSeverity`, `RuleEngineReason`, `RuleEngineExtension`, `LedgerReplay`, `LedgerExposure` | a statement of the documentation that the code does not meet | small; see section 6 |

**Why the bounds are enough.**  A decision has at most one finding per control, so
`RuleEngine` is exhaustive but for the number of registered engines; two are
enough for one to speak after another, and the theorems hold for any list.  In
`Ledger`, the overshoot of an envelope, a torn settlement and a forgotten request
each need two callers and one more request than callers, hence three ids; two
amounts and a drift as large as the limit make an envelope exactly full,
overshot and far overshot; two days make the midnight between snapshot and
decision.  Two processes and a reviewer are three writers of the queue file, enough for
one to truncate it while another loads it and a third to write an old copy back.
`LedgerOneLoop` has no reviewer (`Answering` is false): the question there is what the
callers of one loop do to each other, and `NothingForgotten` then leaves no room for a
clash but a crash in the middle of a rewrite.  The daily limit and the count are small so
that they bind.  Ids are
interchangeable, no property or action names one, and the run that uses the
symmetry checks safety only.

**SpendBounded** is the honest form of the daily limit: spend of a day stays within
the limit plus one batch, the callers whose snapshots were taken together, at the
largest quote, plus what the rail overcharged.  **ActionsBounded** is the same for
`actions_per_day`, which is the only bound for a caller that never settles; it is
tighter, because a row is counted as soon as it is written and there is no await
between a snapshot and its row: the limit is exact on one event loop and each
further process may add one.  **FreezeStops** has the same shape: the freeze is read
and the payment handed over without an await, so each process hands over at most
one payment more.  (The spend bound is per caller and not per process, because
settlement lies behind the await of the rail.)
**MovedIsAccountedFor** and the refinement of `Reconciliation` say that where the
table says a request stands is where its money is, under every crash and every
exception of the rail: money that moved is never reported as failed.

In `Journal`, a fork needs two processes that read the same head and three lines show
what follows it; one outside change after a publication is enough to edit, drop or
swap a line, and is independent of the writers, whose ids and whose
names no property tells apart.  To edit, publish and edit back takes two changes: with
`MaxTouches = 2` the run has 7.2 million states and shows the same, and the theorems hold
for any number.  In `AgentRun`, one shared day's envelope of three
units lets a first run's cost refuse a second, a budget above the per-transaction
limit is refused outright, a step that costs two overshoots a ceiling by one, and a
third host is the one that finds the ids used up; two models are what makes a
pre-check of one outlive a run of the other.  In `Authority`, one operation of an
operator in the middle of two decisions is the interleaving of interest (`MaxWrites`
counts the operator's loads; the identities start with a revoked one, so that an
undone revocation needs no second); operator and deciders meet in the review queue.  One
step of the clock is an intent that expires between two look-ups.  An intent of three and
two deciders that ask for two each is the overshoot of a budget weighed before the other
payment had settled, and a settlement of three for two is one above its quote; both
deciders are of one agent and interchangeable, as the two requests are.  In `Controls` the clock starts after a seeded history, so that five
rows reach every window: a minute is one tick, an hour and a day two, thirty days
three and a month four, over three moments of the clock.  A settlement of four for one or
three overruns each envelope, and one dispute is enough for `DisputeEndsApproval`.  The limits are small enough
for each envelope and counter to refuse something, and a history of three equal
amounts gives the flat baseline.

**NothingForgotten** names the ways a request can be lost: an interruption of its task, or
a clash over the queue file.  In `LedgerOneLoop`, where all callers are on one loop and
`enqueue` has no await, they never clash.  **SpentWithinIntent** is the honest form of an
intent's maximum: it may be exceeded by what others had in flight when a payment was let
through (measured at that moment, in `overlap`), by what settlements came to above their
quotes, since `spent_under_intent` counts what was settled, and by what `advise` charged
elsewhere.  **EnvelopesHold** has the one term of these a sequential agent can cause, the
overcharge of its last payment; those before it are counted against what comes after.

**CeilingHolds** says how far a run can overshoot: never by more than one step, and
never past a ceiling the caller set in its framework.  **StopIsJournalledOnce** and
**NoRunForgotten** tie the gate's memory to the journal and to the table across crashes
and refused journal writes.  **SpendIsTheCost** is what makes budgets cumulative: the
three commits of `settle_run` first settle the budget, then correct it to the cost, and
only between those two (or after a crash there) does the table count something else.
**VerifiedWasWritten** and **AlarmIffForked** say what `verify` is evidence of, in both
directions: a clean result means that every line is one that was written, unedited;
an alarm on a journal nobody touched means that two processes appended at once.
**ConsistentMeansUnchanged** adds what the chain alone cannot see, a rewritten or
shortened history.  `attested` is what the entries said when their head was published,
and nothing if the journal did not verify then: a head published over an edited
journal is the head of what had been written, and vouches for nothing the file said.  **StopReachesDecision** and **RevocationIsTerminal** are the two
halves of stopping an agent: a stop that is in force throughout a decision prevents
an approval although agent and parent are read at different moments, and nothing but
a registration, or a copy loaded before it, undoes a revocation.
**QueueLosesOnlyToOverlap** names every way in which a request that needs a human can
leave the queue.  **EnvelopesHold** and **RatesHold** look at every window of the
history and not at the one the engine looked at: a limit checked against the window
that ends now is kept in all of them.

The passing `Ledger` runs assume that a request id is not used twice
(`build_request` makes a fresh one unless the caller brings its own, `ReuseIds`);
`LedgerReplay` drops that.  `MovedIsAccountedFor` is checked for callers that
report what moved: `GovernedBuyer` reports its quote, so with an overcharging rail
it does not hold for it (a hazard of `PROJECT.json`).

**Fairness.**  `FairSpec` is weakly fair to `Work(t)`, a task that has begun: the
event loop runs a ready coroutine, every step of `authorize` terminates, and the
rail's client answers or times out.  Nothing is assumed of `Snapshot` (nobody has
to ask for a payment), of the operator, of a human resolving reviews, or of the
clock; crashes may happen for ever.

`AgentRun`'s `FairSpec` is weakly fair to `Loop(h)`, a step of the agent, the check after
it, and a commit that has been begun; and weakly fair to the report of a run
that was told to stop and returned to its caller.  A stop that raises (LangGraph and
CrewAI) passes the `after_run` of the documented pattern, and so does an entry the journal
refuses: nothing is assumed of what happens next, and `EveryRunEnds` says of such a run
that it ended by an exception.  A framework that
counts steps (`HasStepLimit`) takes no more than that many; elsewhere a step costs
something.  Nothing is assumed of anybody who starts a run, and crashes may happen for
ever.  `Journal`, `Authority` and `Controls` have safety properties only.

## 4. Proofs

`tlapm` checks every step; nothing is assumed but the named assumptions on the
constants (`ExtensionsAssumption`, `LedgerAssumption`, `JournalAssumption`,
`AgentRunAssumption`, `AuthorityAssumption`, `ControlsAssumption`), which TLC evaluates in the runs, and the hypotheses a theorem
states.

**`RuleEngineProofs`**, for any list of registered engines.

- `RuleEngineTypeOK`.
- `RuleEngineNoControlOverruled`: the outcome is at least as strict as every opinion
  but risk's, approves no high risk score, and was asked for by some control.  The
  property speaks only of a finished decision, so it is not inductive.  The
  invariant that is, `Standing`, says of every stage that the verdict so far covers
  the opinions heard so far, that somebody voiced it, and that the risk score has
  had its say once `ClampRisk` is past.  Each clamp preserves it by the lemmas
  on `Narrower`.  That the last clamp of a list exists (`LastOfIsLast`) comes
  from the well-foundedness of the naturals.

**`AttributionProofs`**, for any list of registered engines.

- `RuleEngineDispositiveAttribution`: attribution follows the last clamp of the list
  of reasons, so the invariant, `Barred`, is about where clamps stand in it.  Once
  sanctions has spoken the verdict is REJECT and its clamp is the last; once only
  the kill switch has, the freeze is.  A later control cannot displace them, because
  a clamp is recorded only when it narrows and nothing narrows a REJECT
  (`ClampedMute`).  The freeze itself comes after the sanctions clamp in time and
  must stand before it in the list: `FreezeBehindSanction` and `FreezeLast` compute
  what `WithFreeze` puts where.  A refused replay is recorded last of all and ends
  the argument, as the property says.
- `RuleEngineNarrowingIsAttributed`: the invariant, `Traced`, says that the verdict is still
  the policy's, or that the last clamp of the list stands for a control that asked for
  exactly this verdict, as long as no registered engine narrowed it.

**`LedgerProofs`**, for any number of callers, processes, ids, amounts and days.

- `LedgerTypeOK`, whether ids are reused or not.
- `LedgerMovedIsAccountedFor`, `LedgerReceiptsMatchRows`, `LedgerNothingForgotten`:
  the invariants of the run `Ledger`, for callers that bring no id twice; the first
  also for callers that report what moved.  The third rests on an invariant of the queue
  file, `FileInv`: of two that rewrite it at once everything at stake is in `clashed`, and
  a copy that is carried has every other entry of the file, so that an entry is in the
  file, in a copy about to be written, or in `clashed` (`Held`).  That the callers of one
  process do not rewrite it together is `Turns`, below.
- `LedgerImplementsReconciliation`: every step of `Ledger` is a step of
  `Reconciliation` or a stutter, for callers that bring no id twice and ask for
  more than nothing (a settled payment of zero moves no money, so the promise
  has no step for it).
- `LedgerActionsBounded` and `LedgerFreezeStops`, whether ids are reused or not.
- `LedgerSpendBounded`, for callers that bring no id twice, report what moved and ask
  for more than nothing.  The last is needed: TLC finds the bound exceeded when zero is
  a quote, because a payment of zero passes however far the day is over its limit, and
  the rail may still overcharge it.

None of the three invariants is inductive alone: whether `MarkSettled` is right
depends on what the rail did two steps earlier.  `Standing` (of `LedgerProofs`) says
for each place of a task what is on record of the request it carries: nothing
while it is being asked, an open row with the task's verdict until it is settled, a
journalled APPROVE from the moment it is at the rail, and as much money moved
as the task was charged once the rail has answered.  `Apart` (two tasks never carry
one request) is what makes a step of one task harmless to the others (`OwnStep`,
`TaskStands`), and it is the part that needs ids not to be reused.  `Untouched` (an id
without a row has moved no money) is what a fresh id brings with it.  Given that, the
three properties and the refinement are each argued request by request.

The three bounds are counts and sums over a table, and so are their invariants.
`Turns` says that in one process only one task is between two awaits, which is what lets a
bound count processes instead of callers.  `FreezeInv`: the payments handed over since
the freeze, with the processes that have read a clear file and not yet handed over
(`Escaping`), are no more than there are processes.  `ActionsInv`: the rows approved on a
day, with the processes that have counted them and may add one (`Approving`), stay within
the bound.  `SpendInv`: what is spent on a day, with the most that every caller in flight
may take (`Flying`), stays within the bound, or would but for the one that took the last
snapshot, of which only its own amount is known to fit.  A snapshot puts its caller into
the sum, and settling moves its money from one side to the other.

**`Sums`**: the sum of a function over a finite set, as the community modules define it,
splits, grows by an element, and is bounded as one expects.  It is a recursive
function on the subsets of the set, so each lemma is argued from a smallest subset of
which it fails (`SmallestSet`), in place of the induction the prover cannot do.

**`JournalProofs`**, for any writers, ids and bounds.

- `JournalTypeOK` and `JournalAppendOnly`: whatever the writers do and wherever they
  crash, a line with its newline stays where it is.
- `JournalVerifiedWasWritten`, under any changes from outside.  The invariant,
  `Genuine`, says that each line of the file is torn or stems from an entry some
  writer put there, of which only the payload may differ: a touch moves, removes
  or edits lines, and never makes a new hash.  A digest determines what it digests,
  so a line whose hash verifies has its payload too.
- `JournalAlarmIffForked` and `JournalRecordsTellTheLastSettlement`, for a journal left
  alone.  The invariant, `Chained`, roots each line and each line still held in an
  earlier line of the file (the one its writer read as the head), and says that what
  was last told under an id is what the last line about it says.  Two lines rooted in
  one line are a fork.  Conversely a journal that fails to verify has a first line
  that does not follow the line before it; its root is further back, and the line
  after the root, which verifies, has the same root.
- `JournalAnchorIsHonest`, for a journal left alone.  The invariant, `Anchored`, says that
  what is committed to is the hash of the line it is about, or of one since torn by a crash;
  that the head computed again from the payloads is the hash stored in the line is argued
  from a least line where it is not.
- `JournalConsistentMeansUnchanged`, under any changes from outside.  The invariant,
  `Vouched`, says that the commitment is a digest of what was attested, entry by entry; two
  chains with one head agree in every entry, argued downwards from the head.
  The first attempt at this proof failed for a good reason: with `attested` taken from the
  file whether it verified or not, an edit before the publication and its undoing afterwards
  made a consistent anchor vouch for what had never been in the journal.  The property says
  now what the code can promise, and two changes (`MaxTouches = 2`) are enough
  for TLC to tell the two apart.

**`AgentRunProofs`**, for any cockpits, guards, models, ids, budgets and limits.

- `AgentRunTypeOK`, `AgentRunOneDecisionPerId`, `AgentRunStopIsJournalledOnce`: the
  invariant, `IInv`, says of every host, by its place, what is on record of the run it
  carries (`OnRecord`): a row that is open until it settles, the budget and then the
  cost in it, a stop in the journal once it has been told.
- `AgentRunNoRunForgotten`, `AgentRunSpendIsTheCost`, `AgentRunOverrideNamesADecision`
  and, if the costs have a greatest element (`LargestCost`), `AgentRunCeilingHolds`,
  argued from the invariant.  For the override, the invariant says of every id that was ever
  shown that it waits in a pre-check, has been decided, or is `stale`.

`IInv` has three parts besides.  `Apart`, no two hosts carry one run, is what makes a
step of one host harmless to another's run, whatever the shared table says.
`Standing`, an id without a row has left no trace and one with a row was decided
once, is what a fresh id brings with it.  `Previews`, a pre-check waits under an id that
is undecided and no other host's, is what an override may rely on.  The steps are of
three kinds, those that open a run, work on it and close it, and each part is argued
once per kind (`OpeningKeeps`, `WorkingKeeps`, `ClosingKeeps`).

**`AuthorityProofs`**, for any operators, deciders, agents and requests, and any finite
number of intents.

- `AuthorityTypeOK` and `AuthorityRevocationIsTerminal`.  A file is only ever replaced by
  the copy somebody holds, so the invariant, `FilesInv`, is about the copies: each is
  whole and `Sound`, which says that against the file its holder had loaded it revives no
  revoked identity but by a registration, lets no intent change its agent, drops no
  request that waits, and holds no intent that was not declared.  What a copy does to
  entries its holder had not seen is what `lost` records.
- `AuthorityStopReachesDecision`.  `Heeds` follows a decider from its request to the
  verdict.  Whoever has been stopped all that time is stopped in the file as it is
  (so each look-up sees it or meets the file torn); between the two look-ups, only the
  parent can be left to find, or the agent was seen not to be active; and an approval
  leaves nobody, or a torn file was met.
- `AuthorityQueueLosesOnlyToOverlap`.  `Queues` says of a decider whose row needs a human
  that it has yet to enqueue it, holds a copy of the queue with it in, or may leave it
  since it is `Held`: queued, answered, given up by a crash, or overwritten.
  `Held` is never undone, because a copy drops only what it knew to be answered.
- `AuthorityLapsedIsNotUngoverned`.  `Governs` says that what an agent declared stays on
  record unless overwritten, and that a decider past `intent_for` which still has no
  intent met a torn file.  That the latest of several intents exists (`NewestIs`) needs
  finitely many intent ids, so that assumption is stated, and the well-foundedness of the
  naturals.
- `AuthoritySpentWithinIntent`, for finitely many requests and deciders.  `FundsInv` has two parts.  `WithinMandate`: what was settled under an intent it
  was decided under, with what every decider that was approved under it may still settle
  (`AtStake`), stays within what was declared, the most that was at stake besides
  (`overlap`) and what settlements came to above their quotes.  `Backed`: a decider knows
  what was declared for the intent it found, and its row asks for what it asks.  An approval
  adds an amount which, with what is settled, fits; what else is at stake belongs to other
  deciders.  A settlement moves the quote from what is at stake to what is settled, and what
  it adds to it is its overcharge.
- `AuthorityDepthIsHonest`, for finitely many agents.  Given that the file is whole this is
  about `DelegationDepth` alone: a chain that ends is without a repetition and meets all
  that is above its start (`EndCounts`), and one that has not ended after as many links as
  there are agents has met itself and never ends (`EndFound`, by the pigeonhole principle).

**`ControlsProofs`**, for any policy bundle that is valid, any requests, lengths of the
windows and bound on the clock, and any number of agents and vendors.  The verdict enters
in one place: whatever rule matched and whatever an advisor said, an approval was within
the budget and not of high risk (`DecidedIs`).

- `ControlsTypeOK`.  With the type goes that no row and no first sight of a vendor is later
  than the clock (`IInv`).
- `ControlsRatesHold`.  A row that is approved counts in the stretches and periods that end
  with it, and what they hold besides are rows the engine counted (`RecordRates`); it is
  in no stretch that ends before it, and in a period of an earlier row only if that period
  is still the present one.
- `ControlsEnvelopesHold`.  The engine checks an amount when it is approved, and the property
  speaks of it when it is paid.  `SpendInv` is what holds between: an open payment is its
  agent's last, and the only one open, and there is room for it in every window that ends
  with it (`OpenHaveRoom`).  When it settles, each window it falls into is one that
  ends with it (`FallsLater`, `SettleKeeps`), and it fills the room it had by no more than
  what it was asked for and its overcharge.
- `ControlsChannelsDoNotShare`, of the aggregates: sums over the same rows of two tables are
  the same.  This one is proved only; no run checks it.
- `ControlsDisputeEndsApproval`, for a high-risk threshold of at most 1.0 that the rounding of
  the score does not carry below itself (`ThresholdIsKept`): the code checks neither.  A floor only helps if there is a number to floor, so most of
  the proof is that the risk score is one: that the median the repricing divides by is a
  price that was paid (`RankedIs`), that the spread the z-score divides by is not negative
  (`SpreadIs`, the inequality of Cauchy and Schwarz), and that its root exists (`RootIs`).

`ControlsRatesHold` and `ControlsEnvelopesHold` ask of the seeded rows what they promise of
all: `Store.seed` loads a history without asking the engines.

What stays with TLC: liveness (`EveryRequestIsClosed`, `EveryRunEnds`), which the
prover cannot treat, and the violation runs, which are single counterexamples.  Every
other property of a passing run is a theorem.

## 5. Plan

What is done: decisions and their attribution, the life of a payment and its
reconciliation, the journal with its anchors and records, token spend, the files
authority is kept in, and the engines over the table.  What is left, in order:

1. The window of `reconcile` (`window_hours`) and the concurrent reuse of an id
   that has not settled.
2. `replay()`, as the comparison of a journalled policy hash with the present one, and
   `summary()`.
3. The event recorder of the plugin, as the pairing of decisions with receipts.

**Not modelled**, and why:

- *Parallel branches of one LangGraph run*: a guard takes one step at a time, and the
  overshoot of `CeilingHolds` is that of one step.
- *How a file was torn*: `sawTorn` is set by either file a decision reads, so
  `StopReachesDecision` also exempts a decision that met a torn intents file.

- *Advisor clients* (`advisors/`): prompts, HTTP and parsing of one vendor's answers;
  `consult` treats whatever comes back, an exception included, and that is modelled.
- *Configuration and settings*: YAML and TOML parsing, environment variables, paths.
  What a bundle must satisfy is `ValidPack`.
- *Command line and reports*: presentation.  The commands that write a store call the
  operations modelled in `Authority`.
- *The plugin's display and event list*: no decision reads them.
- *Record schema, profiles and the state vocabulary* (`validate.py` but for
  `validate_pack`, `profiles.py`, `states.py`): checks on the shape of plain data.
- *Listing and migration of the store*: reads for display, and a one-time column
  addition.
- *Red team, tools and docs*: they exercise the program and are not part of it.

## 6. Where the code and its documentation disagree

Each of these is a run that TLC ends with a counterexample, and a finding of
`PROJECT.json` with the lines quoted.

- `RuleEngineSeverity`: the verdict is not always the most severe opinion, because
  a high risk score narrows only an APPROVE.
- `RuleEngineReason`: `Decision.reason` of a freeze, sanctions or risk refusal shows
  an unrelated reason, possibly one that approves.
- `RuleEngineExtension`: a verdict set by a registered engine is not attributed to
  it.
- `LedgerReplay`: a refused replay replaces the settled row it was refused for.
- `LedgerExposure`: refused and queued requests are reported as "authorised, never
  reported back".

Met while modelling and not kept as runs, because no statement of a single property
refutes them or because they follow from the ones above:

- `identity.py`: "Delegation may only narrow"; `Governor.register`: limits are "clamped
  to its parent's rather than compared".  `_widens` compares, and only where both
  declare a limit: a delegate without a daily limit or without networks is held to
  neither of its parent's (the per-action limit is clamped).
- `identity.py`: revocation is called terminal; `register` replaces a revoked
  identity without looking, and a copy loaded before a revocation undoes it
  (`RevocationIsTerminal` states both exceptions).
- `identity.py`, `intent.py`: a file that does not parse reads as empty, as it does
  while it is being written: a registered agent is then unregistered, which approves
  (`sawTorn` in `Authority`).
- `escalation.py`: "nothing is silently dropped", "atomic rewrite"; of two overlapping
  operations on the queue one is lost, and a process that dies in one may empty it
  (`QueueLosesOnlyToOverlap`, `NothingForgotten`).
- `runtime.py`: on the `advise` path the row is charged to an intent that is looked up
  again after the decision, which need not be the one it was decided under
  (`SpentWithinIntent`).  Revoking the newest intent of an agent makes an older one
  that is still live govern again.
- `runtime.py`: `replay` says that it compares the decision hash; it compares the
  policy hash.
- `audit.py`: `verify` reports an altered or removed record for a race of two
  appenders (`AlarmIffForked`), and raises instead of reporting on a torn line.
- `record.py`: a settlement is folded onto every decision of its id, so onto a refused
  replay too.
- `inference.py`: "the authorization reserved the budget"; nothing is reserved, and two
  open runs may together exceed the day's envelope by the second's budget.
- `inference.py`, `adapters/base.py`: `check_spend` stops at the budget, `RunGuard` above
  it; `RunGuard.should_stop` asks for the envelope with the run's own row already
  counted, so the last action of a day stops at its first check.
- `adapters/langgraph.py`, `adapters/crewai.py`: the stop is an exception, which passes the
  `after_run` that the docstrings call after the run: a run that governance stopped is
  then settled only by a caller that catches it (`EveryRunEnds`).
- `audit.py`, `inference.py`: with a torn last line every append raises, so that a decision
  leaves a row without its entry and a settlement a settled row without its receipt and a
  run that is still open.
- `adapters/base.py`: `finish` keeps the authorization, so that a second `finish` of one
  guard settles its run again; a guard is used for one run here.
- `risk.py`, `config.py`: the high-risk threshold is not validated, and the score is
  rounded between the dispute floor and the comparison: above 1.0, or with more than four
  digits that round down, a dispute does not make a vendor high risk.
- `plugin.py`: with two payments of one governor in flight, the recorder loses one's
  event and shows the other's twice.  An override is left without a decision when the
  pre-check it names is replaced by another (`OverrideNamesADecision`).
- `store.py`: `vendor_stats` counts a payment that nothing was heard of as a failure,
  which `Reconciliation`'s docstring calls an error, and over both channels, which
  `snapshot`'s docstring ("every aggregate is scoped to `channel`") excludes.  Rejected
  requests count towards velocity.  A first success can score below the cold start.
- `policy.py`: a derived fact of kind `not` holds when the fact it is about is unknown.

## 7. Running it

    tlc -workers 2 -config RuleEngine.cfg MCRuleEngine
    tlc -workers 2 -config Ledger.cfg MCLedger
    tlc -workers 2 -config Journal.cfg MCJournal
    tlc -workers 2 -config AgentRun.cfg MCAgentRun
    tlc -workers 2 -config Authority.cfg MCAuthority
    tlc -workers 2 -config Controls.cfg MCControls
    tlapm RuleEngineProofs.tla
    tlapm AttributionProofs.tla
    tlapm Sums.tla
    tlapm LedgerProofs.tla
    tlapm JournalProofs.tla
    tlapm AgentRunProofs.tla
    tlapm AuthorityProofs.tla
    tlapm ControlsProofs.tla

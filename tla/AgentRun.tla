------------------------------ MODULE AgentRun ------------------------------
(***************************************************************************)
(* Token spend: agent runs on the internal channel.                        *)
(*                                                                         *)
(* A cockpit is a plugin Governor (plugin.py) over an InferenceGate        *)
(* (inference.py): precheck_run, record_override, authorize_run,           *)
(* check_spend and settle_run.  A guard is the RunGuard (adapters/base.py) *)
(* that the four framework adapters delegate to: start, should_stop and    *)
(* finish.  They are processes over one store and one journal: the         *)
(* envelopes of the internal channel are shared, and a host may crash      *)
(* between any two of its commits.                                         *)
(*                                                                         *)
(* A decision is one step here (its interleavings are Ledger's, its chain  *)
(* is Journal's), within one day, by the three treasury limits below.      *)
(***************************************************************************)
EXTENDS Integers, FiniteSets, FiniteSetsExt

CONSTANTS
    Cockpits, Guards,
    FrameworkOf,    \* the adapter each guard is behind
    CallerCeiling,  \* max_budget_usd, where the framework has one and the caller set it
    CallerSteps,    \* max_llm_calls, max_iter, recursion_limit, as set by the caller, or None
    DefaultSteps,   \* ... and the adapters' defaults
    Models,
    Ids,            \* request ids
    Budgets,        \* what a run may ask for
    Costs,          \* what one step of an agent may cost
    PerTransaction, Daily, ActionsPerDay,       \* TreasuryConfig of the internal channel
    None

Hosts == Cockpits \cup Guards

ASSUME AgentRunAssumption ==
    /\ Cockpits \cap Guards = {}
    /\ FrameworkOf \in [Guards -> {"adk", "claude", "crewai", "langgraph"}]
    /\ CallerCeiling \in Nat
    /\ CallerSteps \in [Guards -> Nat \cup {None}]
    /\ DefaultSteps \in Nat
    /\ None \notin Nat \cup {"APPROVE", "REJECT"}
    /\ None \notin Ids
    /\ Budgets \subseteq Nat
    /\ Costs \subseteq Nat
    /\ PerTransaction \in Nat /\ Daily \in Nat /\ ActionsPerDay \in Nat

VARIABLES
    rows,           \* the transactions table, internal channel
    decisions,      \* per id: how many decisions the journal has
    overrides,      \* ids with a human_override entry
    stops,          \* per id: how many spend_ceiling_stop entries
    receipts,       \* per id: how many settlement entries
    precheck,       \* Governor._precheck_ids
    run,            \* _run_request_id and _run_budget_usd; RunGuard.authorization
    tripped,        \* Governor._stopped; RunGuard._stopped_by_run_budget or stopped_by
    phase,          \* where the loop around the run is
    spent,          \* what the run has cost so far
    steps,          \* how many steps it took, where its framework counts them
    cost,           \* history: what was reported as the actual cost of each run
    gone,           \* history: runs that a crash, another authorize_run or the journal dropped
    shown,          \* history: ids a pre-check was answered with
    stale,          \* history: those whose pre-check was replaced or lost
    unrecorded      \* history: runs whose stop could not be journalled

vars == <<rows, decisions, overrides, stops, receipts, precheck, run, tripped, phase, spent, steps,
          cost, gone, shown, stale, unrecorded>>

settling == <<rows, receipts, cost>>
asking == <<overrides, precheck, shown, stale>>

-----------------------------------------------------------------------------
NotReported == -1

NoRow == [verdict |-> None, amount |-> 0, settled |-> FALSE, success |-> FALSE,
          paid |-> NotReported]
NoRun == [id |-> None, budget |-> 0]

Decided == {id \in Ids : decisions[id] > 0}
Previewed == {precheck[c][m] : c \in Cockpits, m \in Models} \ {None}
\* build_request: an id nobody has seen.
Fresh == {id \in Ids : rows[id].verdict = None} \ shown

\* COALESCE(settled_amount_atomic, amount_atomic)
Counted(r) == IF r.paid = NotReported THEN r.amount ELSE r.paid

SpentToday == MapThenSumSet(LAMBDA id : Counted(rows[id]),
                            {id \in Ids : rows[id].settled /\ rows[id].success})
ActionsToday == Cardinality({id \in Ids : rows[id].verdict # None})

Fits(a) ==
    /\ a <= PerTransaction
    /\ a <= IF SpentToday > Daily THEN 0 ELSE Daily - SpentToday
    /\ ActionsToday < ActionsPerDay

Init ==
    /\ rows = [id \in Ids |-> NoRow]
    /\ decisions = [id \in Ids |-> 0]
    /\ overrides = {}
    /\ stops = [id \in Ids |-> 0]
    /\ receipts = [id \in Ids |-> 0]
    /\ precheck = [c \in Cockpits |-> [m \in Models |-> None]]
    /\ run = [h \in Hosts |-> NoRun]
    /\ tripped = [h \in Hosts |-> FALSE]
    /\ phase = [h \in Hosts |-> "idle"]
    /\ spent = [h \in Hosts |-> 0]
    /\ steps = [h \in Hosts |-> 0]
    /\ cost = [id \in Ids |-> NotReported]
    /\ gone = {}
    /\ shown = {}
    /\ stale = {}
    /\ unrecorded = {}

Go(h, place) == phase' = [phase EXCEPT ![h] = place]

-----------------------------------------------------------------------------
(***************************************************************************)
(* Before a run.                                                           *)
(***************************************************************************)
\* precheck_run: a decision that is not journalled, under an id that is kept for the model.
PrecheckRun(c, m) ==
    /\ \E id \in Fresh : /\ precheck' = [precheck EXCEPT ![c][m] = id]
                         /\ shown' = shown \cup {id}
    /\ stale' = stale \cup ({precheck[c][m]} \ {None})
    /\ UNCHANGED <<settling, decisions, overrides, stops, run, tripped, phase, spent, steps, gone,
                   unrecorded>>

\* record_override, with the answer of any pre-check a person was shown, however long ago.
RecordOverride(c, id) ==
    /\ id \in shown
    /\ overrides' = overrides \cup {id}
    /\ UNCHANGED <<settling, decisions, stops, precheck, run, tripped, phase, spent, steps, gone,
                   shown, stale, unrecorded>>

\* Tesoro.authorize: the row, ...
Row(budget) == [NoRow EXCEPT !.amount = budget,
                             !.verdict = IF Fits(budget) THEN "APPROVE" ELSE "REJECT"]

\* ... and the entry.
Authorize(id, budget) ==
    /\ rows' = [rows EXCEPT ![id] = Row(budget)]
    /\ decisions' = [decisions EXCEPT ![id] = @ + 1]

\* mutant: the pre-check's id is looked up and not taken out
Taken_Kept(c, m) == precheck
Taken(c, m) == [precheck EXCEPT ![c][m] = None]

\* mutant: a refusal leaves the run before it where it was
Opened_Kept(h, id, budget) ==
    /\ run' = IF Fits(budget) THEN [run EXCEPT ![h] = [id |-> id, budget |-> budget]] ELSE run
    /\ Go(h, IF Fits(budget) THEN "running" ELSE "idle")
    /\ spent' = [spent EXCEPT ![h] = 0]
    /\ steps' = [steps EXCEPT ![h] = 0]
    /\ tripped' = [tripped EXCEPT ![h] = FALSE]

\* mutant: the verdict is not looked at
Opened_Anyway(h, id, budget) ==
    /\ run' = [run EXCEPT ![h] = [id |-> id, budget |-> budget]]
    /\ Go(h, "running")
    /\ spent' = [spent EXCEPT ![h] = 0]
    /\ steps' = [steps EXCEPT ![h] = 0]
    /\ tripped' = [tripped EXCEPT ![h] = FALSE]

\* Where the hook sits: before_model_callback and on_llm_start run before a step that costs,
\* step_callback after it.
AsksFirst(h) == h \in Guards /\ FrameworkOf[h] \in {"adk", "langgraph"}

\* The run a verdict opens, or none.
Opened(h, id, budget) ==
    /\ run' = [run EXCEPT ![h] = IF Fits(budget) THEN [id |-> id, budget |-> budget] ELSE NoRun]
    /\ Go(h, IF ~Fits(budget) THEN "idle" ELSE IF AsksFirst(h) THEN "stepped" ELSE "running")
    /\ spent' = [spent EXCEPT ![h] = 0]
    /\ steps' = [steps EXCEPT ![h] = 0]
    /\ tripped' = [tripped EXCEPT ![h] = FALSE]

RunIds_Fresh(c, m) == Fresh         \* mutant: the run gets an id of its own
\* The pre-check's id if there was one.
RunIds(c, m) == IF precheck[c][m] # None THEN {precheck[c][m]} ELSE Fresh

\* authorize_run of the plugin.  A run that is still open is dropped.
AuthorizeRun(c, m, budget) ==
    /\ phase[c] \in {"idle", "running", "stepped", "told", "raised"}
    /\ \E id \in RunIds(c, m) :
        /\ Authorize(id, budget)
        /\ Opened(c, id, budget)
    /\ precheck' = Taken(c, m)
    /\ gone' = gone \cup ({run[c].id} \ {None})
    /\ UNCHANGED <<overrides, stops, receipts, cost, shown, stale, unrecorded>>

\* RunGuard.start, of a guard made for this run.
StartGuard(g, budget) ==
    /\ phase[g] = "idle"
    /\ \E id \in Fresh : Authorize(id, budget) /\ Opened(g, id, budget)
    /\ UNCHANGED <<asking, stops, receipts, cost, gone, unrecorded>>

\* The journal refuses the entry: the row is there, and the exception leaves the host with the
\* run it had.
Unjournalled(id, budget) ==
    /\ rows' = [rows EXCEPT ![id] = Row(budget)]
    /\ gone' = gone \cup {id}
    /\ UNCHANGED <<decisions, overrides, stops, receipts, run, tripped, phase, spent, steps, cost,
                   shown, unrecorded>>

AuthorizeRefused(c, m, budget) ==
    /\ phase[c] \in {"idle", "running", "stepped", "told", "raised"}
    /\ \E id \in RunIds(c, m) : Unjournalled(id, budget)
    /\ precheck' = Taken(c, m)
    /\ stale' = stale \cup ({precheck[c][m]} \ {None})

StartRefused(g, budget) ==
    /\ phase[g] = "idle"
    /\ \E id \in Fresh : Unjournalled(id, budget)
    /\ UNCHANGED <<precheck, stale>>

-----------------------------------------------------------------------------
(***************************************************************************)
(* The loop: a step, which costs, and a check.  The loop ends when told to.*)
(***************************************************************************)
\* ClaudeAgentAdapter.options_for: the tighter of the two.
SdkCeiling(g) == Min({CallerCeiling, run[g].budget})

\* run_config_for, crew_kwargs, config_for: a default where the caller set none.
StepLimit(g) == IF CallerSteps[g] = None THEN DefaultSteps ELSE CallerSteps[g]

HasSdkCeiling(h) == h \in Guards /\ FrameworkOf[h] = "claude"
HasStepLimit(h) == h \in Guards /\ FrameworkOf[h] # "claude"

\* The framework's own ceilings: it takes no step at one, and ends the run.
AtOwnCeiling(h) ==
    \/ HasSdkCeiling(h) /\ spent[h] >= SdkCeiling(h)
    \/ HasStepLimit(h) /\ steps[h] >= StepLimit(h)

\* A step may cost nothing; how often is bounded by the frameworks that count steps.
StepOfAgent(h) ==
    /\ phase[h] = "running"
    /\ ~AtOwnCeiling(h)
    /\ \E c \in Costs \cup (IF HasStepLimit(h) THEN {0} ELSE {}) :
           spent' = [spent EXCEPT ![h] = @ + c]
    /\ steps' = IF HasStepLimit(h) THEN [steps EXCEPT ![h] = @ + 1] ELSE steps
    /\ Go(h, "stepped")
    /\ UNCHANGED <<settling, asking, decisions, stops, run, tripped, gone, unrecorded>>

\* mutant: tripping is forgotten, and journalled again
Trips_Again(c) == spent[c] >= run[c].budget
Trips(c) == ~tripped[c] /\ spent[c] >= run[c].budget

\* check_spend.  It may be called again after it said stop.
CheckSpend(c) ==
    /\ phase[c] \in {"stepped", "told"}
    /\ tripped' = [tripped EXCEPT ![c] = @ \/ spent[c] >= run[c].budget]
    /\ Go(c, IF tripped'[c] THEN "told" ELSE "running")
    /\ stops' = IF Trips(c) THEN [stops EXCEPT ![run[c].id] = @ + 1] ELSE stops
    /\ UNCHANGED <<settling, asking, decisions, run, spent, steps, gone, unrecorded>>

\* The journal may refuse the entry: the exception reaches the loop, which ends.
StopRefused(c) ==
    /\ phase[c] \in {"stepped", "told"}
    /\ Trips(c)
    /\ tripped' = [tripped EXCEPT ![c] = TRUE]
    /\ Go(c, "raised")
    /\ unrecorded' = unrecorded \cup {run[c].id}
    /\ UNCHANGED <<settling, asking, decisions, stops, run, spent, steps, gone>>

\* mutant: the declared budget is left to the policy
Exceeds_Policy(g) == ~Fits(spent[g])

\* Past the declared budget, or no longer something the layer would approve.
Exceeds(g) == spent[g] > run[g].budget \/ ~Fits(spent[g])

\* on_llm_start and step_callback raise; the other two hooks return what should_stop said.
StopOf(g) == IF FrameworkOf[g] \in {"crewai", "langgraph"} THEN "raised" ELSE "told"

\* should_stop, behind the hook.
ShouldStop(g) ==
    /\ phase[g] = "stepped"
    /\ tripped' = [tripped EXCEPT ![g] = @ \/ Exceeds(g)]
    /\ Go(g, IF Exceeds(g) THEN StopOf(g) ELSE "running")
    /\ UNCHANGED <<settling, asking, decisions, stops, run, spent, steps, gone, unrecorded>>

\* A framework that is at its limit of steps may raise too.
FrameworkStops(g) ==
    /\ phase[g] = "running"
    /\ AtOwnCeiling(g)
    /\ Go(g, "told") \/ (HasStepLimit(g) /\ Go(g, "raised"))
    /\ UNCHANGED <<settling, asking, decisions, stops, run, tripped, spent, steps, gone,
                   unrecorded>>

-----------------------------------------------------------------------------
(***************************************************************************)
(* After a run.  The loop may end it at any check, and reports the cost.   *)
(* One that an exception ended reports it only if its caller catches that. *)
(***************************************************************************)
Ending_Unstopped == {"running", "stepped"}      \* mutant: a stopped run is not reported
Ending == {"running", "stepped", "told", "raised"}

\* A settlement without an amount leaves the one there is.
MarkSettled(id, success, paid) ==
    /\ rows' = [rows EXCEPT ![id].settled = TRUE, ![id].success = success,
                            ![id].paid = IF paid = NotReported THEN @ ELSE paid]
    /\ UNCHANGED decisions

\* settle_run, three commits: settled, with the budget as its amount, ...
SettleRun(c) ==
    /\ phase[c] \in Ending
    /\ \E success \in BOOLEAN : MarkSettled(run[c].id, success, NotReported)
    /\ cost' = [cost EXCEPT ![run[c].id] = spent[c]]
    /\ Go(c, "correcting")
    /\ UNCHANGED <<asking, stops, receipts, run, tripped, spent, steps, gone, unrecorded>>

\* mutant: what was authorised stays
Corrected_Budget(c) == rows[run[c].id].amount
Corrected(c) == spent[c]

\* ... then with what it cost, ...
CorrectAmount(c) ==
    /\ phase[c] = "correcting"
    /\ rows' = [rows EXCEPT ![run[c].id].amount = Corrected(c)]
    /\ Go(c, "journalling")
    /\ UNCHANGED <<asking, decisions, stops, receipts, run, tripped, spent, steps, cost, gone,
                   unrecorded>>

\* finish, over Governor.settle, two commits: settled, with what it cost if the caller says, ...
Finish(g) ==
    /\ phase[g] \in Ending
    /\ \E success \in BOOLEAN, actual \in {spent[g], NotReported} :
        /\ MarkSettled(run[g].id, success, actual)
        /\ cost' = [cost EXCEPT ![run[g].id] = IF actual = NotReported THEN @ ELSE actual]
    /\ Go(g, "journalling")
    /\ UNCHANGED <<asking, stops, receipts, run, tripped, spent, steps, gone, unrecorded>>

\* ... and its entry in the journal, ...
JournalSettlement(h) ==
    /\ phase[h] = "journalling"
    /\ receipts' = [receipts EXCEPT ![run[h].id] = @ + 1]
    /\ run' = [run EXCEPT ![h] = NoRun]
    /\ spent' = [spent EXCEPT ![h] = 0]
    /\ steps' = [steps EXCEPT ![h] = 0]
    /\ Go(h, "idle")
    /\ UNCHANGED <<asking, rows, decisions, stops, tripped, cost, gone, unrecorded>>

\* ... which the journal may refuse: the exception leaves the run open, and settled.
ReceiptRefused(h) ==
    /\ phase[h] = "journalling"
    /\ Go(h, "raised")
    /\ UNCHANGED <<settling, asking, decisions, stops, run, tripped, spent, steps, gone, unrecorded>>

\* A host dies, or a guard's caller lets go of it.
Crash(h) ==
    /\ phase[h] # "idle"
    /\ gone' = gone \cup {run[h].id}
    /\ run' = [run EXCEPT ![h] = NoRun]
    /\ tripped' = [tripped EXCEPT ![h] = FALSE]
    /\ precheck' = IF h \in Cockpits THEN [precheck EXCEPT ![h] = [m \in Models |-> None]]
                   ELSE precheck
    /\ stale' = IF h \in Cockpits
                THEN stale \cup ({precheck[h][m] : m \in Models} \ {None}) ELSE stale
    /\ spent' = [spent EXCEPT ![h] = 0]
    /\ steps' = [steps EXCEPT ![h] = 0]
    /\ Go(h, "idle")
    /\ UNCHANGED <<settling, decisions, overrides, stops, shown, unrecorded>>

-----------------------------------------------------------------------------
Cockpit(c) ==
    \/ \E m \in Models : PrecheckRun(c, m)
    \/ \E id \in Ids : RecordOverride(c, id)
    \/ \E m \in Models, b \in Budgets : AuthorizeRun(c, m, b) \/ AuthorizeRefused(c, m, b)
    \/ CheckSpend(c) \/ StopRefused(c) \/ SettleRun(c) \/ CorrectAmount(c)

Guard(g) ==
    \/ \E b \in Budgets : StartGuard(g, b) \/ StartRefused(g, b)
    \/ ShouldStop(g) \/ FrameworkStops(g) \/ Finish(g)

Next ==
    \/ \E c \in Cockpits : Cockpit(c)
    \/ \E g \in Guards : Guard(g)
    \/ \E h \in Hosts : StepOfAgent(h) \/ JournalSettlement(h) \/ ReceiptRefused(h) \/ Crash(h)

\* A loop that runs keeps stepping, checks after each step, and a call that has begun returns or
\* raises.  One that was told to stop reports; one that an exception ended may not.
Loop(h) == StepOfAgent(h) \/ JournalSettlement(h) \/ ReceiptRefused(h)
           \/ (h \in Cockpits /\ (CheckSpend(h) \/ StopRefused(h) \/ CorrectAmount(h)))
           \/ (h \in Guards /\ (ShouldStop(h) \/ FrameworkStops(h)))
Report(h) == (h \in Cockpits /\ SettleRun(h)) \/ (h \in Guards /\ Finish(h))

Spec == Init /\ [][Next]_vars
FairSpec == Spec /\ \A h \in Hosts : WF_vars(Loop(h)) /\ WF_vars(phase[h] = "told" /\ Report(h))

-----------------------------------------------------------------------------
(***************************************************************************)
(* Properties.                                                             *)
(***************************************************************************)
Places == {"idle", "running", "stepped", "told", "raised", "correcting", "journalling"}
Open(h) == phase[h] # "idle"

\* Every variable has its type; a host has a run exactly while it is busy.
TypeOK ==
    /\ rows \in [Ids -> [verdict : {"APPROVE", "REJECT", None}, amount : Nat, settled : BOOLEAN,
                         success : BOOLEAN, paid : Nat \cup {NotReported}]]
    /\ decisions \in [Ids -> Nat] /\ stops \in [Ids -> Nat] /\ receipts \in [Ids -> Nat]
    /\ overrides \subseteq Ids /\ gone \subseteq Ids /\ shown \subseteq Ids
    /\ stale \subseteq Ids /\ unrecorded \subseteq Ids
    /\ precheck \in [Cockpits -> [Models -> Ids \cup {None}]]
    /\ run \in [Hosts -> [id : Ids \cup {None}, budget : Nat]]
    /\ tripped \in [Hosts -> BOOLEAN] /\ spent \in [Hosts -> Nat]
    /\ steps \in [Hosts -> Nat]
    /\ phase \in [Hosts -> Places]
    /\ cost \in [Ids -> Nat \cup {NotReported}]
    /\ \A h \in Hosts : Open(h) <=> run[h].id # None

\* One request id, one decision, one run: whatever is previewed, overridden, dropped or crashed,
\* no id is decided twice and no two hosts carry one run (plugin.py: the previewed decision and
\* the real one are the same decision).
OneDecisionPerId ==
    /\ \A id \in Ids : decisions[id] <= 1
    /\ \A g, h \in Hosts : Open(g) /\ Open(h) /\ g # h => run[g].id # run[h].id
    /\ \A h \in Hosts : Open(h) => rows[run[h].id].verdict = "APPROVE"

\* The ceiling is the budget of this run and of no other: while a loop may go on it is within
\* what was authorised, so that a run exceeds that by at most the cost of one step; where the
\* caller set a ceiling too, that one is not widened.
CeilingHolds ==
    \A h \in Hosts :
        /\ phase[h] = "running" => spent[h] <= rows[run[h].id].amount
        /\ phase[h] \in {"stepped", "told"} => spent[h] <= rows[run[h].id].amount + Max(Costs)
        /\ HasSdkCeiling(h) => spent[h] = 0 \/ spent[h] < CallerCeiling + Max(Costs)

\* A stop is journalled once, when it happens, and never for a run that was within its budget,
\* however often the loop asks.
StopIsJournalledOnce ==
    /\ \A id \in Ids : stops[id] <= 1
    /\ \A c \in Cockpits : Open(c) /\ phase[c] \in {"stepped", "told"} =>
           (tripped[c] <=> stops[run[c].id] = 1 \/ run[c].id \in unrecorded)

\* What the next run's envelopes are computed from is what the runs before it cost, or their
\* budget if finish was not told: only in the middle of a settlement, or after a crash there, is
\* the one counted and the other known (inference.py).
SpendIsTheCost ==
    \A id \in Ids : rows[id].settled =>
        \/ Counted(rows[id]) = IF cost[id] = NotReported THEN rows[id].amount ELSE cost[id]
        \/ id \in gone
        \/ \E c \in Cockpits : run[c].id = id /\ phase[c] = "correcting"

\* No run is forgotten: an approved one is open, or settled with one receipt, or was dropped by
\* a crash, by the next authorize_run, or by a journal that refused its decision; a refused one
\* is never settled.
NoRunForgotten ==
    \A id \in Ids :
        /\ rows[id].verdict = "APPROVE" =>
              \/ \E h \in Hosts : run[h].id = id
              \/ rows[id].settled /\ receipts[id] = 1
              \/ id \in gone
        /\ rows[id].verdict = "REJECT" => ~rows[id].settled /\ receipts[id] = 0

\* An override names a decision, one that was made or is still to be made under the id a person
\* was shown, whenever it is recorded; unless that pre-check was replaced by another, or lost
\* with its process or with a decision the journal refused (plugin.py).
OverrideNamesADecision == overrides \subseteq Decided \cup Previewed \cup stale

\* A run ends, one whose steps cost nothing too where the framework counts them: a receipt is
\* journalled for it, or it was dropped, or an exception ended it, the stop that the hooks of
\* LangGraph and CrewAI raise among them.
EveryRunEnds ==
    \A id \in Ids : rows[id].verdict = "APPROVE" ~>
        \/ receipts[id] > 0
        \/ id \in gone
        \/ \E h \in Hosts : run[h].id = id /\ phase[h] = "raised"
=============================================================================

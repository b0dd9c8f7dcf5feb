------------------------------- MODULE Ledger -------------------------------
(***************************************************************************)
(* One payment from request to receipt, for several callers at once:       *)
(* GovernedBuyer.get_paid and Governor.authorize / settle                  *)
(* (adapters/x402_python.py, governor.py) over Tesoro.authorize, advise    *)
(* and record_settlement (runtime.py), the transaction table (store.py),   *)
(* the freeze file (freeze.py), the journal and the review queue.          *)
(*                                                                         *)
(* A task is a coroutine or thread that pays; the tasks of one process     *)
(* share an event loop, so that one of them runs from one await to the     *)
(* next without another, while processes interleave at every durable read  *)
(* and write.  Processes crash between any two of those.  The rail is      *)
(* outside the program: it answers, raises, and moves money or does not.   *)
(*                                                                         *)
(* The decision itself is RuleEngine's; here it is what the policy says,   *)
(* narrowed by the daily envelopes, the freeze, and the replay check or    *)
(* the advisor.  The hash chain of the journal is left out: `decisions`    *)
(* and `receipts` are the entries it holds.                                *)
(***************************************************************************)
EXTENDS Verdicts, Integers, FiniteSets, Functions

CONSTANTS
    Tasks,          \* the callers
    ProcessOf,      \* the process each task runs in
    Advised,        \* the tasks whose Tesoro has an advisor: they take advise()
    Reporting,      \* what each task passes to settlement as the amount
    Ids,            \* request ids
    Amounts,        \* quoted amounts, atomic units
    Drift,          \* what the rail may charge on top of the quote
    DailyLimit,     \* TreasuryConfig.daily_atomic
    ActionsPerDay,  \* TreasuryConfig.actions_per_day
    LastDay,        \* bound on the clock
    PolicyVerdicts, \* what the policy, or an advisor, may say
    ReuseIds,       \* may a caller bring an id that was used before?
    KillSwitch,     \* does an operator use the kill switch?
    Answering,      \* does a human answer what is in the review queue?
    Reviewer        \* that human

\* "quoted": GovernedBuyer passes the quote.  "actual": Governor.settle, or a caller of
\* record_settlement, passes what moved.  "silent": Governor.settle without an amount.
Reports == {"quoted", "actual", "silent"}

Processes == {ProcessOf[t] : t \in Tasks}

ASSUME LedgerAssumption ==
    /\ IsFiniteSet(Tasks) /\ Tasks # {}
    /\ ProcessOf \in [Tasks -> Processes]
    /\ Advised \subseteq Tasks
    /\ Reporting \in [Tasks -> Reports]
    /\ None \notin Ids
    /\ Amounts \subseteq Nat
    /\ Drift \subseteq Nat
    /\ DailyLimit \in Nat
    /\ ActionsPerDay \in Nat
    /\ LastDay \in Nat
    /\ PolicyVerdicts \subseteq Verdicts
    /\ ReuseIds \in BOOLEAN
    /\ KillSwitch \in BOOLEAN
    /\ Answering \in BOOLEAN
    /\ Reviewer \notin Tasks

VARIABLES
    rows,       \* the transactions table
    decisions,  \* journal entries that carry a decision
    receipts,   \* journal entries that carry a settlement
    queue,      \* the review queue; a file that cannot be parsed reads as an empty one
    rewriting,  \* who is rewriting that file, and the copy each is carrying
    freeze,     \* the freeze file; while it is being rewritten it cannot be parsed
    day,        \* the clock
    pc,         \* where each task is
    job,        \* the request each task is carrying
    moved,      \* history: what the rail really moved under each id
    lost,       \* history: ids whose task crashed or whose rail call raised
    escaped,    \* history: payments handed to the rail since the freeze began
    clashed     \* history: ids at stake when two processes rewrote the queue at once, or one died

review == <<queue, rewriting, clashed>>
vars == <<rows, decisions, receipts, review, freeze, day, pc, job, moved, lost, escaped>>

-----------------------------------------------------------------------------
(***************************************************************************)
(* Records.                                                                *)
(***************************************************************************)
NotReported == -1       \* settled_amount_atomic IS NULL

Row == [verdict: Verdicts \cup {None}, amount: Nat, settled: BOOLEAN,
        success: BOOLEAN, paid: Nat \cup {NotReported}, day: 0..LastDay]

NoRow == [verdict |-> None, amount |-> 0, settled |-> FALSE,
          success |-> FALSE, paid |-> NotReported, day |-> 0]

Job == [id: Ids \cup {None}, amount: Nat, verdict: Verdicts, day: 0..LastDay,
        success: BOOLEAN, charged: Nat]

NoJob == [id |-> None, amount |-> 0, verdict |-> "REJECT", day |-> 0,
          success |-> FALSE, charged |-> 0]

Entries == {"absent", "pending", "resolved"}
NoEntries == [id \in Ids |-> "absent"]

Rewriters == Tasks \cup {Reviewer}
Rewrite == [at: {"none", "loaded", "truncated"}, id: Ids \cup {None}, copy: [Ids -> Entries]]
NoRewrite == [at |-> "none", id |-> None, copy |-> NoEntries]

\* mutant: enqueue awaits while it rewrites the queue
Running_NotQueueing == {"snapshot", "decided", "checked", "ready", "recorded", "settled"}

\* Between two awaits: no other task of the process runs.
Running == {"snapshot", "decided", "checked", "ready", "recorded", "queueing", "settled"}
Places == Running \cup {"idle", "queueing", "paying", "answered"}

InTurn(t) ==
    \A u \in Tasks \ {t} : ProcessOf[u] = ProcessOf[t] => pc[u] \notin Running

Carried == {job[t].id : t \in Tasks} \ {None}

-----------------------------------------------------------------------------
(***************************************************************************)
(* What the store computes.                                                *)
(***************************************************************************)
Counted_Authorized(r) == r.amount     \* mutant: what was authorised, not what settled

\* COALESCE(settled_amount_atomic, amount_atomic)
Counted(r) == IF r.paid = NotReported THEN r.amount ELSE r.paid

\* Store.reconcile, without its window.
SettledRows == {id \in Ids : rows[id].settled /\ rows[id].success}
FailedRows == {id \in Ids : rows[id].settled /\ ~rows[id].success}
DivergedRows == {id \in SettledRows : /\ rows[id].paid # NotReported
                                      /\ rows[id].paid # rows[id].amount}
UnreconciledRows == {id \in Ids : rows[id].verdict # None /\ ~rows[id].settled}

SpentToday == SumFunctionOnSet([id \in Ids |-> Counted(rows[id])],
                               {id \in SettledRows : rows[id].day >= day})

\* mutant: the counts filter on settlement, as the sums do
CountToday_Settled == Cardinality({id \in Ids : rows[id].settled /\ rows[id].day >= day})

\* Counts do not filter on settlement.
CountToday == Cardinality({id \in Ids : rows[id].verdict # None /\ rows[id].day >= day})

\* The daily Envelope admits the amount and the actions_per_day CountEnvelope one more.
Fits(a) ==
    /\ a <= IF SpentToday > DailyLimit THEN 0 ELSE DailyLimit - SpentToday
    /\ CountToday < ActionsPerDay

Askable_Stale == {id \in Ids : id \notin Carried}      \* mutant: an old id is used again

\* build_request makes a fresh id unless the caller brings one.
Askable == IF ReuseIds THEN Ids
           ELSE {id \in Ids : rows[id] = NoRow /\ id \notin Carried}

Init ==
    /\ rows = [id \in Ids |-> NoRow]
    /\ decisions = {}
    /\ receipts = {}
    /\ queue = NoEntries
    /\ rewriting = [r \in Rewriters |-> NoRewrite]
    /\ clashed = {}
    /\ freeze = "clear"
    /\ day = 0
    /\ pc = [t \in Tasks |-> "idle"]
    /\ job = [t \in Tasks |-> NoJob]
    /\ moved = [id \in Ids |-> 0]
    /\ lost = {}
    /\ escaped = 0

Go(t, place) == pc' = [pc EXCEPT ![t] = place]

Leave_Busy(t) == Go(t, "idle") /\ UNCHANGED job       \* mutant: the request is kept

Leave(t) ==
    /\ Go(t, "idle")
    /\ job' = [job EXCEPT ![t] = NoJob]

-----------------------------------------------------------------------------
(***************************************************************************)
(* authorize() and advise(): from the snapshot to the answer.              *)
(***************************************************************************)

\* snapshot_for: every aggregate, read once, at one instant.  The budget's opinion
\* on it is the clamp of RuleEngine: REVIEW when an envelope is breached.
Snapshot(t) ==
    /\ pc[t] = "idle"
    /\ InTurn(t)
    /\ \E id \in Askable, a \in Amounts :
          job' = [job EXCEPT ![t] = [NoJob EXCEPT !.id = id, !.amount = a,
                     !.verdict = IF Fits(a) THEN "APPROVE" ELSE "REVIEW"]]
    /\ Go(t, "snapshot")
    /\ UNCHANGED <<rows, decisions, receipts, review, freeze, day, moved, lost, escaped>>

\* RuleEngine.decide: decided_at is the clock when the engines are done, not the
\* instant of the snapshot.
Decide(t) ==
    /\ pc[t] = "snapshot"
    /\ \E rule \in PolicyVerdicts :
          job' = [job EXCEPT ![t].verdict = Narrower(rule, @), ![t].day = day]
    /\ Go(t, "decided")
    /\ UNCHANGED <<rows, decisions, receipts, review, freeze, day, moved, lost, escaped>>

\* mutant: a file that cannot be parsed reads as clear
ReadFreeze_TornIsClear(t) ==
    /\ pc[t] = "decided"
    /\ job' = IF freeze # "frozen" THEN job ELSE [job EXCEPT ![t].verdict = "REJECT"]
    /\ Go(t, "checked")
    /\ UNCHANGED <<rows, decisions, receipts, review, freeze, day, moved, lost, escaped>>

\* _apply_freeze.  A file that cannot be parsed reads as frozen.
ReadFreeze(t) ==
    /\ pc[t] = "decided"
    /\ job' = IF freeze = "clear" THEN job ELSE [job EXCEPT ![t].verdict = "REJECT"]
    /\ Go(t, "checked")
    /\ UNCHANGED <<rows, decisions, receipts, review, freeze, day, moved, lost, escaped>>

\* authorize() only.
CheckReplay(t) ==
    /\ pc[t] = "checked"
    /\ t \notin Advised
    /\ job' = IF rows[job[t].id].settled THEN [job EXCEPT ![t].verdict = "REJECT"] ELSE job
    /\ Go(t, "ready")
    /\ UNCHANGED <<rows, decisions, receipts, review, freeze, day, moved, lost, escaped>>

\* advise() only: the call to the model blocks the process, and its recommendation
\* can narrow the decision.
Consult(t) ==
    /\ pc[t] = "checked"
    /\ t \in Advised
    /\ \E recommended \in PolicyVerdicts :
          job' = [job EXCEPT ![t].verdict = Narrower(@, recommended)]
    /\ Go(t, "ready")
    /\ UNCHANGED <<rows, decisions, receipts, review, freeze, day, moved, lost, escaped>>

\* Store.record: INSERT OR REPLACE, so every column starts again.
RecordRow(t) ==
    /\ pc[t] = "ready"
    /\ rows' = [rows EXCEPT ![job[t].id] =
                   [NoRow EXCEPT !.verdict = job[t].verdict, !.amount = job[t].amount,
                                 !.day = job[t].day]]
    /\ Go(t, "recorded")
    /\ UNCHANGED <<decisions, receipts, review, freeze, day, job, moved, lost, escaped>>

\* AuditLog.append, then what the caller does with the verdict: an APPROVE goes
\* straight to the rail, a verdict that needs a human is queued, any other one is
\* raised as GovernanceRefused.
AppendDecision(t) ==
    /\ pc[t] = "recorded"
    /\ decisions' = decisions \cup {[id |-> job[t].id, verdict |-> job[t].verdict]}
    /\ \/ /\ job[t].verdict = "APPROVE"
          /\ Go(t, "paying")
          /\ escaped' = IF freeze = "clear" THEN escaped ELSE escaped + 1
          /\ UNCHANGED job
       \/ /\ NeedsHuman(job[t].verdict)
          /\ Go(t, "queueing")
          /\ UNCHANGED <<job, escaped>>
       \/ /\ job[t].verdict # "APPROVE" /\ ~NeedsHuman(job[t].verdict)
          /\ Leave(t)
          /\ UNCHANGED escaped
    /\ UNCHANGED <<rows, receipts, review, freeze, day, moved, lost>>

(***************************************************************************)
(* The review queue is one file, rewritten whole and without a lock: a     *)
(* copy is loaded, write_text truncates the file, and then the copy goes   *)
(* back.  Whoever loads in between, or after a writer that died there,     *)
(* finds an empty queue.                                                   *)
(***************************************************************************)
HasEntry(file, id) == file[id] # "absent"
Open(r) == rewriting[r].at # "none"

\* What is in the file, in the copy of somebody who rewrites it, or about to be added.
AtStake == {id \in Ids : \/ HasEntry(queue, id)
                         \/ \E r \in Rewriters : Open(r) /\ \/ HasEntry(rewriting[r].copy, id)
                                                            \/ rewriting[r].id = id}

Elsewhere(r, other) == Reviewer \in {r, other} \/ ProcessOf[r] # ProcessOf[other]

LoadQueue(r, id) ==
    /\ ~Open(r)
    /\ rewriting' = [rewriting EXCEPT ![r] = [at |-> "loaded", id |-> id, copy |-> queue]]
    /\ clashed' = IF \E other \in Rewriters : Open(other) /\ Elsewhere(r, other)
                  THEN clashed \cup AtStake \cup {id} ELSE clashed
    /\ UNCHANGED queue

TruncateQueue(r) ==
    /\ rewriting[r].at = "loaded"
    /\ rewriting' = [rewriting EXCEPT ![r].at = "truncated"]
    /\ queue' = NoEntries
    /\ UNCHANGED clashed

\* The copy goes back, with one entry replaced or added.
WriteQueue(r, entry) ==
    /\ rewriting[r].at = "truncated"
    /\ queue' = [rewriting[r].copy EXCEPT ![rewriting[r].id] = entry]
    /\ rewriting' = [rewriting EXCEPT ![r] = NoRewrite]
    /\ UNCHANGED clashed

\* These die, wherever they were: what one had truncated stays so.
StopRewriting(dying) ==
    /\ rewriting' = [r \in Rewriters |-> IF r \in dying THEN NoRewrite ELSE rewriting[r]]
    /\ clashed' = clashed \cup {id \in Ids : \E r \in dying :
                      rewriting[r].at = "truncated" /\ HasEntry(rewriting[r].copy, id)}
    /\ UNCHANGED queue

\* ReviewQueue.enqueue, up to its last step.
Rewriting(t) ==
    /\ pc[t] = "queueing"
    /\ LoadQueue(t, job[t].id) \/ TruncateQueue(t)
    /\ UNCHANGED <<rows, decisions, receipts, freeze, day, pc, job, moved, lost, escaped>>

\* It replaces whatever entry the id had.
Enqueue(t) ==
    /\ pc[t] = "queueing"
    /\ WriteQueue(t, "pending")
    /\ Leave(t)
    /\ UNCHANGED <<rows, decisions, receipts, freeze, day, moved, lost, escaped>>

-----------------------------------------------------------------------------
(***************************************************************************)
(* The rail, and record_settlement().                                      *)
(***************************************************************************)

\* The rail answers: settled, for the quote or something more, or not settled.
RailAnswers(t) ==
    /\ pc[t] = "paying"
    /\ \/ \E extra \in Drift :
             LET charge == job[t].amount + extra IN
             /\ moved' = [moved EXCEPT ![job[t].id] = @ + charge]
             /\ job' = [job EXCEPT ![t].success = TRUE, ![t].charged = charge]
       \/ UNCHANGED <<moved, job>>
    /\ Go(t, "answered")
    /\ UNCHANGED <<rows, decisions, receipts, review, freeze, day, lost, escaped>>

\* The call raises, and the caller cannot tell whether the money went.
RailRaises(t) ==
    /\ pc[t] = "paying"
    /\ \/ moved' = [moved EXCEPT ![job[t].id] = @ + job[t].amount]
       \/ UNCHANGED moved
    /\ lost' = lost \cup {job[t].id}
    /\ Leave(t)
    /\ UNCHANGED <<rows, decisions, receipts, review, freeze, day, escaped>>

Reported_Quoted(t) == job[t].amount       \* mutant: the quote, whatever moved

Reported(t) ==
    CASE Reporting[t] = "quoted" -> job[t].amount
      [] Reporting[t] = "actual" -> job[t].charged
      [] Reporting[t] = "silent" -> NotReported

\* Store.mark_settled: without an amount the column is left as it was.
MarkSettled(t) ==
    /\ pc[t] = "answered"
    /\ InTurn(t)
    /\ rows' = [rows EXCEPT ![job[t].id].settled = TRUE,
                            ![job[t].id].success = job[t].success,
                            ![job[t].id].paid =
                                IF Reported(t) = NotReported THEN @ ELSE Reported(t)]
    /\ Go(t, "settled")
    /\ UNCHANGED <<decisions, receipts, review, freeze, day, job, moved, lost, escaped>>

\* mutant: only a successful settlement is journalled
AppendSettlement_IfPaid(t) ==
    /\ pc[t] = "settled"
    /\ receipts' = IF ~job[t].success THEN receipts
                   ELSE receipts \cup {[id |-> job[t].id, success |-> TRUE, paid |-> Reported(t)]}
    /\ Leave(t)
    /\ UNCHANGED <<rows, decisions, review, freeze, day, moved, lost, escaped>>

\* AuditLog.attach_settlement: a second commit, to another file.
AppendSettlement(t) ==
    /\ pc[t] = "settled"
    /\ receipts' = receipts \cup
           {[id |-> job[t].id, success |-> job[t].success, paid |-> Reported(t)]}
    /\ Leave(t)
    /\ UNCHANGED <<rows, decisions, review, freeze, day, moved, lost, escaped>>

-----------------------------------------------------------------------------
(***************************************************************************)
(* Everybody else.                                                         *)
(***************************************************************************)

\* The process stops at any point; its files stay as they are.
Crash(p) ==
    LET mine == {t \in Tasks : ProcessOf[t] = p} IN
    /\ \E t \in mine : pc[t] # "idle"
    /\ pc' = [t \in Tasks |-> IF t \in mine THEN "idle" ELSE pc[t]]
    /\ job' = [t \in Tasks |-> IF t \in mine THEN NoJob ELSE job[t]]
    /\ lost' = lost \cup ({job[t].id : t \in mine} \ {None})
    /\ StopRewriting(mine)
    /\ UNCHANGED <<rows, decisions, receipts, freeze, day, moved, escaped>>

\* FreezeStore._write truncates the file and then writes it: in between nobody can
\* parse it.
BeginFreeze ==
    /\ KillSwitch
    /\ freeze \in {"clear", "clearing"}
    /\ freeze' = "freezing"
    /\ UNCHANGED <<rows, decisions, receipts, review, day, pc, job, moved, lost, escaped>>

BeginClear ==
    /\ freeze \in {"frozen", "freezing"}
    /\ freeze' = "clearing"
    /\ UNCHANGED <<rows, decisions, receipts, review, day, pc, job, moved, lost, escaped>>

FinishWrite ==
    /\ \/ /\ freeze = "freezing"
          /\ freeze' = "frozen"
          /\ UNCHANGED escaped
       \/ /\ freeze = "clearing"
          /\ freeze' = "clear"
          /\ escaped' = 0
    /\ UNCHANGED <<rows, decisions, receipts, review, day, pc, job, moved, lost>>

\* ReviewQueue.resolve, by a human whose command may be interrupted.  Nothing is written for
\* an id that is not in the copy.
Resolve(id) ==
    /\ \/ Answering /\ HasEntry(queue, id) /\ LoadQueue(Reviewer, id)
       \/ rewriting[Reviewer].id = id /\ TruncateQueue(Reviewer)
       \/ rewriting[Reviewer].id = id /\ WriteQueue(Reviewer, "resolved")
       \/ rewriting[Reviewer].id = id /\ StopRewriting({Reviewer})
    /\ UNCHANGED <<rows, decisions, receipts, freeze, day, pc, job, moved, lost, escaped>>

NextDay ==
    /\ day < LastDay
    /\ day' = day + 1
    /\ UNCHANGED <<rows, decisions, receipts, review, freeze, pc, job, moved, lost, escaped>>

Work(t) ==
    \/ Decide(t) \/ ReadFreeze(t) \/ CheckReplay(t) \/ Consult(t) \/ RecordRow(t)
    \/ AppendDecision(t) \/ Rewriting(t) \/ Enqueue(t) \/ RailAnswers(t) \/ RailRaises(t)
    \/ MarkSettled(t) \/ AppendSettlement(t)

Next ==
    \/ \E t \in Tasks : Snapshot(t) \/ Work(t)
    \/ \E p \in Processes : Crash(p)
    \/ \E id \in Ids : Resolve(id)
    \/ BeginFreeze \/ BeginClear \/ FinishWrite \/ NextDay

Spec == Init /\ [][Next]_vars

\* A task that has begun is run by its event loop, and the rail's client answers or
\* times out.
FairSpec == Spec /\ \A t \in Tasks : WF_vars(Work(t))

-----------------------------------------------------------------------------
(***************************************************************************)
(* Correctness.                                                            *)
(***************************************************************************)
Decision == [id: Ids, verdict: Verdicts]
Receipt == [id: Ids, success: BOOLEAN, paid: Nat \cup {NotReported}]

\* Every variable has its type; a task carries a request exactly while it is busy.
TypeOK ==
    /\ rows \in [Ids -> Row]
    /\ decisions \subseteq Decision
    /\ receipts \subseteq Receipt
    /\ queue \in [Ids -> Entries]
    /\ rewriting \in [Rewriters -> Rewrite]
    /\ clashed \subseteq Ids
    /\ freeze \in {"clear", "freezing", "frozen", "clearing"}
    /\ day \in 0..LastDay
    /\ pc \in [Tasks -> Places]
    /\ job \in [Tasks -> Job]
    /\ \A t \in Tasks : pc[t] = "idle" <=> job[t].id = None
    /\ moved \in [Ids -> Nat]
    /\ lost \subseteq Ids
    /\ escaped \in Nat

Callers == Cardinality(Tasks)
Largest(S) == CHOOSE a \in S : \A b \in S : b <= a

\* The money of settled requests stays, day by day, within the daily limit plus one
\* batch: the callers that may have been in flight together when the last of them
\* took its snapshot.  The limit is on what moved, not on what was quoted: a rail
\* that charges more than the quote is counted for what it took.
SpendBounded ==
    \A d \in 0..LastDay :
        SumFunctionOnSet(moved, {id \in Ids : rows[id].settled /\ rows[id].day = d})
          <= DailyLimit + (Callers - 1) * Largest(Amounts) + Callers * Largest(Drift)

\* No more requests than actions_per_day are approved in a day, settled or not, but
\* for one more in each further process: between the snapshot and the row there is no
\* await, so the callers of one event loop count each other.  It is the only bound an
\* integration that never reports back has.
ActionsBounded ==
    \A d \in 0..LastDay :
        Cardinality({id \in Ids : rows[id].verdict = "APPROVE" /\ rows[id].day = d})
          <= ActionsPerDay + Cardinality(Processes) - 1

\* Money that moved is accounted for, whatever crashed or raised: its APPROVE is
\* journalled, and the ledger either counts exactly that money as spent or reports
\* the request as unreconciled.  None of it is reported as failed or refused.
MovedIsAccountedFor ==
    \A id \in Ids : moved[id] > 0 =>
        /\ [id |-> id, verdict |-> "APPROVE"] \in decisions
        /\ rows[id].verdict = "APPROVE"
        /\ \/ id \in UnreconciledRows
           \/ id \in SettledRows /\ Counted(rows[id]) = moved[id]

\* The journal and the table tell the same story: a receipt is of a row settled
\* likewise, and a settled row has its receipt unless its task is about to write it
\* or was interrupted first.
ReceiptsMatchRows ==
    /\ \A r \in receipts : /\ rows[r.id].settled
                           /\ rows[r.id].success = r.success
                           /\ rows[r.id].paid = r.paid
    /\ \A id \in Ids : rows[id].settled =>
          \/ \E r \in receipts : r.id = id
          \/ \E t \in Tasks : job[t].id = id /\ pc[t] = "settled"
          \/ id \in lost

\* An entry is in the file, or with whoever is writing the file back.
InQueue(id) ==
    \/ HasEntry(queue, id)
    \/ \E r \in Rewriters : rewriting[r].at = "truncated" /\ HasEntry(rewriting[r].copy, id)

\* Nothing is forgotten but by an interruption, or by two processes whose rewrites of the queue
\* file overlap; the callers of one event loop do not lose each other's entries.  An approved
\* request that is not settled is still being carried, and so is one that needs a human and is
\* not in the review queue.
NothingForgotten ==
    \A id \in Ids \ (lost \cup Carried) :
        /\ rows[id].verdict = "APPROVE" => rows[id].settled
        /\ rows[id].verdict \in {"REVIEW", "ESCALATE"} => InQueue(id) \/ id \in clashed

\* After a freeze has begun, each process hands at most one more payment to the rail:
\* that of the caller that had read the freeze file before.
FreezeStops == freeze # "clear" => escaped <= Cardinality(Processes)

\* The ledger implements the promise of `tesoro reconcile`.
StateOf(id) ==
    IF rows[id].verdict = None THEN "unrecorded"
    ELSE IF id \in UnreconciledRows THEN "unreconciled"
    ELSE IF id \in SettledRows THEN "settled" ELSE "failed"

Promise == INSTANCE Reconciliation WITH
              state <- [id \in Ids |-> StateOf(id)],
              gone <- {id \in Ids : moved[id] > 0}

ImplementsReconciliation == Promise!Spec

\* Every recorded request is closed in the end: refused, in the review queue unless a human's
\* rewrite of that clashed with it or died, settled with its receipt, or interrupted.
Closed(id) ==
    \/ id \in lost
    \/ [id |-> id, verdict |-> "REJECT"] \in decisions
    \/ InQueue(id) \/ id \in clashed
    \/ \E r \in receipts : r.id = id

EveryRequestIsClosed == \A id \in Ids : rows[id].verdict # None ~> Closed(id)

\* runtime.Tesoro.authorize: "a settled id must never be reused", because a replay
\* "would overwrite the record of the first payment".  A settled row stays settled.
SettledRowKept == [][\A id \in Ids : rows[id].settled => rows'[id].settled]_vars

\* store.Reconciliation.exposure_atomic: "authorised, never reported back".  What
\* reconcile() counts as unreconciled was authorised.
ExposureIsAuthorised == \A id \in UnreconciledRows : rows[id].verdict = "APPROVE"
=============================================================================

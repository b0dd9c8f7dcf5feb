---------------------------- MODULE LedgerProofs ----------------------------
(***************************************************************************)
(* Theorems about the life of a payment, for any number of callers,        *)
(* processes, requests and days.                                           *)
(*                                                                         *)
(* All but the type invariant, FreezeStops and ActionsBounded are about    *)
(* callers that do not bring an id twice (build_request makes a fresh one).*)
(***************************************************************************)
EXTENDS Ledger, Sums, TLAPS

-----------------------------------------------------------------------------
(***************************************************************************)
(* The inductive invariant.                                                *)
(***************************************************************************)

\* Two tasks never carry the same request.
Apart ==
    \A t, u \in Tasks : job[t].id = job[u].id /\ job[t].id # None => t = u

\* An id nobody has asked with has moved no money.
Untouched == \A id \in Ids : rows[id] = NoRow => moved[id] = 0

\* What is on record of the request that t carries, by the place where t is.
Asked(t) == rows[job[t].id] = NoRow

Recorded(t) ==
    /\ rows[job[t].id].verdict = job[t].verdict
    /\ ~rows[job[t].id].settled
    /\ rows[job[t].id].paid = NotReported

Sent(t) ==
    /\ job[t].verdict = "APPROVE"
    /\ rows[job[t].id].verdict = "APPROVE"
    /\ [id |-> job[t].id, verdict |-> "APPROVE"] \in decisions

Charged(t) ==
    IF job[t].success
    THEN /\ moved[job[t].id] = job[t].charged
         /\ job[t].charged \in Nat
         /\ job[t].charged >= job[t].amount
    ELSE moved[job[t].id] = 0

Settled(t) ==
    /\ rows[job[t].id].settled
    /\ rows[job[t].id].success = job[t].success
    /\ rows[job[t].id].paid = Reported(t)

OnRecord(t) ==
    /\ pc[t] # "idle" => job[t].amount \in Amounts
    /\ pc[t] \in {"snapshot", "decided", "checked", "ready"} => Asked(t)
    /\ pc[t] \in {"recorded", "queueing", "paying", "answered"} => Recorded(t)
    /\ pc[t] \in {"recorded", "queueing", "paying"} => moved[job[t].id] = 0
    /\ pc[t] = "queueing" => NeedsHuman(job[t].verdict)
    /\ pc[t] \notin {"idle", "answered", "settled"} => ~job[t].success
    /\ pc[t] \in {"paying", "answered", "settled"} => Sent(t)
    /\ pc[t] \in {"answered", "settled"} => Charged(t)
    /\ pc[t] = "settled" => Settled(t)

Standing ==
    /\ Apart
    /\ Untouched
    /\ \A t \in Tasks : OnRecord(t)

-----------------------------------------------------------------------------
(***************************************************************************)
(* Type correctness.                                                       *)
(***************************************************************************)
LEMMA NarrowerType ==
    ASSUME NEW a \in Verdicts, NEW b \in Verdicts
    PROVE  Narrower(a, b) \in Verdicts
BY DEF Narrower

LEMMA Records ==
    /\ NoRow \in Row
    /\ NoJob \in Job
    /\ None \notin Ids
    /\ 0 \in 0..LastDay
BY LedgerAssumption DEF LedgerAssumption, NoRow, Row, NoJob, Job, Verdicts, NotReported, None

\* A task that is busy carries a request.
LEMMA Busy ==
    ASSUME TypeOK, NEW t \in Tasks, pc[t] # "idle"
    PROVE  job[t] \in Job /\ job[t].id \in Ids /\ job[t].verdict \in Verdicts
BY DEF TypeOK, Job

LEMMA ReportedType ==
    ASSUME TypeOK, NEW t \in Tasks, pc[t] # "idle"
    PROVE  Reported(t) \in Nat \cup {NotReported}
<1>1. Reporting[t] \in Reports
  BY LedgerAssumption DEF LedgerAssumption
<1>2. job[t].amount \in Nat /\ job[t].charged \in Nat
  BY Busy DEF Job
<1> QED
  BY <1>1, <1>2 DEF Reported, Reports

\* What TypeOK says of the tasks, and what it says of the rest.
TasksTyped ==
    /\ pc \in [Tasks -> Places]
    /\ job \in [Tasks -> Job]
    /\ \A t \in Tasks : pc[t] = "idle" <=> job[t].id = None

QueueTyped ==
    /\ queue \in [Ids -> Entries]
    /\ rewriting \in [Rewriters -> Rewrite]
    /\ clashed \subseteq Ids

StoresTyped ==
    /\ rows \in [Ids -> Row]
    /\ decisions \subseteq Decision
    /\ receipts \subseteq Receipt
    /\ QueueTyped
    /\ freeze \in {"clear", "freezing", "frozen", "clearing"}
    /\ day \in 0..LastDay
    /\ moved \in [Ids -> Nat]
    /\ lost \subseteq Ids
    /\ escaped \in Nat

LEMMA TypeInit == Init => TypeOK
<1> SUFFICES ASSUME Init PROVE TypeOK
  OBVIOUS
<1>1. TasksTyped
  <2>1. NoJob.id = None
    BY DEF NoJob
  <2> QED
    BY <2>1, Records DEF Init, TasksTyped, Places
<1>2. StoresTyped
  BY Records DEF Init, StoresTyped, QueueTyped, NoEntries, Entries, NoRewrite, Rewrite
<1> QED
  BY <1>1, <1>2 DEF TypeOK, TasksTyped, StoresTyped, QueueTyped

\* A task that goes on with the request it has.
LEMMA GoTyped ==
    ASSUME TypeOK, NEW t \in Tasks, pc[t] # "idle",
           NEW place \in Places \ {"idle"}, Go(t, place),
           NEW j \in Job, j.id = job[t].id, job' = [job EXCEPT ![t] = j]
    PROVE  TasksTyped'
BY Busy, Records DEF TypeOK, TasksTyped, Go

\* A task that is done with its request.
LEMMA LeaveTyped ==
    ASSUME TypeOK, NEW t \in Tasks, Leave(t)
    PROVE  TasksTyped'
BY Records DEF TypeOK, TasksTyped, Go, Leave, Places, NoJob

LEMMA SnapshotTyped ==
    ASSUME TypeOK, NEW t \in Tasks, Snapshot(t)
    PROVE  TypeOK'
<1>1. PICK id \in Askable, a \in Amounts :
        job' = [job EXCEPT ![t] = [NoJob EXCEPT !.id = id, !.amount = a,
                   !.verdict = IF Fits(a) THEN "APPROVE" ELSE "REVIEW"]]
  BY DEF Snapshot
<1> DEFINE j == [NoJob EXCEPT !.id = id, !.amount = a,
                   !.verdict = IF Fits(a) THEN "APPROVE" ELSE "REVIEW"]
<1>2. id \in Ids /\ a \in Nat
  BY LedgerAssumption DEF LedgerAssumption, Askable
<1>3. j \in Job /\ j.id = id
  BY <1>2, Records DEF Job, NoJob, Verdicts
<1>4. TasksTyped'
  <2> HIDE DEF j
  <2>1. pc' = [pc EXCEPT ![t] = "snapshot"]
    BY DEF Snapshot, Go
  <2>2. job' = [job EXCEPT ![t] = j]
    BY <1>1 DEF j
  <2> QED
    BY <1>2, <1>3, <2>1, <2>2, Records DEF TypeOK, TasksTyped, Places, Running
<1>5. StoresTyped'
  BY DEF TypeOK, StoresTyped, QueueTyped, review, Snapshot
<1> QED
  BY <1>4, <1>5 DEF TypeOK, TasksTyped, StoresTyped, QueueTyped

\* The steps of a decision that only change the verdict of the request.
LEMMA VerdictTyped ==
    ASSUME TypeOK, NEW t \in Tasks, pc[t] # "idle",
           NEW v \in Verdicts, NEW place \in Places \ {"idle"}, Go(t, place),
           job' = [job EXCEPT ![t].verdict = v]
    PROVE  TasksTyped'
<1> DEFINE j == [job[t] EXCEPT !.verdict = v]
<1>1. j \in Job /\ j.id = job[t].id
  BY Busy DEF Job
<1>2. job' = [job EXCEPT ![t] = j]
  BY DEF TypeOK
<1> HIDE DEF j
<1> QED
  BY <1>1, <1>2, GoTyped

LEMMA SameTyped ==
    ASSUME TypeOK, NEW t \in Tasks, pc[t] # "idle",
           NEW place \in Places \ {"idle"}, Go(t, place), job' = job
    PROVE  TasksTyped'
BY DEF TypeOK, TasksTyped, Go

LEMMA DecideTyped ==
    ASSUME TypeOK, NEW t \in Tasks, Decide(t)
    PROVE  TypeOK'
<1>1. PICK rule \in PolicyVerdicts :
        job' = [job EXCEPT ![t].verdict = Narrower(rule, @), ![t].day = day]
  BY DEF Decide
<1> DEFINE j == [job[t] EXCEPT !.verdict = Narrower(rule, job[t].verdict), !.day = day]
<1>2. pc[t] # "idle" /\ Go(t, "decided")
  BY DEF Decide
<1>3. Narrower(rule, job[t].verdict) \in Verdicts
  BY <1>2, Busy, NarrowerType, LedgerAssumption DEF LedgerAssumption
<1>4. j \in Job /\ j.id = job[t].id
  BY <1>2, <1>3, Busy DEF Job, TypeOK
<1>5. job' = [job EXCEPT ![t] = j]
  BY <1>1 DEF TypeOK
<1> HIDE DEF j
<1>6. TasksTyped'
  BY <1>2, <1>4, <1>5, GoTyped DEF Places, Running
<1>7. StoresTyped'
  BY DEF TypeOK, StoresTyped, QueueTyped, review, Decide
<1> QED
  BY <1>6, <1>7 DEF TypeOK, TasksTyped, StoresTyped, QueueTyped

LEMMA ReadFreezeTyped ==
    ASSUME TypeOK, NEW t \in Tasks, ReadFreeze(t)
    PROVE  TypeOK'
<1>1. TasksTyped'
  BY SameTyped, VerdictTyped DEF ReadFreeze, Places, Running, Verdicts
<1>2. StoresTyped'
  BY DEF TypeOK, StoresTyped, QueueTyped, review, ReadFreeze
<1> QED
  BY <1>1, <1>2 DEF TypeOK, TasksTyped, StoresTyped, QueueTyped

LEMMA CheckReplayTyped ==
    ASSUME TypeOK, NEW t \in Tasks, CheckReplay(t)
    PROVE  TypeOK'
<1>1. TasksTyped'
  BY SameTyped, VerdictTyped DEF CheckReplay, Places, Running, Verdicts
<1>2. StoresTyped'
  BY DEF TypeOK, StoresTyped, QueueTyped, review, CheckReplay
<1> QED
  BY <1>1, <1>2 DEF TypeOK, TasksTyped, StoresTyped, QueueTyped

LEMMA ConsultTyped ==
    ASSUME TypeOK, NEW t \in Tasks, Consult(t)
    PROVE  TypeOK'
<1>1. PICK recommended \in PolicyVerdicts :
        job' = [job EXCEPT ![t].verdict = Narrower(@, recommended)]
  BY DEF Consult
<1>2. pc[t] # "idle" /\ Go(t, "ready")
  BY DEF Consult
<1>3. Narrower(job[t].verdict, recommended) \in Verdicts
  BY <1>2, Busy, NarrowerType, LedgerAssumption DEF LedgerAssumption
<1>4. job' = [job EXCEPT ![t].verdict = Narrower(job[t].verdict, recommended)]
  BY <1>1 DEF TypeOK
<1>5. TasksTyped'
  BY <1>2, <1>3, <1>4, VerdictTyped DEF Places, Running
<1>6. StoresTyped'
  BY DEF TypeOK, StoresTyped, QueueTyped, review, Consult
<1> QED
  BY <1>5, <1>6 DEF TypeOK, TasksTyped, StoresTyped, QueueTyped

LEMMA RecordRowTyped ==
    ASSUME TypeOK, NEW t \in Tasks, RecordRow(t)
    PROVE  TypeOK'
<1>1. TasksTyped'
  BY SameTyped DEF RecordRow, Places, Running
<1> DEFINE r == [NoRow EXCEPT !.verdict = job[t].verdict, !.amount = job[t].amount,
                              !.day = job[t].day]
<1>2. r \in Row
  BY Busy, Records DEF RecordRow, NoRow, Row, Job
<1>3. rows' = [rows EXCEPT ![job[t].id] = r]
  BY DEF RecordRow
<1> HIDE DEF r
<1>4. rows' \in [Ids -> Row]
  BY <1>2, <1>3 DEF TypeOK
<1>5. StoresTyped'
  BY <1>4 DEF TypeOK, StoresTyped, QueueTyped, review, RecordRow
<1> QED
  BY <1>1, <1>5 DEF TypeOK, TasksTyped, StoresTyped, QueueTyped

LEMMA AppendDecisionTyped ==
    ASSUME TypeOK, NEW t \in Tasks, AppendDecision(t)
    PROVE  TypeOK'
<1>1. pc[t] # "idle"
  BY DEF AppendDecision
<1>2. TasksTyped'
  <2>1. CASE job[t].verdict = "APPROVE" /\ Go(t, "paying") /\ UNCHANGED job
    BY <1>1, <2>1, SameTyped DEF Places
  <2>2. CASE NeedsHuman(job[t].verdict) /\ Go(t, "queueing") /\ UNCHANGED job
    BY <1>1, <2>2, SameTyped DEF Places, Running
  <2>3. CASE Leave(t)
    BY <2>3, LeaveTyped
  <2> QED
    BY <2>1, <2>2, <2>3 DEF AppendDecision
<1>3. [id |-> job[t].id, verdict |-> job[t].verdict] \in Decision
  BY <1>1, Busy DEF Decision
<1>4. decisions' \subseteq Decision
  BY <1>3 DEF AppendDecision, TypeOK
<1>5. escaped' \in Nat
  BY DEF AppendDecision, TypeOK
<1>6. StoresTyped'
  BY <1>4, <1>5 DEF TypeOK, StoresTyped, QueueTyped, review, AppendDecision
<1> QED
  BY <1>2, <1>6 DEF TypeOK, TasksTyped, StoresTyped, QueueTyped

\* One step of whoever rewrites the queue file.
Rewrites(r, id) ==
    \/ LoadQueue(r, id)
    \/ TruncateQueue(r)
    \/ \E entry \in Entries \ {"absent"} : WriteQueue(r, entry)

LEMMA RewriteTyped ==
    ASSUME TypeOK, NEW r \in Rewriters, NEW id \in Ids, Rewrites(r, id)
    PROVE  QueueTyped'
<1>1. /\ queue \in [Ids -> Entries] /\ clashed \subseteq Ids
      /\ rewriting \in [Rewriters -> Rewrite] /\ rewriting[r] \in Rewrite
  BY DEF TypeOK
<1>2. NoEntries \in [Ids -> Entries] /\ NoRewrite \in Rewrite
  BY DEF NoEntries, Entries, NoRewrite, Rewrite
<1>3. CASE LoadQueue(r, id)
  <2>1. [at |-> "loaded", id |-> id, copy |-> queue] \in Rewrite
    BY <1>1 DEF Rewrite
  <2>2. clashed' \subseteq Ids
    BY <1>1, <1>3 DEF LoadQueue, AtStake
  <2> QED
    BY <1>1, <1>3, <2>1, <2>2 DEF LoadQueue, QueueTyped
<1>4. CASE TruncateQueue(r)
  <2>1. [rewriting[r] EXCEPT !.at = "truncated"] \in Rewrite
    BY <1>1 DEF Rewrite
  <2> QED
    BY <1>1, <1>2, <1>4, <2>1 DEF TruncateQueue, QueueTyped
<1>5. ASSUME NEW entry \in Entries, WriteQueue(r, entry)
      PROVE  QueueTyped'
  <2>1. rewriting[r].copy \in [Ids -> Entries]
    BY <1>1 DEF Rewrite
  <2>2. [rewriting[r].copy EXCEPT ![rewriting[r].id] = entry] \in [Ids -> Entries]
    BY <2>1
  <2> QED
    BY <1>1, <1>2, <1>5, <2>2 DEF WriteQueue, QueueTyped
<1> QED
  BY <1>3, <1>4, <1>5 DEF Rewrites

LEMMA StopTyped ==
    ASSUME TypeOK, NEW dying, StopRewriting(dying)
    PROVE  QueueTyped'
<1>1. NoRewrite \in Rewrite
  BY DEF NoEntries, Entries, NoRewrite, Rewrite
<1>2. \A r \in Rewriters : (IF r \in dying THEN NoRewrite ELSE rewriting[r]) \in Rewrite
  BY <1>1 DEF TypeOK
<1>3. rewriting' \in [Rewriters -> Rewrite]
  BY <1>2 DEF StopRewriting
<1>4. clashed' \subseteq Ids /\ queue' = queue
  BY DEF StopRewriting, TypeOK
<1> QED
  BY <1>3, <1>4 DEF QueueTyped, TypeOK

\* The steps of a task in the queue, as steps on the file.
LEMMA EnqueueRewrites ==
    ASSUME TypeOK, NEW t \in Tasks, Rewriting(t) \/ Enqueue(t)
    PROVE  pc[t] = "queueing" /\ t \in Rewriters /\ job[t].id \in Ids /\ Rewrites(t, job[t].id)
<1>1. pc[t] = "queueing"
  BY DEF Rewriting, Enqueue
<1>2. job[t].id \in Ids
  BY <1>1, Busy
<1>3. Rewrites(t, job[t].id)
  BY DEF Rewriting, Enqueue, Rewrites, Entries
<1> QED
  BY <1>1, <1>2, <1>3 DEF Rewriters

\* What the human does to the file.
LEMMA ResolveRewrites ==
    ASSUME NEW id \in Ids, Resolve(id)
    PROVE  Reviewer \in Rewriters /\ (Rewrites(Reviewer, id) \/ StopRewriting({Reviewer}))
BY DEF Resolve, Rewrites, Rewriters, Entries

LEMMA EnqueueTyped ==
    ASSUME TypeOK, NEW t \in Tasks, Rewriting(t) \/ Enqueue(t)
    PROVE  TypeOK'
<1>1. TasksTyped'
  <2>1. CASE Enqueue(t)
    BY <2>1, LeaveTyped DEF Enqueue
  <2>2. CASE Rewriting(t)
    BY <2>2 DEF Rewriting, TypeOK, TasksTyped
  <2> QED
    BY <2>1, <2>2
<1>2. QueueTyped'
  BY EnqueueRewrites, RewriteTyped
<1>3. UNCHANGED <<rows, decisions, receipts, freeze, day, moved, lost, escaped>>
  BY DEF Rewriting, Enqueue
<1> QED
  BY <1>1, <1>2, <1>3 DEF TypeOK, TasksTyped, QueueTyped

LEMMA RailAnswersTyped ==
    ASSUME TypeOK, NEW t \in Tasks, RailAnswers(t)
    PROVE  TypeOK'
<1>1. pc[t] # "idle" /\ Go(t, "answered")
  BY DEF RailAnswers
<1>2. job[t] \in Job /\ job[t].amount \in Nat
  BY <1>1, Busy DEF Job
<1>3. CASE UNCHANGED <<moved, job>>
  <2>1. TasksTyped'
    BY <1>1, <1>3, SameTyped DEF Places, Running
  <2>2. StoresTyped'
    BY <1>3 DEF TypeOK, StoresTyped, QueueTyped, review, RailAnswers
  <2> QED
    BY <2>1, <2>2 DEF TypeOK, TasksTyped, StoresTyped, QueueTyped
<1>4. ASSUME NEW extra \in Drift,
             moved' = [moved EXCEPT ![job[t].id] = @ + (job[t].amount + extra)],
             job' = [job EXCEPT ![t].success = TRUE,
                                ![t].charged = job[t].amount + extra]
      PROVE  TypeOK'
  <2> DEFINE j == [job[t] EXCEPT !.success = TRUE, !.charged = job[t].amount + extra]
  <2>1. job[t].amount + extra \in Nat
    BY <1>2, LedgerAssumption DEF LedgerAssumption
  <2>2. j \in Job /\ j.id = job[t].id
    BY <1>2, <2>1 DEF Job
  <2>3. job' = [job EXCEPT ![t] = j]
    BY <1>4 DEF TypeOK
  <2> HIDE DEF j
  <2>4. TasksTyped'
    BY <1>1, <2>2, <2>3, GoTyped DEF Places, Running
  <2>5. moved[job[t].id] + (job[t].amount + extra) \in Nat
    BY <1>1, <2>1, Busy DEF TypeOK
  <2>6. moved' \in [Ids -> Nat]
    BY <1>4, <2>5 DEF TypeOK
  <2>7. StoresTyped'
    BY <2>6 DEF TypeOK, StoresTyped, QueueTyped, review, RailAnswers
  <2> QED
    BY <2>4, <2>7 DEF TypeOK, TasksTyped, StoresTyped, QueueTyped
<1> QED
  BY <1>3, <1>4 DEF RailAnswers

LEMMA RailRaisesTyped ==
    ASSUME TypeOK, NEW t \in Tasks, RailRaises(t)
    PROVE  TypeOK'
<1>1. job[t].id \in Ids /\ job[t].amount \in Nat
  BY Busy DEF RailRaises, Job
<1>2. TasksTyped'
  BY LeaveTyped DEF RailRaises
<1>3. moved' \in [Ids -> Nat]
  BY <1>1 DEF RailRaises, TypeOK
<1>4. StoresTyped'
  BY <1>1, <1>3 DEF TypeOK, StoresTyped, QueueTyped, review, RailRaises
<1> QED
  BY <1>2, <1>4 DEF TypeOK, TasksTyped, StoresTyped, QueueTyped

LEMMA MarkSettledTyped ==
    ASSUME TypeOK, NEW t \in Tasks, MarkSettled(t)
    PROVE  TypeOK'
<1>1. TasksTyped'
  BY SameTyped DEF MarkSettled, Places, Running
<1>2. job[t].id \in Ids /\ job[t].success \in BOOLEAN
  BY Busy DEF MarkSettled, Job
<1> DEFINE old == rows[job[t].id]
           r == [old EXCEPT !.settled = TRUE, !.success = job[t].success,
                            !.paid = IF Reported(t) = NotReported THEN old.paid
                                     ELSE Reported(t)]
<1>3. old \in Row
  BY <1>2 DEF TypeOK
<1>4. (IF Reported(t) = NotReported THEN old.paid ELSE Reported(t)) \in Nat \cup {NotReported}
  BY <1>3, ReportedType DEF MarkSettled, Row
<1>5. rows' = [rows EXCEPT ![job[t].id] = r]
  BY <1>2 DEF MarkSettled, TypeOK
<1>6. r \in Row
  <2> HIDE DEF old
  <2> QED
    BY <1>2, <1>3, <1>4 DEF Row
<1> HIDE DEF r
<1>7. rows' \in [Ids -> Row]
  BY <1>5, <1>6 DEF TypeOK
<1>8. StoresTyped'
  BY <1>7 DEF TypeOK, StoresTyped, QueueTyped, review, MarkSettled
<1> QED
  BY <1>1, <1>8 DEF TypeOK, TasksTyped, StoresTyped, QueueTyped

LEMMA AppendSettlementTyped ==
    ASSUME TypeOK, NEW t \in Tasks, AppendSettlement(t)
    PROVE  TypeOK'
<1>1. TasksTyped'
  BY LeaveTyped DEF AppendSettlement
<1>2. [id |-> job[t].id, success |-> job[t].success, paid |-> Reported(t)] \in Receipt
  BY Busy, ReportedType DEF AppendSettlement, Receipt, Job
<1>3. receipts' \subseteq Receipt
  BY <1>2 DEF AppendSettlement, TypeOK
<1>4. StoresTyped'
  BY <1>3 DEF TypeOK, StoresTyped, QueueTyped, review, AppendSettlement
<1> QED
  BY <1>1, <1>4 DEF TypeOK, TasksTyped, StoresTyped, QueueTyped

LEMMA CrashTyped ==
    ASSUME TypeOK, NEW p \in Processes, Crash(p)
    PROVE  TypeOK'
<1>1. TasksTyped'
  <2>1. NoJob.id = None
    BY DEF NoJob
  <2> QED
    BY <2>1, Records DEF Crash, TypeOK, TasksTyped, Places
<1>2. {job[t].id : t \in Tasks} \ {None} \subseteq Ids
  BY DEF TypeOK, Job
<1>3. lost' \subseteq Ids
  BY <1>2 DEF Crash, TypeOK
<1>4. QueueTyped'
  BY StopTyped DEF Crash
<1>5. StoresTyped'
  BY <1>3, <1>4 DEF TypeOK, StoresTyped, Crash
<1> QED
  BY <1>1, <1>5 DEF TypeOK, TasksTyped, StoresTyped, QueueTyped

\* A step that is no task's: the operator, a human, the clock.
Around ==
    \/ \E id \in Ids : Resolve(id)
    \/ BeginFreeze \/ BeginClear \/ FinishWrite \/ NextDay

LEMMA AroundTyped ==
    ASSUME TypeOK, Around
    PROVE  TypeOK'
<1>1. ASSUME NEW id \in Ids, Resolve(id) PROVE TypeOK'
  <2>1. QueueTyped'
    BY <1>1, ResolveRewrites, RewriteTyped, StopTyped
  <2>2. UNCHANGED <<rows, decisions, receipts, freeze, day, pc, job, moved, lost, escaped>>
    BY <1>1 DEF Resolve
  <2> QED
    BY <2>1, <2>2 DEF TypeOK, QueueTyped
<1>2. CASE BeginFreeze
  BY <1>2 DEF TypeOK, BeginFreeze, review
<1>3. CASE BeginClear
  BY <1>3 DEF TypeOK, BeginClear, review
<1>4. CASE FinishWrite
  BY <1>4 DEF TypeOK, FinishWrite, review
<1>5. CASE NextDay
  BY <1>5, LedgerAssumption DEF TypeOK, NextDay, LedgerAssumption, review
<1> QED
  BY <1>1, <1>2, <1>3, <1>4, <1>5 DEF Around

LEMMA TypeStep ==
    ASSUME TypeOK, [Next]_vars
    PROVE  TypeOK'
<1>1. ASSUME NEW t \in Tasks, Snapshot(t) \/ Work(t) PROVE TypeOK'
  BY <1>1, SnapshotTyped, DecideTyped, ReadFreezeTyped, CheckReplayTyped, ConsultTyped,
     RecordRowTyped, AppendDecisionTyped, EnqueueTyped, RailAnswersTyped,
     RailRaisesTyped, MarkSettledTyped, AppendSettlementTyped DEF Work
<1>2. ASSUME NEW p \in Processes, Crash(p) PROVE TypeOK'
  BY <1>2, CrashTyped
<1>3. CASE Around
  BY <1>3, AroundTyped
<1>4. CASE UNCHANGED vars
  BY <1>4 DEF TypeOK, vars, review
<1> QED
  BY <1>1, <1>2, <1>3, <1>4 DEF Next, Around

\* Every variable keeps its type, whether ids are reused or not.
THEOREM LedgerTypeOK == Spec => []TypeOK
<1>1. TypeOK /\ [Next]_vars => TypeOK'
  BY TypeStep
<1> QED
  BY <1>1, TypeInit, PTL DEF Spec

-----------------------------------------------------------------------------
(***************************************************************************)
(* Standing is inductive when no id is used twice.                         *)
(***************************************************************************)

\* A step of task t touches no other task and no other request, and takes no entry
\* out of the journal.
OwnStep(t) ==
    /\ \A u \in Tasks \ {t} : pc'[u] = pc[u] /\ job'[u] = job[u]
    /\ \A id \in Ids \ {job[t].id} : rows'[id] = rows[id] /\ moved'[id] = moved[id]
    /\ decisions \subseteq decisions'

\* Every step of a task is its own step.
LEMMA WorkIsOwn ==
    ASSUME TypeOK, NEW t \in Tasks, Work(t)
    PROVE  OwnStep(t) /\ pc[t] # "idle"
<1>1. pc[t] # "idle"
  BY DEF Work, Decide, ReadFreeze, CheckReplay, Consult, RecordRow, AppendDecision, Rewriting, Enqueue,
         RailAnswers, RailRaises, MarkSettled, AppendSettlement
<1>2. \A u \in Tasks \ {t} : pc'[u] = pc[u]
  BY DEF Work, Decide, ReadFreeze, CheckReplay, Consult, RecordRow, AppendDecision, Rewriting, Enqueue,
         RailAnswers, RailRaises, MarkSettled, AppendSettlement, Go, Leave, TypeOK
<1>3. \A u \in Tasks \ {t} : job'[u] = job[u]
  <2>1. CASE Decide(t)
    BY <2>1 DEF Decide, TypeOK
  <2>2. CASE RailAnswers(t)
    BY <2>2 DEF RailAnswers, TypeOK
  <2>3. CASE ~Decide(t) /\ ~RailAnswers(t)
    BY <2>3 DEF Work, ReadFreeze, CheckReplay, Consult, RecordRow, AppendDecision, Rewriting, Enqueue,
                RailRaises, MarkSettled, AppendSettlement, Leave, TypeOK
  <2> QED
    BY <2>1, <2>2, <2>3
<1>4. \A id \in Ids \ {job[t].id} : rows'[id] = rows[id]
  <2>1. CASE RecordRow(t)
    BY <2>1 DEF RecordRow, TypeOK
  <2>2. CASE MarkSettled(t)
    BY <2>2 DEF MarkSettled, TypeOK
  <2>3. CASE UNCHANGED rows
    BY <2>3
  <2> QED
    BY <2>1, <2>2, <2>3
       DEF Work, Decide, ReadFreeze, CheckReplay, Consult, AppendDecision, Rewriting, Enqueue,
           RailAnswers, RailRaises, AppendSettlement
<1>5. \A id \in Ids \ {job[t].id} : moved'[id] = moved[id]
  <2>1. CASE RailAnswers(t)
    BY <2>1 DEF RailAnswers, TypeOK
  <2>2. CASE RailRaises(t)
    BY <2>2 DEF RailRaises, TypeOK
  <2>3. CASE UNCHANGED moved
    BY <2>3
  <2> QED
    BY <2>1, <2>2, <2>3
       DEF Work, Decide, ReadFreeze, CheckReplay, Consult, RecordRow, AppendDecision, Rewriting, Enqueue,
           MarkSettled, AppendSettlement
<1>6. decisions \subseteq decisions'
  BY DEF Work, Decide, ReadFreeze, CheckReplay, Consult, RecordRow, AppendDecision, Rewriting, Enqueue,
         RailAnswers, RailRaises, MarkSettled, AppendSettlement
<1> QED
  BY <1>1, <1>2, <1>3, <1>4, <1>5, <1>6 DEF OwnStep

LEMMA OthersStand ==
    ASSUME TypeOK, Standing, NEW t \in Tasks, OwnStep(t), NEW u \in Tasks \ {t}
    PROVE  OnRecord(u)'
<1>1. pc'[u] = pc[u] /\ job'[u] = job[u]
  BY DEF OwnStep
<1>2. CASE pc[u] = "idle"
  BY <1>1, <1>2 DEF OnRecord
<1>3. CASE pc[u] # "idle"
  <2>1. job[u].id \in Ids /\ job[u].id # None
    BY <1>3, Busy, Records
  <2>2. job[u].id # job[t].id
    BY <2>1 DEF Standing, Apart
  <2>3. /\ rows'[job[u].id] = rows[job[u].id]
        /\ moved'[job[u].id] = moved[job[u].id]
    BY <2>1, <2>2 DEF OwnStep
  <2>4. decisions \subseteq decisions'
    BY DEF OwnStep
  <2>5. Reported(u)' = Reported(u)
    BY <1>1 DEF Reported
  <2>6. OnRecord(u)
    BY DEF Standing
  <2> QED
    BY <1>1, <2>3, <2>4, <2>5, <2>6
       DEF OnRecord, Asked, Recorded, Sent, Charged, Settled
<1> QED
  BY <1>2, <1>3

\* It is enough to look at the task that moves.
LEMMA TaskStands ==
    ASSUME TypeOK, TypeOK', Standing, NEW t \in Tasks, Work(t),
           job'[t].id \in {job[t].id, None}, OnRecord(t)',
           rows'[job[t].id] = NoRow => moved'[job[t].id] = 0
    PROVE  Standing'
<1>1. OwnStep(t)
  BY WorkIsOwn
<1>2. Apart'
  BY <1>1 DEF Standing, Apart, OwnStep
<1>3. Untouched'
  BY <1>1 DEF Standing, Untouched, OwnStep
<1>4. \A u \in Tasks : OnRecord(u)'
  BY <1>1, OthersStand
<1> QED
  BY <1>2, <1>3, <1>4 DEF Standing

LEMMA SnapshotStands ==
    ASSUME ~ReuseIds, TypeOK, Standing, NEW t \in Tasks, Snapshot(t)
    PROVE  Standing'
<1>1. PICK id \in Askable, a \in Amounts :
        job' = [job EXCEPT ![t] = [NoJob EXCEPT !.id = id, !.amount = a,
                   !.verdict = IF Fits(a) THEN "APPROVE" ELSE "REVIEW"]]
  BY DEF Snapshot
<1> DEFINE j == [NoJob EXCEPT !.id = id, !.amount = a,
                   !.verdict = IF Fits(a) THEN "APPROVE" ELSE "REVIEW"]
<1>2. j.id = id /\ j.success = FALSE /\ j.amount = a
  BY DEF NoJob
<1>3. job' = [job EXCEPT ![t] = j]
  BY <1>1
<1> HIDE DEF j
<1>4. id \in Ids /\ rows[id] = NoRow /\ id \notin Carried
  BY DEF Askable
<1>5. pc' = [pc EXCEPT ![t] = "snapshot"] /\ UNCHANGED <<rows, moved, decisions>>
  BY DEF Snapshot, Go
<1>6. OwnStep(t)
  BY <1>3, <1>5 DEF OwnStep, TypeOK
<1>7. /\ job'[t].id = id /\ ~job'[t].success /\ job'[t].amount = a
      /\ pc'[t] = "snapshot"
  BY <1>2, <1>3, <1>5 DEF TypeOK
<1>8. OnRecord(t)'
  BY <1>4, <1>5, <1>7 DEF OnRecord, Asked
<1>9. Apart'
  BY <1>4, <1>6, <1>7, Records DEF Standing, Apart, Carried, OwnStep
<1>10. Untouched'
  BY <1>5 DEF Standing, Untouched
<1> QED
  BY <1>6, <1>8, <1>9, <1>10, OthersStand DEF Standing

\* The steps between the snapshot and the row move the request on and leave the
\* stores alone.
LEMMA AskingStands ==
    ASSUME TypeOK, TypeOK', Standing, NEW t \in Tasks,
           pc[t] \in {"snapshot", "decided", "checked"},
           Decide(t) \/ ReadFreeze(t) \/ CheckReplay(t) \/ Consult(t)
    PROVE  Standing'
<1>1. UNCHANGED <<rows, moved, decisions>>
  BY DEF Decide, ReadFreeze, CheckReplay, Consult
<1>2. \E place \in {"decided", "checked", "ready"} : pc' = [pc EXCEPT ![t] = place]
  BY DEF Decide, ReadFreeze, CheckReplay, Consult, Go
<1>3. /\ job'[t].id = job[t].id /\ job'[t].success = job[t].success
      /\ job'[t].amount = job[t].amount
  <2>1. CASE Decide(t)
    <3>1. PICK rule \in PolicyVerdicts :
            job' = [job EXCEPT ![t].verdict = Narrower(rule, @), ![t].day = day]
      BY <2>1 DEF Decide
    <3> DEFINE j == [job[t] EXCEPT !.verdict = Narrower(rule, job[t].verdict), !.day = day]
    <3>2. j.id = job[t].id /\ j.success = job[t].success /\ j.amount = job[t].amount
      BY Busy DEF Job
    <3>3. job' = [job EXCEPT ![t] = j]
      BY <3>1 DEF TypeOK
    <3> HIDE DEF j
    <3> QED
      BY <3>2, <3>3 DEF TypeOK
  <2>2. CASE ReadFreeze(t)
    BY <2>2 DEF ReadFreeze, TypeOK
  <2>3. CASE CheckReplay(t)
    BY <2>3 DEF CheckReplay, TypeOK
  <2>4. CASE Consult(t)
    BY <2>4 DEF Consult, TypeOK
  <2> QED
    BY <2>1, <2>2, <2>3, <2>4
<1>4. pc'[t] \in {"decided", "checked", "ready"}
  BY <1>2 DEF TypeOK
<1>5. rows[job[t].id] = NoRow /\ ~job[t].success /\ job[t].amount \in Amounts
  BY DEF Standing, OnRecord, Asked
<1>6. job[t].id \in Ids
  BY Busy
<1>7. moved'[job[t].id] = 0
  BY <1>1, <1>5, <1>6 DEF Standing, Untouched
<1>8. OnRecord(t)'
  BY <1>1, <1>3, <1>4, <1>5 DEF OnRecord, Asked
<1> QED
  BY <1>3, <1>7, <1>8, TaskStands DEF Work

LEMMA SameStands ==
    ASSUME Standing, UNCHANGED <<rows, decisions, pc, job, moved>>
    PROVE  Standing'
BY DEF Standing, Apart, Untouched, OnRecord, Asked, Recorded, Sent, Charged, Settled,
       Reported

\* A task that leaves has nothing to stand for.
LEMMA LeaveStands ==
    ASSUME TypeOK, TypeOK', Standing, NEW t \in Tasks, Work(t), Leave(t),
           rows'[job[t].id] = NoRow => moved'[job[t].id] = 0
    PROVE  Standing'
<1>1. pc'[t] = "idle"
  BY DEF Leave, Go, TypeOK
<1>2. job'[t].id = None
  BY DEF Leave, NoJob, TypeOK
<1>3. OnRecord(t)'
  BY <1>1 DEF OnRecord
<1> QED
  BY <1>2, <1>3, TaskStands

LEMMA RecordRowStands ==
    ASSUME TypeOK, TypeOK', Standing, NEW t \in Tasks, RecordRow(t)
    PROVE  Standing'
<1>1. pc[t] = "ready" /\ job' = job /\ UNCHANGED <<moved, decisions>>
  BY DEF RecordRow
<1>2. job[t].id \in Ids /\ job[t].verdict \in Verdicts
  BY <1>1, Busy
<1>3. moved[job[t].id] = 0 /\ ~job[t].success /\ job[t].amount \in Amounts
  BY <1>1, <1>2 DEF Standing, OnRecord, Asked, Untouched
<1> DEFINE r == [NoRow EXCEPT !.verdict = job[t].verdict, !.amount = job[t].amount,
                              !.day = job[t].day]
<1>4. r.verdict = job[t].verdict /\ r.settled = FALSE /\ r.paid = NotReported
  BY DEF NoRow
<1>5. rows' = [rows EXCEPT ![job[t].id] = r]
  BY DEF RecordRow
<1> HIDE DEF r
<1>6. pc' = [pc EXCEPT ![t] = "recorded"]
  BY DEF RecordRow, Go
<1>7. rows'[job[t].id] = r /\ pc'[t] = "recorded"
  BY <1>2, <1>5, <1>6 DEF TypeOK
<1>8. OnRecord(t)'
  BY <1>1, <1>3, <1>4, <1>7 DEF OnRecord, Recorded
<1> QED
  BY <1>1, <1>3, <1>8, TaskStands DEF Work

LEMMA AppendDecisionStands ==
    ASSUME TypeOK, TypeOK', Standing, NEW t \in Tasks, AppendDecision(t)
    PROVE  Standing'
<1>1. /\ pc[t] = "recorded"
      /\ UNCHANGED <<rows, moved>>
      /\ decisions' = decisions \cup {[id |-> job[t].id, verdict |-> job[t].verdict]}
  BY DEF AppendDecision
<1>2. Recorded(t) /\ moved[job[t].id] = 0 /\ ~job[t].success /\ job[t].amount \in Amounts
  BY <1>1 DEF Standing, OnRecord
<1>3. CASE Leave(t)
  BY <1>1, <1>2, <1>3, LeaveStands DEF Work
<1>4. CASE job[t].verdict = "APPROVE" /\ Go(t, "paying") /\ UNCHANGED job
  <2>1. pc'[t] = "paying"
    BY <1>4 DEF Go, TypeOK
  <2>2. Recorded(t)' /\ Sent(t)'
    BY <1>1, <1>2, <1>4 DEF Recorded, Sent
  <2>3. OnRecord(t)'
    BY <1>1, <1>2, <1>4, <2>1, <2>2 DEF OnRecord
  <2> QED
    BY <1>1, <1>2, <1>4, <2>3, TaskStands DEF Work
<1>5. CASE NeedsHuman(job[t].verdict) /\ Go(t, "queueing") /\ UNCHANGED job
  <2>1. pc'[t] = "queueing"
    BY <1>5 DEF Go, TypeOK
  <2>2. Recorded(t)' /\ NeedsHuman(job[t].verdict)'
    BY <1>1, <1>2, <1>5 DEF Recorded
  <2>3. OnRecord(t)'
    BY <1>1, <1>2, <1>5, <2>1, <2>2 DEF OnRecord
  <2> QED
    BY <1>1, <1>2, <1>5, <2>3, TaskStands DEF Work
<1> QED
  BY <1>3, <1>4, <1>5 DEF AppendDecision

LEMMA EnqueueStands ==
    ASSUME TypeOK, TypeOK', Standing, NEW t \in Tasks, Rewriting(t) \/ Enqueue(t)
    PROVE  Standing'
<1>1. pc[t] = "queueing" /\ UNCHANGED <<rows, moved, decisions>>
  BY DEF Rewriting, Enqueue
<1>2. CASE Rewriting(t)
  BY <1>1, <1>2, SameStands DEF Rewriting
<1>3. CASE Enqueue(t)
  <2>1. moved[job[t].id] = 0
    BY <1>1 DEF Standing, OnRecord
  <2>2. Leave(t)
    BY <1>3 DEF Enqueue
  <2> QED
    BY <1>1, <1>3, <2>1, <2>2, LeaveStands DEF Work
<1> QED
  BY <1>2, <1>3

LEMMA RailAnswersStands ==
    ASSUME TypeOK, TypeOK', Standing, NEW t \in Tasks, RailAnswers(t)
    PROVE  Standing'
<1>1. /\ pc[t] = "paying"
      /\ pc' = [pc EXCEPT ![t] = "answered"]
      /\ UNCHANGED <<rows, decisions>>
  BY DEF RailAnswers, Go
<1>2. /\ Recorded(t) /\ Sent(t) /\ moved[job[t].id] = 0
      /\ ~job[t].success /\ job[t].amount \in Amounts
  BY <1>1 DEF Standing, OnRecord
<1>3. job[t].id \in Ids /\ job[t] \in Job /\ job[t].amount \in Nat
  BY <1>1, Busy DEF Job
<1>4. rows'[job[t].id] # NoRow
  <2>1. NoRow.verdict = None
    BY DEF NoRow
  <2> QED
    BY <1>1, <1>2, <2>1 DEF Sent, None
<1>5. pc'[t] = "answered"
  BY <1>1 DEF TypeOK
<1>6. /\ job'[t].id = job[t].id
      /\ job'[t].verdict = job[t].verdict
      /\ job'[t].amount = job[t].amount
      /\ Charged(t)'
  <2>1. CASE UNCHANGED <<moved, job>>
    BY <1>2, <2>1 DEF Charged
  <2>2. ASSUME NEW extra \in Drift,
               moved' = [moved EXCEPT ![job[t].id] = @ + (job[t].amount + extra)],
               job' = [job EXCEPT ![t].success = TRUE,
                                  ![t].charged = job[t].amount + extra]
        PROVE  /\ job'[t].id = job[t].id
               /\ job'[t].verdict = job[t].verdict
               /\ job'[t].amount = job[t].amount
               /\ Charged(t)'
    <3> DEFINE j == [job[t] EXCEPT !.success = TRUE, !.charged = job[t].amount + extra]
    <3>1. job[t].amount + extra \in Nat /\ job[t].amount + extra >= job[t].amount
      BY <1>3, LedgerAssumption DEF LedgerAssumption
    <3>2. /\ j.id = job[t].id /\ j.verdict = job[t].verdict /\ j.amount = job[t].amount
          /\ j.success = TRUE /\ j.charged = job[t].amount + extra
      BY <1>3 DEF Job
    <3>3. job' = [job EXCEPT ![t] = j]
      BY <2>2 DEF TypeOK
    <3> HIDE DEF j
    <3>4. job'[t] = j
      BY <3>3 DEF TypeOK
    <3>5. moved'[job[t].id] = job[t].amount + extra
      BY <1>2, <1>3, <2>2, <3>1 DEF TypeOK
    <3>6. Charged(t)'
      BY <3>1, <3>2, <3>4, <3>5 DEF Charged
    <3> QED
      BY <3>2, <3>4, <3>6
  <2> QED
    BY <2>1, <2>2 DEF RailAnswers
<1>7. Recorded(t)' /\ Sent(t)'
  BY <1>1, <1>2, <1>6 DEF Recorded, Sent
<1>8. OnRecord(t)'
  BY <1>2, <1>5, <1>6, <1>7 DEF OnRecord
<1> QED
  BY <1>1, <1>4, <1>6, <1>8, TaskStands DEF Work

LEMMA RailRaisesStands ==
    ASSUME TypeOK, TypeOK', Standing, NEW t \in Tasks, RailRaises(t)
    PROVE  Standing'
<1>1. pc[t] = "paying" /\ Leave(t) /\ UNCHANGED <<rows, decisions>>
  BY DEF RailRaises
<1>2. rows[job[t].id].verdict = "APPROVE"
  BY <1>1 DEF Standing, OnRecord, Sent
<1>3. rows'[job[t].id] # NoRow
  BY <1>1, <1>2 DEF NoRow, None
<1> QED
  BY <1>1, <1>3, LeaveStands DEF Work

LEMMA MarkSettledStands ==
    ASSUME TypeOK, TypeOK', Standing, NEW t \in Tasks, MarkSettled(t)
    PROVE  Standing'
<1>1. /\ pc[t] = "answered"
      /\ pc' = [pc EXCEPT ![t] = "settled"]
      /\ UNCHANGED <<job, moved, decisions>>
  BY DEF MarkSettled, Go
<1>2. Recorded(t) /\ Sent(t) /\ Charged(t) /\ job[t].amount \in Amounts
  BY <1>1 DEF Standing, OnRecord
<1>3. job[t].id \in Ids
  BY <1>1, Busy
<1> DEFINE old == rows[job[t].id]
           r == [old EXCEPT !.settled = TRUE, !.success = job[t].success,
                            !.paid = IF Reported(t) = NotReported THEN old.paid
                                     ELSE Reported(t)]
<1>4. rows' = [rows EXCEPT ![job[t].id] = r]
  BY <1>3 DEF MarkSettled, TypeOK
<1>5. /\ r.settled /\ r.success = job[t].success
      /\ r.paid = Reported(t) /\ r.verdict = "APPROVE"
  <2>1. old \in Row
    BY <1>3 DEF TypeOK
  <2>2. old.paid = NotReported /\ old.verdict = "APPROVE"
    BY <1>2 DEF Recorded, Sent
  <2> HIDE DEF old
  <2> QED
    BY <2>1, <2>2 DEF Row
<1> HIDE DEF r
<1>6. rows'[job[t].id] = r
  BY <1>3, <1>4 DEF TypeOK
<1>7. pc'[t] = "settled"
  BY <1>1 DEF TypeOK
<1>8. Settled(t)' /\ Sent(t)' /\ Charged(t)'
  BY <1>1, <1>2, <1>5, <1>6 DEF Settled, Sent, Charged, Reported
<1>9. OnRecord(t)'
  BY <1>1, <1>2, <1>7, <1>8 DEF OnRecord
<1>10. rows'[job[t].id] # NoRow
  BY <1>5, <1>6 DEF NoRow
<1> QED
  BY <1>1, <1>9, <1>10, TaskStands DEF Work

LEMMA AppendSettlementStands ==
    ASSUME TypeOK, TypeOK', Standing, NEW t \in Tasks, AppendSettlement(t)
    PROVE  Standing'
<1>1. pc[t] = "settled" /\ Leave(t) /\ UNCHANGED <<rows, moved, decisions>>
  BY DEF AppendSettlement
<1>2. rows'[job[t].id] # NoRow
  BY <1>1 DEF Standing, OnRecord, Settled, NoRow
<1> QED
  BY <1>1, <1>2, LeaveStands DEF Work

LEMMA CrashStands ==
    ASSUME TypeOK, Standing, NEW p \in Processes, Crash(p)
    PROVE  Standing'
<1>1. UNCHANGED <<rows, moved, decisions>>
  BY DEF Crash
<1>2. \A t \in Tasks : \/ pc'[t] = "idle" /\ job'[t].id = None
                       \/ pc'[t] = pc[t] /\ job'[t] = job[t]
  BY DEF Crash, NoJob
<1>3. Apart'
  BY <1>2 DEF Standing, Apart
<1>4. Untouched'
  BY <1>1 DEF Standing, Untouched
<1>5. ASSUME NEW t \in Tasks PROVE OnRecord(t)'
  <2>1. CASE pc'[t] = "idle"
    BY <2>1 DEF OnRecord
  <2>2. CASE pc'[t] = pc[t] /\ job'[t] = job[t]
    <3>1. OnRecord(t)
      BY DEF Standing
    <3> QED
      BY <1>1, <2>2, <3>1
         DEF OnRecord, Asked, Recorded, Sent, Charged, Settled, Reported
  <2> QED
    BY <1>2, <2>1, <2>2
<1> QED
  BY <1>3, <1>4, <1>5 DEF Standing

LEMMA StandingInit == Init => Standing
BY DEF Init, Standing, Apart, Untouched, OnRecord, NoJob

LEMMA StandingStep ==
    ASSUME ~ReuseIds, TypeOK, TypeOK', Standing, [Next]_vars
    PROVE  Standing'
<1>1. ASSUME NEW t \in Tasks, Snapshot(t) PROVE Standing'
  BY <1>1, SnapshotStands
<1>2. ASSUME NEW t \in Tasks, Decide(t) \/ ReadFreeze(t) \/ CheckReplay(t) \/ Consult(t)
      PROVE  Standing'
  <2>1. pc[t] \in {"snapshot", "decided", "checked"}
    BY <1>2 DEF Decide, ReadFreeze, CheckReplay, Consult
  <2> QED
    BY <1>2, <2>1, AskingStands
<1>3. ASSUME NEW t \in Tasks,
             RecordRow(t) \/ AppendDecision(t) \/ Rewriting(t) \/ Enqueue(t) \/ RailAnswers(t)
               \/ RailRaises(t) \/ MarkSettled(t) \/ AppendSettlement(t)
      PROVE  Standing'
  BY <1>3, RecordRowStands, AppendDecisionStands, EnqueueStands, RailAnswersStands,
     RailRaisesStands, MarkSettledStands, AppendSettlementStands
<1>4. ASSUME NEW p \in Processes, Crash(p) PROVE Standing'
  BY <1>4, CrashStands
<1>5. CASE Around
  <2>1. UNCHANGED <<rows, decisions, pc, job, moved>>
    BY <1>5 DEF Around, Resolve, BeginFreeze, BeginClear, FinishWrite, NextDay
  <2> QED
    BY <2>1, SameStands
<1>6. CASE UNCHANGED vars
  BY <1>6, SameStands DEF vars
<1> QED
  BY <1>1, <1>2, <1>3, <1>4, <1>5, <1>6 DEF Next, Work, Around

\* What every theorem below starts from.
IInv == TypeOK /\ Standing

LEMMA IInvInit == Init => IInv
BY TypeInit, StandingInit DEF IInv

LEMMA IInvStep ==
    ASSUME ~ReuseIds, IInv, [Next]_vars
    PROVE  IInv'
BY TypeStep, StandingStep DEF IInv

-----------------------------------------------------------------------------
(***************************************************************************)
(* Money that moved is accounted for.                                      *)
(***************************************************************************)
AccountedFor(id) ==
    moved[id] > 0 =>
        /\ [id |-> id, verdict |-> "APPROVE"] \in decisions
        /\ rows[id].verdict = "APPROVE"
        /\ \/ ~rows[id].settled
           \/ /\ rows[id].settled
              /\ rows[id].success
              /\ Counted(rows[id]) = moved[id]

LEMMA AccountedIs ==
    MovedIsAccountedFor <=> \A id \in Ids : AccountedFor(id)
BY DEF MovedIsAccountedFor, AccountedFor, UnreconciledRows, SettledRows, None

\* A step that leaves a request's row and money alone leaves it accounted for.
LEMMA AccountedKept ==
    ASSUME NEW id \in Ids, AccountedFor(id), decisions \subseteq decisions',
           rows'[id] = rows[id], moved'[id] = moved[id]
    PROVE  AccountedFor(id)'
BY DEF AccountedFor, Counted

LEMMA WorkAccounted ==
    ASSUME IInv, IInv', NEW t \in Tasks, Work(t), Reporting[t] = "actual",
           MovedIsAccountedFor
    PROVE  MovedIsAccountedFor'
<1>1. OwnStep(t) /\ pc[t] # "idle"
  BY WorkIsOwn DEF IInv
<1>2. job[t].id \in Ids
  BY <1>1, Busy DEF IInv
<1>3. ASSUME NEW id \in Ids, id # job[t].id PROVE AccountedFor(id)'
  BY <1>1, <1>3, AccountedIs, AccountedKept DEF OwnStep
<1>4. AccountedFor(job[t].id)
  BY <1>2, AccountedIs
<1>5. ASSUME NEW id \in Ids, id = job[t].id PROVE AccountedFor(id)'
  <2>1. CASE RailRaises(t)
    <3>1. pc[t] = "paying" /\ UNCHANGED <<rows, decisions>>
      BY <2>1 DEF RailRaises
    <3>2. Sent(t) /\ Recorded(t)
      BY <3>1 DEF IInv, Standing, OnRecord
    <3> QED
      BY <1>5, <3>1, <3>2 DEF AccountedFor, Sent, Recorded
  <2>2. CASE AppendSettlement(t) \/ Rewriting(t) \/ Enqueue(t)
    <3>1. UNCHANGED <<rows, moved, decisions>>
      BY <2>2 DEF AppendSettlement, Rewriting, Enqueue
    <3> QED
      BY <1>4, <1>5, <3>1, AccountedKept
  <2>3. CASE AppendDecision(t)
    <3>1. UNCHANGED <<rows, moved>> /\ decisions \subseteq decisions'
      BY <2>3 DEF AppendDecision
    <3> QED
      BY <1>4, <1>5, <3>1, AccountedKept
  <2>4. CASE Decide(t) \/ ReadFreeze(t) \/ CheckReplay(t) \/ Consult(t)
    <3>1. UNCHANGED <<rows, moved, decisions>>
      BY <2>4 DEF Decide, ReadFreeze, CheckReplay, Consult
    <3> QED
      BY <1>4, <1>5, <3>1, AccountedKept
  <2>5. CASE RecordRow(t)
    <3>1. pc[t] = "ready" /\ UNCHANGED moved
      BY <2>5 DEF RecordRow
    <3>2. moved[job[t].id] = 0
      BY <1>2, <3>1 DEF IInv, Standing, OnRecord, Asked, Untouched
    <3> QED
      BY <1>5, <3>1, <3>2 DEF AccountedFor
  <2>6. CASE RailAnswers(t)
    <3>1. pc[t] = "paying" /\ UNCHANGED <<rows, decisions>>
      BY <2>6 DEF RailAnswers
    <3>2. Sent(t) /\ Recorded(t)
      BY <3>1 DEF IInv, Standing, OnRecord
    <3> QED
      BY <1>5, <3>1, <3>2 DEF AccountedFor, Sent, Recorded
  <2>7. CASE MarkSettled(t)
    <3>1. pc' = [pc EXCEPT ![t] = "settled"] /\ UNCHANGED job
      BY <2>7 DEF MarkSettled, Go
    <3>2. pc'[t] = "settled" /\ job'[t] = job[t] /\ Reported(t)' = Reported(t)
      BY <3>1 DEF IInv, TypeOK, Reported
    <3>3. (Sent(t) /\ Charged(t) /\ Settled(t))'
      BY <3>2 DEF IInv, Standing, OnRecord
    <3>4. CASE job[t].success
      <4>1. /\ rows'[job[t].id].settled /\ rows'[job[t].id].success
            /\ rows'[job[t].id].paid = job[t].charged
            /\ moved'[job[t].id] = job[t].charged /\ job[t].charged \in Nat
        BY <3>2, <3>3, <3>4 DEF Charged, Settled, Reported
      <4>2. Counted(rows[job[t].id])' = moved'[job[t].id]
        BY <3>1, <4>1 DEF Counted, NotReported
      <4> QED
        BY <1>5, <3>2, <3>3, <4>1, <4>2 DEF AccountedFor, Sent
    <3>5. CASE ~job[t].success
      BY <1>5, <3>2, <3>3, <3>5 DEF AccountedFor, Charged
    <3> QED
      BY <3>4, <3>5
  <2> QED
    BY <2>1, <2>2, <2>3, <2>4, <2>5, <2>6, <2>7 DEF Work
<1>6. \A id \in Ids : AccountedFor(id)'
  BY <1>3, <1>5
<1> QED
  BY <1>6 DEF MovedIsAccountedFor, AccountedFor, UnreconciledRows, SettledRows, None

\* What Resolve, the kill switch, the clock, and a stuttering step leave alone.
LEMMA OtherSteps ==
    ASSUME Around \/ UNCHANGED vars
    PROVE  UNCHANGED <<rows, decisions, receipts, pc, job, moved, lost>>
BY DEF Around, Resolve, BeginFreeze, BeginClear, FinishWrite, NextDay, vars

LEMMA AccountedStep ==
    ASSUME ~ReuseIds, \A t \in Tasks : Reporting[t] = "actual",
           IInv, IInv', MovedIsAccountedFor, [Next]_vars
    PROVE  MovedIsAccountedFor'
<1>1. ASSUME NEW t \in Tasks, Work(t) PROVE MovedIsAccountedFor'
  BY <1>1, WorkAccounted
<1>2. CASE UNCHANGED <<rows, moved, decisions>>
  BY <1>2 DEF MovedIsAccountedFor, UnreconciledRows, SettledRows, Counted
<1> QED
  BY <1>1, <1>2, OtherSteps DEF Next, Around, Snapshot, Crash

\* Money that moved is accounted for whatever crashes or raises, for any number of
\* callers and processes: its APPROVE is journalled, and the table either counts
\* exactly that money as spent or reports the request as unreconciled.  The callers
\* report what moved and bring no id twice.
THEOREM LedgerMovedIsAccountedFor ==
    ASSUME ~ReuseIds, \A t \in Tasks : Reporting[t] = "actual"
    PROVE  Spec => []MovedIsAccountedFor
<1>1. Init => MovedIsAccountedFor
  BY DEF Init, MovedIsAccountedFor
<1>2. IInv /\ [Next]_vars => IInv'
  BY IInvStep
<1>3. IInv /\ IInv' /\ MovedIsAccountedFor /\ [Next]_vars => MovedIsAccountedFor'
  BY AccountedStep
<1> QED
  BY <1>1, <1>2, <1>3, IInvInit, PTL DEF Spec

-----------------------------------------------------------------------------
(***************************************************************************)
(* The journal and the table tell the same story.                          *)
(***************************************************************************)
ReceiptsOf(id) == {r \in receipts : r.id = id}

StoryOf(id) ==
    /\ \A r \in ReceiptsOf(id) : /\ rows[id].settled
                                 /\ rows[id].success = r.success
                                 /\ rows[id].paid = r.paid
    /\ rows[id].settled =>
          \/ ReceiptsOf(id) # {}
          \/ \E t \in Tasks : job[t].id = id /\ pc[t] = "settled"
          \/ id \in lost

LEMMA StoryIs ==
    ASSUME TypeOK
    PROVE  ReceiptsMatchRows <=> \A id \in Ids : StoryOf(id)
BY DEF ReceiptsMatchRows, StoryOf, ReceiptsOf, TypeOK, Receipt

\* A row that is not settled has no receipt yet.
LEMMA NoReceiptYet ==
    ASSUME NEW id \in Ids, StoryOf(id), ~rows[id].settled
    PROVE  ReceiptsOf(id) = {}
BY DEF StoryOf

LEMMA WorkStory ==
    ASSUME IInv, IInv', NEW t \in Tasks, Work(t), NEW id \in Ids, StoryOf(id)
    PROVE  StoryOf(id)'
<1>1. OwnStep(t) /\ pc[t] # "idle"
  BY WorkIsOwn DEF IInv
<1>2. job[t].id \in Ids
  BY <1>1, Busy DEF IInv
<1>3. lost \subseteq lost' /\ receipts \subseteq receipts'
  BY DEF Work, Decide, ReadFreeze, CheckReplay, Consult, RecordRow, AppendDecision, Rewriting, Enqueue,
         RailAnswers, RailRaises, MarkSettled, AppendSettlement
<1>4. \A r \in receipts' \ receipts : r.id = job[t].id
  BY DEF Work, Decide, ReadFreeze, CheckReplay, Consult, RecordRow, AppendDecision, Rewriting, Enqueue,
         RailAnswers, RailRaises, MarkSettled, AppendSettlement
<1>5. CASE id # job[t].id
  <2>1. ReceiptsOf(id)' = ReceiptsOf(id) /\ rows'[id] = rows[id]
    BY <1>1, <1>3, <1>4, <1>5 DEF OwnStep, ReceiptsOf
  <2>2. \A u \in Tasks : job[u].id = id => pc'[u] = pc[u] /\ job'[u] = job[u]
    BY <1>1, <1>5 DEF OwnStep
  <2> QED
    BY <1>3, <2>1, <2>2 DEF StoryOf
<1>6. CASE id = job[t].id
  <2>1. CASE RecordRow(t)
    <3>1. ~rows[id].settled /\ ~rows'[id].settled /\ UNCHANGED receipts
      BY <1>6, <2>1 DEF RecordRow, IInv, TypeOK, Standing, OnRecord, Asked, NoRow
    <3> QED
      BY <3>1, NoReceiptYet DEF StoryOf, ReceiptsOf
  <2>2. CASE MarkSettled(t)
    <3>1. ~rows[id].settled /\ UNCHANGED <<receipts, job>>
      BY <1>6, <2>2 DEF MarkSettled, IInv, Standing, OnRecord, Recorded
    <3>2. pc'[t] = "settled"
      BY <2>2 DEF MarkSettled, Go, IInv, TypeOK
    <3> QED
      BY <1>6, <3>1, <3>2, NoReceiptYet DEF StoryOf, ReceiptsOf
  <2>3. CASE AppendSettlement(t)
    <3> DEFINE r == [id |-> job[t].id, success |-> job[t].success, paid |-> Reported(t)]
    <3>1. pc[t] = "settled" /\ UNCHANGED rows /\ receipts' = receipts \cup {r}
      BY <2>3 DEF AppendSettlement
    <3>2. Settled(t)
      BY <3>1 DEF IInv, Standing, OnRecord
    <3>3. r.id = id /\ r.success = rows[id].success /\ r.paid = rows[id].paid
      BY <1>6, <3>2 DEF Settled
    <3> HIDE DEF r
    <3>4. ReceiptsOf(id)' = ReceiptsOf(id) \cup {r}
      BY <3>1, <3>3 DEF ReceiptsOf
    <3> QED
      BY <1>6, <3>1, <3>2, <3>3, <3>4 DEF StoryOf, Settled
  <2>4. CASE ~RecordRow(t) /\ ~MarkSettled(t) /\ ~AppendSettlement(t)
    <3>1. UNCHANGED <<rows, receipts>> /\ pc[t] # "settled"
      BY <2>4 DEF Work, Decide, ReadFreeze, CheckReplay, Consult, AppendDecision, Rewriting, Enqueue,
                  RailAnswers, RailRaises
    <3>2. \A u \in Tasks : pc[u] = "settled" => pc'[u] = pc[u] /\ job'[u] = job[u]
      BY <1>1, <3>1 DEF OwnStep
    <3> QED
      BY <1>3, <3>1, <3>2 DEF StoryOf, ReceiptsOf
  <2> QED
    BY <2>1, <2>2, <2>3, <2>4
<1> QED
  BY <1>5, <1>6

\* A crash takes no request and no receipt away, and remembers what it interrupted.
LEMMA CrashLoses ==
    ASSUME TypeOK, NEW p \in Processes, Crash(p), NEW t \in Tasks, job[t].id # None
    PROVE  job[t].id \in lost' \/ (pc'[t] = pc[t] /\ job'[t] = job[t])
BY DEF Crash, TypeOK

LEMMA ReceiptsStep ==
    ASSUME ~ReuseIds, IInv, IInv', ReceiptsMatchRows, [Next]_vars
    PROVE  ReceiptsMatchRows'
<1> SUFFICES ASSUME NEW id \in Ids PROVE StoryOf(id)'
  BY DEF ReceiptsMatchRows, StoryOf, ReceiptsOf, IInv, TypeOK, Receipt
<1>1. StoryOf(id)
  BY StoryIs DEF IInv
<1>2. ASSUME NEW t \in Tasks, Work(t) PROVE StoryOf(id)'
  BY <1>1, <1>2, WorkStory
<1>3. ASSUME NEW t \in Tasks, Snapshot(t) PROVE StoryOf(id)'
  <2>1. UNCHANGED <<rows, receipts, lost>> /\ pc[t] # "settled"
    BY <1>3 DEF Snapshot
  <2>2. \A u \in Tasks \ {t} : pc'[u] = pc[u] /\ job'[u] = job[u]
    BY <1>3 DEF Snapshot, Go, IInv, TypeOK
  <2> QED
    BY <1>1, <2>1, <2>2 DEF StoryOf, ReceiptsOf
<1>4. ASSUME NEW p \in Processes, Crash(p) PROVE StoryOf(id)'
  <2>1. UNCHANGED <<rows, receipts>> /\ lost \subseteq lost'
    BY <1>4 DEF Crash
  <2>2. \A t \in Tasks : job[t].id = id =>
          id \in lost' \/ (pc'[t] = pc[t] /\ job'[t] = job[t])
    BY <1>4, CrashLoses, Records DEF IInv
  <2> QED
    BY <1>1, <2>1, <2>2 DEF StoryOf, ReceiptsOf
<1>5. CASE Around \/ UNCHANGED vars
  <2>1. UNCHANGED <<rows, receipts, pc, job, lost>>
    BY <1>5, OtherSteps
  <2> QED
    BY <1>1, <2>1 DEF StoryOf, ReceiptsOf
<1> QED
  BY <1>2, <1>3, <1>4, <1>5 DEF Next, Around

\* The journal's receipts and the table's rows agree, and a settled row lacks its
\* receipt only while its task is about to write it or after an interruption, for any
\* number of callers and processes that bring no id twice.
THEOREM LedgerReceiptsMatchRows ==
    ASSUME ~ReuseIds
    PROVE  Spec => []ReceiptsMatchRows
<1>1. Init => ReceiptsMatchRows
  BY DEF Init, ReceiptsMatchRows, NoRow
<1>2. IInv /\ [Next]_vars => IInv'
  BY IInvStep
<1>3. IInv /\ IInv' /\ ReceiptsMatchRows /\ [Next]_vars => ReceiptsMatchRows'
  BY ReceiptsStep
<1> QED
  BY <1>1, <1>2, <1>3, IInvInit, PTL DEF Spec

-----------------------------------------------------------------------------
(***************************************************************************)
(* Turns: of the tasks of one process, one runs at a time.                 *)
(***************************************************************************)
Turns ==
    \A t, u \in Tasks :
        /\ t # u
        /\ ProcessOf[t] = ProcessOf[u]
        /\ pc[t] \in Running
        => pc[u] \notin Running

LEMMA ProcessesFinite ==
    /\ ProcessOf \in [Tasks -> Processes]
    /\ IsFiniteSet(Processes)
    /\ Cardinality(Processes) \in Nat
    /\ Cardinality(Processes) >= 1
<1>1. ProcessOf \in [Tasks -> Processes] /\ IsFiniteSet(Tasks) /\ Tasks # {}
  BY LedgerAssumption DEF LedgerAssumption
<1>2. ProcessOf \in Surjection(Tasks, Processes)
  BY <1>1 DEF Surjection, Processes
<1>3. IsFiniteSet(Processes) /\ Cardinality(Processes) \in Nat
  BY <1>1, <1>2, FS_Surjection, FS_CardinalityType
<1>4. Processes # {}
  BY <1>1 DEF Processes
<1>5. Cardinality(Processes) # 0
  BY <1>3, <1>4, FS_EmptySet
<1> QED
  BY <1>1, <1>3, <1>5

\* A set of processes.
LEMMA ProcessSet ==
    ASSUME NEW S, S \subseteq Processes
    PROVE  /\ IsFiniteSet(S)
           /\ Cardinality(S) \in Nat
           /\ Cardinality(S) <= Cardinality(Processes)
BY ProcessesFinite, FS_Subset, FS_CardinalityType

LEMMA TurnsInit == Init => Turns
BY DEF Init, Turns, Running

\* A task of another place than between two awaits takes turns before it is there.
LEMMA WorkInTurn ==
    ASSUME TypeOK, NEW t \in Tasks, Work(t)
    PROVE  pc[t] \in Running \/ pc'[t] \notin Running \/ InTurn(t)
BY DEF Work, Decide, ReadFreeze, CheckReplay, Consult, RecordRow, AppendDecision, Rewriting, Enqueue,
       RailAnswers, RailRaises, MarkSettled, AppendSettlement, Go, Leave, TypeOK, Running

LEMMA TurnsStep ==
    ASSUME TypeOK, Turns, [Next]_vars
    PROVE  Turns'
<1>1. ASSUME NEW t \in Tasks, pc[t] \in Running \/ pc'[t] \notin Running \/ InTurn(t),
             \A u \in Tasks \ {t} : pc'[u] = pc[u]
      PROVE  Turns'
  BY <1>1 DEF Turns, InTurn
<1>2. ASSUME NEW t \in Tasks, Work(t) PROVE Turns'
  BY <1>1, <1>2, WorkInTurn, WorkIsOwn DEF OwnStep
<1>3. ASSUME NEW t \in Tasks, Snapshot(t) PROVE Turns'
  <2>1. InTurn(t) /\ \A u \in Tasks \ {t} : pc'[u] = pc[u]
    BY <1>3 DEF Snapshot, Go, TypeOK
  <2> QED
    BY <1>1, <2>1
<1>4. ASSUME NEW p \in Processes, Crash(p) PROVE Turns'
  <2>1. \A t \in Tasks : pc'[t] = pc[t] \/ pc'[t] \notin Running
    BY <1>4 DEF Crash, Running
  <2> QED
    BY <2>1 DEF Turns
<1>5. CASE Around \/ UNCHANGED vars
  BY <1>5, OtherSteps DEF Turns
<1> QED
  BY <1>2, <1>3, <1>4, <1>5 DEF Next, Around

-----------------------------------------------------------------------------
(***************************************************************************)
(* The queue file: what two processes do not rewrite at once is kept.      *)
(***************************************************************************)

\* It is in the queue, or its entry was at stake when two rewrites overlapped.
Held(id) == InQueue(id) \/ id \in clashed

\* A task rewrites the file for the request it carries.
OwnFile == \A t \in Tasks : Open(t) => pc[t] = "queueing" /\ rewriting[t].id = job[t].id

\* Two that rewrite the file at once have put everything at stake.
Overlapped ==
    \A r, u \in Rewriters : r # u /\ Open(r) /\ Open(u) => AtStake \subseteq clashed

\* The copy that one alone will write back has everything that is in the file.
Complete(r) == \A id \in Ids \ clashed : InQueue(id) => HasEntry(rewriting[r].copy, id)

FileInv == OwnFile /\ Overlapped /\ \A r \in Rewriters : Open(r) => Complete(r)

LEMMA InQueueIsAtStake ==
    ASSUME NEW id \in Ids, InQueue(id)
    PROVE  id \in AtStake
BY DEF InQueue, AtStake, Open

\* A step on the file that puts nothing new at stake, by r alone.
Keeps(r) ==
    /\ AtStake' \subseteq AtStake
    /\ clashed \subseteq clashed'
    /\ \A u \in Rewriters : Open(u)' => Open(u)
    /\ \A u \in Rewriters \ {r} : rewriting'[u] = rewriting[u]

LEMMA KeepsOverlapped ==
    ASSUME Overlapped, NEW r \in Rewriters, Keeps(r)
    PROVE  Overlapped'
BY DEF Overlapped, Keeps

\* Whoever else has the file open then keeps a copy that is complete, in this sense.
LEMMA KeepsOthers ==
    ASSUME Overlapped, NEW r \in Rewriters, Open(r), Keeps(r), NEW u \in Rewriters \ {r}, Open(u)'
    PROVE  Complete(u)'
<1>1. AtStake \subseteq clashed
  BY DEF Overlapped, Keeps
<1>2. AtStake' \subseteq clashed'
  BY <1>1 DEF Keeps
<1>3. ASSUME NEW id \in Ids, InQueue(id)' PROVE id \in AtStake'
  BY <1>3 DEF InQueue, AtStake, Open
<1> QED
  BY <1>2, <1>3 DEF Complete

LEMMA LoadFile ==
    ASSUME TypeOK, Overlapped, \A u \in Rewriters : Open(u) => Complete(u),
           NEW r \in Rewriters, NEW id \in Ids, LoadQueue(r, id),
           \A u \in Rewriters \ {r} : Open(u) => Elsewhere(r, u)
    PROVE  /\ Overlapped'
           /\ \A u \in Rewriters : Open(u)' => Complete(u)'
           /\ \A i \in Ids : Held(i) => Held(i)'
<1>1. /\ ~Open(r) /\ queue' = queue /\ rewriting \in [Rewriters -> Rewrite]
      /\ rewriting' = [rewriting EXCEPT ![r] = [at |-> "loaded", id |-> id, copy |-> queue]]
      /\ clashed \subseteq clashed'
  BY DEF LoadQueue, TypeOK
<1>2. /\ rewriting'[r] = [at |-> "loaded", id |-> id, copy |-> queue]
      /\ \A u \in Rewriters \ {r} : rewriting'[u] = rewriting[u]
  BY <1>1
<1>3. AtStake' \subseteq AtStake \cup {id}
  BY <1>1, <1>2 DEF AtStake, Open, HasEntry
<1>4. ASSUME NEW u \in Rewriters \ {r}, Open(u)
      PROVE  AtStake' \subseteq clashed' /\ AtStake \subseteq clashed'
  <2>1. clashed' = clashed \cup AtStake \cup {id}
    BY <1>4 DEF LoadQueue
  <2> QED
    BY <1>3, <2>1
<1>5. \A i \in Ids : InQueue(i)' <=> InQueue(i)
  <2>1. rewriting[r].at # "truncated" /\ rewriting'[r].at # "truncated"
    BY <1>1, <1>2 DEF Open
  <2> QED
    BY <1>1, <1>2, <2>1 DEF InQueue, HasEntry
<1>6. Overlapped'
  <2> SUFFICES ASSUME NEW a \in Rewriters, NEW b \in Rewriters, a # b, Open(a)', Open(b)'
               PROVE  AtStake' \subseteq clashed'
    BY DEF Overlapped
  <2>1. CASE a # r
    BY <1>2, <1>4, <2>1 DEF Open
  <2>2. CASE b # r
    BY <1>2, <1>4, <2>2 DEF Open
  <2> QED
    BY <2>1, <2>2
<1>7. ASSUME NEW u \in Rewriters, Open(u)' PROVE Complete(u)'
  <2>1. CASE u # r
    BY <1>1, <1>2, <1>5, <1>7, <2>1 DEF Complete, Open
  <2>2. CASE u = r
    <3> SUFFICES ASSUME NEW i \in Ids \ clashed', InQueue(i)
                 PROVE  HasEntry(queue, i)
      BY <1>2, <1>5, <2>2 DEF Complete
    <3>1. ASSUME NEW v \in Rewriters, rewriting[v].at = "truncated" PROVE FALSE
      <4>1. v \in Rewriters \ {r} /\ Open(v)
        BY <1>1, <3>1 DEF Open
      <4> QED
        BY <1>4, <4>1, InQueueIsAtStake
    <3> QED
      BY <3>1 DEF InQueue
  <2> QED
    BY <2>1, <2>2
<1> QED
  BY <1>1, <1>5, <1>6, <1>7 DEF Held

LEMMA TruncateFile ==
    ASSUME TypeOK, Overlapped, NEW r \in Rewriters, Complete(r), TruncateQueue(r)
    PROVE  /\ Overlapped'
           /\ \A u \in Rewriters : Open(u)' => Complete(u)'
           /\ \A i \in Ids : Held(i) => Held(i)'
<1>1. /\ rewriting[r].at = "loaded" /\ queue' = NoEntries /\ clashed' = clashed
      /\ rewriting[r] \in Rewrite
      /\ rewriting' = [rewriting EXCEPT ![r].at = "truncated"]
      /\ rewriting \in [Rewriters -> Rewrite]
  BY DEF TruncateQueue, TypeOK
<1>2. /\ rewriting'[r].at = "truncated" /\ rewriting'[r].copy = rewriting[r].copy
      /\ rewriting'[r].id = rewriting[r].id
      /\ \A u \in Rewriters \ {r} : rewriting'[u] = rewriting[u]
  BY <1>1 DEF Rewrite
<1>3. \A i \in Ids : ~HasEntry(queue', i)
  BY <1>1 DEF NoEntries, HasEntry
<1>4. Open(r)
  BY <1>1 DEF Open
<1>5. Keeps(r)
  <2>1. \A u \in Rewriters : Open(u)' => Open(u)
    BY <1>2, <1>4 DEF Open
  <2>2. \A u \in Rewriters : rewriting'[u].copy = rewriting[u].copy /\ rewriting'[u].id = rewriting[u].id
    BY <1>2
  <2>3. AtStake' \subseteq AtStake
    BY <1>3, <2>1, <2>2 DEF AtStake
  <2> QED
    BY <1>1, <1>2, <2>1, <2>3 DEF Keeps
<1>6. Overlapped'
  BY <1>5, KeepsOverlapped
<1>7. ASSUME NEW i \in Ids \ clashed, HasEntry(rewriting[r].copy, i)
      PROVE  InQueue(i)'
  BY <1>2, <1>7 DEF InQueue
<1>8. \A i \in Ids : Held(i) => Held(i)'
  BY <1>1, <1>7 DEF Held, Complete
<1>9. Complete(r)'
  <2> SUFFICES ASSUME NEW i \in Ids \ clashed, InQueue(i)'
               PROVE  HasEntry(rewriting[r].copy, i)
    BY <1>1, <1>2 DEF Complete
  <2>1. PICK u \in Rewriters : rewriting'[u].at = "truncated" /\ HasEntry(rewriting'[u].copy, i)
    BY <1>3 DEF InQueue
  <2>2. CASE u # r
    <3>1. Open(u) /\ i \in AtStake
      BY <1>2, <2>1, <2>2 DEF Open, AtStake
    <3> QED
      BY <1>4, <2>2, <3>1 DEF Overlapped
  <2>3. CASE u = r
    BY <1>2, <2>1, <2>3
  <2> QED
    BY <2>2, <2>3
<1> QED
  BY <1>4, <1>5, <1>6, <1>8, <1>9, KeepsOthers

LEMMA WriteFile ==
    ASSUME TypeOK, Overlapped, NEW r \in Rewriters, Complete(r),
           NEW entry \in Entries \ {"absent"}, WriteQueue(r, entry)
    PROVE  /\ Overlapped'
           /\ \A u \in Rewriters : Open(u)' => Complete(u)'
           /\ \A i \in Ids : Held(i) => Held(i)'
           /\ \A i \in Ids : i = rewriting[r].id => Held(i)'
<1>1. /\ rewriting[r].at = "truncated" /\ clashed' = clashed
      /\ queue' = [rewriting[r].copy EXCEPT ![rewriting[r].id] = entry]
      /\ rewriting' = [rewriting EXCEPT ![r] = NoRewrite]
      /\ rewriting \in [Rewriters -> Rewrite] /\ rewriting[r] \in Rewrite
  BY DEF WriteQueue, TypeOK
<1>2. rewriting'[r] = NoRewrite /\ \A u \in Rewriters \ {r} : rewriting'[u] = rewriting[u]
  BY <1>1
<1>3. /\ \A i \in Ids : HasEntry(queue', i) => HasEntry(rewriting[r].copy, i) \/ rewriting[r].id = i
      /\ \A i \in Ids : HasEntry(rewriting[r].copy, i) \/ rewriting[r].id = i => HasEntry(queue', i)
  <2>1. rewriting[r].copy \in [Ids -> Entries] /\ entry # "absent"
    BY <1>1 DEF Rewrite
  <2>2. \A i \in Ids : queue'[i] = IF i = rewriting[r].id THEN entry ELSE rewriting[r].copy[i]
    BY <1>1, <2>1
  <2> QED
    BY <2>1, <2>2 DEF HasEntry
<1>4. Open(r) /\ ~Open(r)'
  BY <1>1, <1>2 DEF Open, NoRewrite
<1>5. Keeps(r)
  <2>1. \A u \in Rewriters : Open(u)' => u # r /\ Open(u)
    BY <1>2, <1>4 DEF Open
  <2>2. AtStake' \subseteq AtStake
    BY <1>2, <1>3, <1>4, <2>1 DEF AtStake
  <2> QED
    BY <1>1, <1>2, <2>1, <2>2 DEF Keeps
<1>6. Overlapped'
  BY <1>5, KeepsOverlapped
<1>7. \A i \in Ids : HasEntry(queue', i) => InQueue(i)'
  BY DEF InQueue
<1>8. \A i \in Ids : Held(i) => Held(i)'
  BY <1>1, <1>3, <1>7 DEF Held, Complete
<1>9. \A i \in Ids : i = rewriting[r].id => Held(i)'
  BY <1>3, <1>7 DEF Held
<1> QED
  BY <1>4, <1>5, <1>6, <1>8, <1>9, KeepsOthers

LEMMA StopFile ==
    ASSUME Overlapped, \A u \in Rewriters : Open(u) => Complete(u),
           NEW dying, StopRewriting(dying)
    PROVE  /\ Overlapped'
           /\ \A u \in Rewriters : Open(u)' => Open(u) /\ rewriting'[u] = rewriting[u]
           /\ \A u \in Rewriters : Open(u)' => Complete(u)'
           /\ \A i \in Ids : Held(i) => Held(i)'
<1>1. /\ queue' = queue /\ clashed \subseteq clashed'
      /\ \A u \in Rewriters : rewriting'[u] = IF u \in dying THEN NoRewrite ELSE rewriting[u]
  BY DEF StopRewriting
<1>2. \A u \in Rewriters : Open(u)' => Open(u) /\ rewriting'[u] = rewriting[u]
  BY <1>1 DEF Open, NoRewrite
<1>3. AtStake' \subseteq AtStake
  BY <1>1, <1>2 DEF AtStake
<1>4. \A u \in Rewriters : rewriting'[u].at = "truncated" => rewriting'[u] = rewriting[u]
  BY <1>1 DEF NoRewrite
<1>5. \A i \in Ids : InQueue(i)' => InQueue(i)
  BY <1>1, <1>4 DEF InQueue
<1>6. ASSUME NEW i \in Ids, Held(i) PROVE Held(i)'
  <2>1. CASE i \in clashed \/ HasEntry(queue, i)
    BY <1>1, <2>1 DEF Held, InQueue
  <2>2. ASSUME NEW u \in Rewriters, rewriting[u].at = "truncated", HasEntry(rewriting[u].copy, i)
        PROVE  Held(i)'
    <3>1. CASE u \in dying
      BY <2>2, <3>1 DEF StopRewriting, Held
    <3>2. CASE u \notin dying
      BY <1>1, <2>2, <3>2 DEF Held, InQueue
    <3> QED
      BY <3>1, <3>2
  <2> QED
    BY <1>6, <2>1, <2>2 DEF Held, InQueue
<1>7. Overlapped'
  BY <1>1, <1>2, <1>3 DEF Overlapped
<1>8. \A u \in Rewriters : Open(u)' => Complete(u)'
  BY <1>1, <1>2, <1>5 DEF Complete
<1> QED
  BY <1>2, <1>6, <1>7, <1>8

\* Whoever else has the file open belongs to another process: the tasks of one take turns.
LEMMA OthersElsewhere ==
    ASSUME Turns, FileInv, NEW t \in Tasks, pc[t] = "queueing",
           NEW u \in Rewriters \ {t}, Open(u)
    PROVE  Elsewhere(t, u)
<1>1. CASE u = Reviewer
  BY <1>1 DEF Elsewhere
<1>2. CASE u \in Tasks
  <2>1. pc[u] = "queueing"
    BY <1>2 DEF FileInv, OwnFile
  <2> QED
    BY <1>2, <2>1 DEF Turns, Running, Elsewhere
<1> QED
  BY <1>1, <1>2 DEF Rewriters

\* What is kept by a step on the file.
FileKept ==
    /\ Overlapped'
    /\ \A u \in Rewriters : Open(u)' => Complete(u)'
    /\ \A i \in Ids : Held(i) => Held(i)'

LEMMA RewritesKeep ==
    ASSUME TypeOK, FileInv, NEW r \in Rewriters, NEW id \in Ids, Rewrites(r, id),
           \A u \in Rewriters \ {r} : Open(u) => Elsewhere(r, u)
    PROVE  FileKept
<1>1. CASE LoadQueue(r, id)
  BY <1>1, LoadFile DEF FileInv, FileKept
<1>2. CASE TruncateQueue(r)
  <2>1. Complete(r)
    BY <1>2 DEF TruncateQueue, FileInv, Open
  <2> QED
    BY <1>2, <2>1, TruncateFile DEF FileInv, FileKept
<1>3. ASSUME NEW entry \in Entries \ {"absent"}, WriteQueue(r, entry)
      PROVE  FileKept
  <2>1. Complete(r)
    BY <1>3 DEF WriteQueue, FileInv, Open
  <2> QED
    BY <1>3, <2>1, WriteFile DEF FileInv, FileKept
<1> QED
  BY <1>1, <1>2, <1>3 DEF Rewrites

LEMMA SameFile ==
    ASSUME FileInv, UNCHANGED review
    PROVE  FileKept
BY DEF FileInv, review, FileKept, Overlapped, Complete, Held, InQueue, AtStake, Open, HasEntry

\* A task's step.
LEMMA WorkFile ==
    ASSUME TypeOK, Turns, FileInv, NEW t \in Tasks, Work(t)
    PROVE  FileKept /\ OwnFile'
<1>1. OwnStep(t)
  BY WorkIsOwn
<1>2. CASE Rewriting(t) \/ Enqueue(t)
  <2>1. pc[t] = "queueing" /\ t \in Rewriters /\ job[t].id \in Ids /\ Rewrites(t, job[t].id)
    BY <1>2, EnqueueRewrites
  <2>2. FileKept
    BY <2>1, OthersElsewhere, RewritesKeep
  <2>3. rewriting \in [Rewriters -> Rewrite] /\ rewriting[t] \in Rewrite
    BY <2>1 DEF TypeOK
  <2>4. \A u \in Tasks \ {t} : rewriting'[u] = rewriting[u]
    BY <2>1, <2>3 DEF Rewrites, LoadQueue, TruncateQueue, WriteQueue, Rewriters
  <2>5. Open(t)' => pc'[t] = "queueing" /\ rewriting'[t].id = job'[t].id
    <3>1. CASE Enqueue(t)
      BY <2>1, <2>3, <3>1 DEF Enqueue, WriteQueue, Open, NoRewrite
    <3>2. CASE Rewriting(t) /\ LoadQueue(t, job[t].id)
      BY <2>1, <2>3, <3>2 DEF Rewriting, LoadQueue
    <3>3. CASE Rewriting(t) /\ TruncateQueue(t)
      <4>1. rewriting'[t].id = rewriting[t].id
        BY <2>1, <2>3, <3>3 DEF TruncateQueue, Rewrite
      <4>2. rewriting[t].id = job[t].id
        BY <2>1, <3>3 DEF TruncateQueue, Open, FileInv, OwnFile
      <4> QED
        BY <2>1, <3>3, <4>1, <4>2 DEF Rewriting
    <3> QED
      BY <1>2, <3>1, <3>2, <3>3 DEF Rewriting
  <2> QED
    BY <1>1, <2>2, <2>4, <2>5 DEF OwnStep, FileInv, OwnFile, Open
<1>3. CASE ~Rewriting(t) /\ ~Enqueue(t)
  <2>1. UNCHANGED review /\ pc[t] # "queueing"
    BY <1>3 DEF Work, Decide, ReadFreeze, CheckReplay, Consult, RecordRow, AppendDecision,
                RailAnswers, RailRaises, MarkSettled, AppendSettlement
  <2>2. ~Open(t) /\ \A u \in Tasks : rewriting'[u] = rewriting[u]
    BY <2>1 DEF FileInv, OwnFile, review
  <2> QED
    BY <1>1, <2>1, <2>2, SameFile DEF OwnStep, FileInv, OwnFile, Open
<1> QED
  BY <1>2, <1>3

\* A crash.
LEMMA CrashFile ==
    ASSUME FileInv, NEW p \in Processes, Crash(p)
    PROVE  FileKept /\ OwnFile'
<1> DEFINE mine == {t \in Tasks : ProcessOf[t] = p}
<1>1. StopRewriting(mine)
  BY DEF Crash
<1>2. /\ FileKept
      /\ \A u \in Rewriters : Open(u)' => Open(u) /\ rewriting'[u] = rewriting[u]
  BY <1>1, StopFile DEF FileInv, FileKept
<1>3. \A t \in mine : ~Open(t)'
  BY <1>1 DEF StopRewriting, Open, NoRewrite, Rewriters
<1>4. \A t \in Tasks \ mine : pc'[t] = pc[t] /\ job'[t] = job[t]
  BY DEF Crash
<1> QED
  BY <1>2, <1>3, <1>4 DEF FileInv, OwnFile, Rewriters

\* The human, the operator, the clock.
LEMMA OthersFile ==
    ASSUME TypeOK, FileInv, Around \/ UNCHANGED vars
    PROVE  FileKept /\ OwnFile'
<1>1. UNCHANGED <<pc, job>>
  BY OtherSteps
<1>2. ASSUME NEW id \in Ids, Resolve(id)
      PROVE  FileKept /\ \A t \in Tasks : rewriting'[t] = rewriting[t]
  <2>1. Reviewer \in Rewriters /\ \A u \in Rewriters : Elsewhere(Reviewer, u)
    BY DEF Rewriters, Elsewhere
  <2>2. FileKept
    <3>1. CASE Rewrites(Reviewer, id)
      BY <2>1, <3>1, RewritesKeep
    <3>2. CASE StopRewriting({Reviewer})
      BY <3>2, StopFile DEF FileInv, FileKept
    <3> QED
      BY <1>2, <3>1, <3>2, ResolveRewrites
  <2>3. Reviewer \notin Tasks
    BY LedgerAssumption DEF LedgerAssumption
  <2>4. \A t \in Tasks : rewriting'[t] = rewriting[t]
    BY <1>2, <2>3 DEF Resolve, LoadQueue, TruncateQueue, WriteQueue, StopRewriting, TypeOK, Rewriters
  <2> QED
    BY <2>2, <2>4
<1>3. CASE UNCHANGED review
  <2>1. \A t \in Tasks : rewriting'[t] = rewriting[t]
    BY <1>3 DEF review
  <2> QED
    BY <1>1, <1>3, <2>1, SameFile DEF FileInv, OwnFile, Open
<1>4. CASE \E id \in Ids : Resolve(id)
  BY <1>1, <1>2, <1>4 DEF FileInv, OwnFile, Open
<1> QED
  BY <1>3, <1>4 DEF Around, BeginFreeze, BeginClear, FinishWrite, NextDay, vars

LEMMA FileInit == Init => FileInv
BY DEF Init, FileInv, OwnFile, Overlapped, Open, NoRewrite, Rewriters

LEMMA FileStep ==
    ASSUME TypeOK, Turns, FileInv, [Next]_vars
    PROVE  FileInv' /\ \A id \in Ids : Held(id) => Held(id)'
<1>1. ASSUME NEW t \in Tasks, Work(t) PROVE FileKept /\ OwnFile'
  BY <1>1, WorkFile
<1>2. ASSUME NEW t \in Tasks, Snapshot(t) PROVE FileKept /\ OwnFile'
  <2>1. UNCHANGED review /\ pc[t] = "idle"
    BY <1>2 DEF Snapshot
  <2>2. \A u \in Tasks \ {t} : pc'[u] = pc[u] /\ job'[u] = job[u]
    BY <1>2 DEF Snapshot, Go, TypeOK
  <2>3. ~Open(t) /\ \A u \in Tasks : rewriting'[u] = rewriting[u]
    BY <2>1 DEF FileInv, OwnFile, review
  <2> QED
    BY <2>1, <2>2, <2>3, SameFile DEF FileInv, OwnFile, Open
<1>3. ASSUME NEW p \in Processes, Crash(p) PROVE FileKept /\ OwnFile'
  BY <1>3, CrashFile
<1>4. ASSUME Around \/ UNCHANGED vars PROVE FileKept /\ OwnFile'
  BY <1>4, OthersFile
<1>5. FileKept /\ OwnFile'
  BY <1>1, <1>2, <1>3, <1>4 DEF Next, Around
<1> QED
  BY <1>5 DEF FileKept, FileInv

-----------------------------------------------------------------------------
(***************************************************************************)
(* Nothing is forgotten but by an interruption or a clash in the queue.    *)
(***************************************************************************)
Remembered(id) ==
    \/ id \in lost \cup Carried
    \/ /\ rows[id].verdict = "APPROVE" => rows[id].settled
       /\ rows[id].verdict \in {"REVIEW", "ESCALATE"} => Held(id)

\* A task that does not leave keeps its request.
LEMMA KeepsRequest ==
    ASSUME TypeOK, NEW t \in Tasks, Work(t), ~Leave(t)
    PROVE  job'[t].id = job[t].id
<1>1. job[t] \in Job
  BY WorkIsOwn, Busy
<1>2. CASE Decide(t)
  <2>1. PICK rule \in PolicyVerdicts :
          job' = [job EXCEPT ![t].verdict = Narrower(rule, @), ![t].day = day]
    BY <1>2 DEF Decide
  <2> DEFINE j == [job[t] EXCEPT !.verdict = Narrower(rule, job[t].verdict), !.day = day]
  <2>2. j.id = job[t].id
    BY <1>1 DEF Job
  <2>3. job' = [job EXCEPT ![t] = j]
    BY <2>1 DEF TypeOK
  <2> HIDE DEF j
  <2> QED
    BY <2>2, <2>3 DEF TypeOK
<1>3. CASE RailAnswers(t)
  <2>1. CASE UNCHANGED job
    BY <2>1
  <2>2. ASSUME NEW extra \in Drift,
               job' = [job EXCEPT ![t].success = TRUE,
                                  ![t].charged = job[t].amount + extra]
        PROVE  job'[t].id = job[t].id
    <3> DEFINE j == [job[t] EXCEPT !.success = TRUE, !.charged = job[t].amount + extra]
    <3>1. j.id = job[t].id
      BY <1>1 DEF Job
    <3>2. job' = [job EXCEPT ![t] = j]
      BY <2>2 DEF TypeOK
    <3> HIDE DEF j
    <3> QED
      BY <3>1, <3>2 DEF TypeOK
  <2> QED
    BY <1>3, <2>1, <2>2 DEF RailAnswers
<1>4. CASE ReadFreeze(t)
  BY <1>4 DEF ReadFreeze, TypeOK
<1>5. CASE CheckReplay(t)
  BY <1>5 DEF CheckReplay, TypeOK
<1>6. CASE Consult(t)
  BY <1>6 DEF Consult, TypeOK
<1>7. CASE RecordRow(t) \/ AppendDecision(t) \/ MarkSettled(t) \/ Rewriting(t)
  BY <1>7 DEF RecordRow, AppendDecision, MarkSettled, Rewriting
<1> QED
  BY <1>2, <1>3, <1>4, <1>5, <1>6, <1>7 DEF Work, Enqueue, RailRaises, AppendSettlement

LEMMA WorkRemembers ==
    ASSUME IInv, IInv', Turns, FileInv, NEW t \in Tasks, Work(t), NEW id \in Ids, Remembered(id)
    PROVE  Remembered(id)'
<1>1. OwnStep(t) /\ pc[t] # "idle"
  BY WorkIsOwn DEF IInv
<1>2. job[t].id \in Ids
  BY <1>1, Busy DEF IInv
<1>3. lost \subseteq lost'
  BY DEF Work, Decide, ReadFreeze, CheckReplay, Consult, RecordRow, AppendDecision, Rewriting, Enqueue,
         RailAnswers, RailRaises, MarkSettled, AppendSettlement
<1>4. CASE id # job[t].id
  <2>1. Held(id) => Held(id)'
    BY FileStep DEF IInv, Next
  <2>2. rows'[id] = rows[id]
    BY <1>1, <1>4 DEF OwnStep
  <2>3. id \in Carried => id \in Carried'
    BY <1>1, <1>4 DEF OwnStep, Carried
  <2> QED
    BY <1>3, <2>1, <2>2, <2>3 DEF Remembered
<1>5. CASE id = job[t].id /\ ~Leave(t)
  <2>1. job'[t].id = id
    BY <1>5, KeepsRequest DEF IInv
  <2>2. id \in Carried'
    BY <1>2, <1>5, <2>1, Records DEF Carried
  <2> QED
    BY <2>2 DEF Remembered
<1>6. CASE id = job[t].id /\ Leave(t)
  <2>1. CASE RailRaises(t)
    BY <1>6, <2>1 DEF RailRaises, Remembered
  <2>2. CASE AppendSettlement(t)
    <3>1. pc[t] = "settled" /\ UNCHANGED rows
      BY <2>2 DEF AppendSettlement
    <3>2. Sent(t) /\ Settled(t)
      BY <3>1 DEF IInv, Standing, OnRecord
    <3> QED
      BY <1>6, <3>1, <3>2 DEF Remembered, Sent, Settled
  <2>3. CASE Enqueue(t)
    <3>1. pc[t] = "queueing" /\ UNCHANGED rows
      BY <2>3 DEF Enqueue
    <3>2. Recorded(t) /\ NeedsHuman(job[t].verdict)
      BY <3>1 DEF IInv, Standing, OnRecord
    <3>3. Held(id)'
      <4>1. /\ t \in Rewriters /\ WriteQueue(t, "pending")
            /\ "pending" \in Entries \ {"absent"}
        BY <2>3 DEF Enqueue, Rewriters, Entries
      <4>2. Open(t)
        BY <4>1 DEF WriteQueue, Open
      <4>3. Complete(t) /\ Overlapped /\ rewriting[t].id = id
        BY <1>6, <4>1, <4>2 DEF FileInv, OwnFile
      <4> QED
        BY <4>1, <4>3, WriteFile DEF IInv
    <3> QED
      BY <1>6, <3>1, <3>2, <3>3 DEF Remembered, Recorded, NeedsHuman
  <2>4. CASE ~RailRaises(t) /\ ~AppendSettlement(t) /\ ~Enqueue(t)
    <3>1. pc'[t] = "idle"
      BY <1>6 DEF Leave, Go, IInv, TypeOK
    <3>2. AppendDecision(t)
      BY <2>4, <3>1 DEF Work, Decide, ReadFreeze, CheckReplay, Consult, RecordRow,
                        Rewriting, RailAnswers, MarkSettled, Go, IInv, TypeOK
    <3>3. /\ pc[t] = "recorded" /\ UNCHANGED rows
          /\ job[t].verdict # "APPROVE" /\ ~NeedsHuman(job[t].verdict)
      BY <3>1, <3>2 DEF AppendDecision, Go, IInv, TypeOK
    <3>4. Recorded(t)
      BY <3>3 DEF IInv, Standing, OnRecord
    <3> QED
      BY <1>6, <3>3, <3>4 DEF Remembered, Recorded, NeedsHuman
  <2> QED
    BY <2>1, <2>2, <2>3, <2>4
<1> QED
  BY <1>4, <1>5, <1>6

LEMMA ForgottenStep ==
    ASSUME ~ReuseIds, IInv, IInv', Turns, FileInv, NothingForgotten, [Next]_vars
    PROVE  NothingForgotten'
<1> SUFFICES ASSUME NEW id \in Ids PROVE Remembered(id)'
  BY DEF NothingForgotten, Remembered, Held
<1>1. Remembered(id)
  BY DEF NothingForgotten, Remembered, Held
<1>2. ASSUME NEW t \in Tasks, Work(t) PROVE Remembered(id)'
  BY <1>1, <1>2, WorkRemembers
<1>3. ASSUME NEW t \in Tasks, Snapshot(t) PROVE Remembered(id)'
  <2>1. UNCHANGED <<rows, lost>> /\ job[t].id = None
    BY <1>3 DEF Snapshot, IInv, TypeOK
  <2>2. \A u \in Tasks \ {t} : job'[u] = job[u]
    BY <1>3 DEF Snapshot, IInv, TypeOK
  <2>3. id \in Carried => id \in Carried'
    BY <2>1, <2>2 DEF Carried
  <2> QED
    BY <1>1, <2>1, <2>3, FileStep DEF IInv, Next, Remembered
<1>4. ASSUME NEW p \in Processes, Crash(p) PROVE Remembered(id)'
  <2>1. UNCHANGED rows /\ lost \subseteq lost' /\ (Held(id) => Held(id)')
    BY <1>4, FileStep DEF Crash, IInv, Next
  <2>2. id \in Carried => id \in lost' \cup Carried'
    BY <1>4, CrashLoses DEF Carried, IInv
  <2> QED
    BY <1>1, <2>1, <2>2 DEF Remembered
<1>5. CASE Around \/ UNCHANGED vars
  <2>1. UNCHANGED <<rows, job, lost>>
    BY <1>5, OtherSteps
  <2>2. Held(id) => Held(id)'
    BY <1>5, FileStep DEF IInv
  <2> QED
    BY <1>1, <2>1, <2>2 DEF Remembered, Carried
<1> QED
  BY <1>2, <1>3, <1>4, <1>5 DEF Next, Around

\* An approved request that is not settled, and one that needs a human and is not in
\* the review queue, is still being carried or was interrupted, unless its entry was at
\* stake when two processes rewrote the queue file at once, or one died rewriting it: no
\* path through authorize, the rail and record_settlement drops one by itself, and the
\* callers of one event loop lose nothing to each other.
THEOREM LedgerNothingForgotten ==
    ASSUME ~ReuseIds
    PROVE  Spec => []NothingForgotten
<1>1. Init => NothingForgotten
  BY DEF Init, NothingForgotten, NoRow, None
<1>2. IInv /\ [Next]_vars => IInv'
  BY IInvStep
<1>3. IInv /\ Turns /\ [Next]_vars => Turns'
  BY TurnsStep DEF IInv
<1>4. IInv /\ IInv' /\ Turns /\ FileInv /\ [Next]_vars => FileInv'
  BY FileStep DEF IInv
<1>5. IInv /\ IInv' /\ Turns /\ FileInv /\ NothingForgotten /\ [Next]_vars => NothingForgotten'
  BY ForgottenStep
<1> QED
  BY <1>1, <1>2, <1>3, <1>4, <1>5, IInvInit, TurnsInit, FileInit, PTL DEF Spec

-----------------------------------------------------------------------------
(***************************************************************************)
(* The ledger implements the promise of `tesoro reconcile`.                *)
(***************************************************************************)

\* The refinement mapping, request by request.
Stands == [id \in Ids |-> StateOf(id)]
Gone == {id \in Ids : moved[id] > 0}

PromiseVars == <<Stands, Gone>>

LEMMA StandsLikeRow ==
    ASSUME NEW id \in Ids
    PROVE  Stands[id] = IF rows[id].verdict = None THEN "unrecorded"
                        ELSE IF ~rows[id].settled THEN "unreconciled"
                        ELSE IF rows[id].success THEN "settled" ELSE "failed"
BY DEF Stands, StateOf, UnreconciledRows, SettledRows

\* Rows and money untouched: the promise does not see the step.
LEMMA SameStutters ==
    ASSUME UNCHANGED <<rows, moved>>
    PROVE  UNCHANGED PromiseVars
BY DEF PromiseVars, Stands, Gone, StateOf, UnreconciledRows, SettledRows

\* One request changes its row: the promise sees that request change.
LEMMA OneRow ==
    ASSUME NEW id \in Ids, \A other \in Ids \ {id} : rows'[other] = rows[other]
    PROVE  Stands' = [Stands EXCEPT ![id] = Stands'[id]]
BY DEF Stands, StateOf, UnreconciledRows, SettledRows

LEMMA RecordRowAuthorizes ==
    ASSUME IInv, NEW t \in Tasks, RecordRow(t)
    PROVE  Promise!Authorize(job[t].id)
<1>1. pc[t] = "ready" /\ UNCHANGED moved
  BY DEF RecordRow
<1>2. job[t].id \in Ids /\ job[t].verdict \in Verdicts
  BY <1>1, Busy DEF IInv
<1>3. rows[job[t].id].verdict = None
  BY <1>1 DEF IInv, Standing, OnRecord, Asked, NoRow
<1> DEFINE r == [NoRow EXCEPT !.verdict = job[t].verdict, !.amount = job[t].amount,
                              !.day = job[t].day]
<1>4. r.verdict = job[t].verdict /\ ~r.settled
  BY DEF NoRow
<1>5. rows' = [rows EXCEPT ![job[t].id] = r]
  BY DEF RecordRow
<1> HIDE DEF r
<1>6. rows'[job[t].id] = r /\ \A other \in Ids \ {job[t].id} : rows'[other] = rows[other]
  BY <1>2, <1>5 DEF IInv, TypeOK
<1>7. Stands[job[t].id] = "unrecorded"
  BY <1>2, <1>3, StandsLikeRow
<1>8. Stands'[job[t].id] = "unreconciled"
  BY <1>2, <1>4, <1>6 DEF Stands, StateOf, UnreconciledRows, Verdicts, None
<1>9. Stands' = [Stands EXCEPT ![job[t].id] = "unreconciled"] /\ UNCHANGED Gone
  BY <1>1, <1>2, <1>6, <1>8, OneRow DEF Gone
<1> QED
  BY <1>7, <1>9 DEF Promise!Authorize, Promise!Become, Stands, Gone

\* While a request is at the rail, money either stays or moves, once.
LEMMA PayingMoves ==
    ASSUME IInv, NEW t \in Tasks, pc[t] = "paying", UNCHANGED rows, OwnStep(t),
           moved'[job[t].id] > 0
    PROVE  Promise!Next
<1>1. PICK id \in Ids : id = job[t].id
  BY Busy DEF IInv
<1>2. Sent(t) /\ Recorded(t) /\ moved[job[t].id] = 0
  BY DEF IInv, Standing, OnRecord
<1>3. Stands[job[t].id] = "unreconciled"
  BY <1>1, <1>2, StandsLikeRow DEF Sent, Recorded, None
<1>4. job[t].id \notin Gone
  BY <1>2 DEF Gone
<1>5. Gone' = Gone \cup {job[t].id}
  BY <1>1 DEF Gone, OwnStep
<1>6. UNCHANGED Stands
  BY DEF Stands, StateOf, UnreconciledRows, SettledRows
<1>7. Promise!Move(id)
  BY <1>1, <1>3, <1>4, <1>5, <1>6 DEF Promise!Move, Stands, Gone
<1> QED
  BY <1>7 DEF Promise!Next

LEMMA MarkSettledCloses ==
    ASSUME 0 \notin Amounts, IInv, IInv', NEW t \in Tasks, MarkSettled(t)
    PROVE  Promise!Settle(job[t].id) \/ Promise!Fail(job[t].id)
<1>1. /\ pc[t] = "answered" /\ UNCHANGED <<moved, job>>
      /\ pc' = [pc EXCEPT ![t] = "settled"]
  BY DEF MarkSettled, Go
<1>2. job[t].id \in Ids
  BY <1>1, Busy DEF IInv
<1>3. Sent(t) /\ Recorded(t) /\ Charged(t) /\ job[t].amount \in Amounts
  BY <1>1 DEF IInv, Standing, OnRecord
<1>4. Stands[job[t].id] = "unreconciled"
  BY <1>2, <1>3, StandsLikeRow DEF Sent, Recorded, None
<1>5. pc'[t] = "settled" /\ job'[t] = job[t]
  BY <1>1 DEF IInv, TypeOK
<1>6. Settled(t)' /\ Sent(t)'
  BY <1>5 DEF IInv, Standing, OnRecord
<1>7. Stands'[job[t].id] = IF job[t].success THEN "settled" ELSE "failed"
  BY <1>2, <1>5, <1>6 DEF Stands, StateOf, UnreconciledRows, SettledRows, Settled, Sent, None
<1>8. \A other \in Ids \ {job[t].id} : rows'[other] = rows[other]
  BY WorkIsOwn DEF IInv, Work, OwnStep
<1>9. /\ Stands' = [Stands EXCEPT ![job[t].id] =
                       IF job[t].success THEN "settled" ELSE "failed"]
      /\ UNCHANGED Gone
  BY <1>1, <1>2, <1>7, <1>8, OneRow DEF Gone
<1>10. job[t].id \in Gone <=> job[t].success
  <2>1. job[t].amount \in Nat /\ job[t].amount > 0
    <3>1. job[t].amount \in Nat
      BY <1>3, LedgerAssumption DEF LedgerAssumption
    <3>2. job[t].amount # 0
      BY <1>3
    <3> QED
      BY <3>1, <3>2
  <2>2. CASE job[t].success
    BY <1>2, <1>3, <2>1, <2>2 DEF Charged, Gone
  <2>3. CASE ~job[t].success
    BY <1>3, <2>3 DEF Charged, Gone
  <2> QED
    BY <2>2, <2>3
<1>11. CASE job[t].success
  BY <1>4, <1>9, <1>10, <1>11 DEF Promise!Settle, Promise!Become, Stands, Gone
<1>12. CASE ~job[t].success
  BY <1>4, <1>9, <1>10, <1>12 DEF Promise!Fail, Promise!Become, Stands, Gone
<1> QED
  BY <1>11, <1>12

LEMMA PromiseStep ==
    ASSUME ~ReuseIds, 0 \notin Amounts, IInv, IInv', [Next]_vars
    PROVE  Promise!Next \/ UNCHANGED PromiseVars
<1>1. ASSUME NEW t \in Tasks, Work(t) PROVE Promise!Next \/ UNCHANGED PromiseVars
  <2>1. pc[t] # "idle" /\ OwnStep(t)
    BY <1>1, WorkIsOwn DEF IInv
  <2>2. job[t].id \in Ids /\ job[t].amount \in Nat /\ moved[job[t].id] \in Nat
    BY <2>1, Busy DEF IInv, Job, TypeOK
  <2>3. job[t].amount > 0
    BY <2>1, <2>2 DEF IInv, Standing, OnRecord
  <2>4. CASE RecordRow(t)
    BY <2>2, <2>4, RecordRowAuthorizes DEF Promise!Next
  <2>5. CASE RailAnswers(t)
    <3>1. CASE UNCHANGED moved
      BY <2>5, <3>1, SameStutters DEF RailAnswers
    <3>2. ASSUME NEW extra \in Drift,
                 moved' = [moved EXCEPT ![job[t].id] = @ + (job[t].amount + extra)]
          PROVE  Promise!Next
      <4>1. extra \in Nat
        BY LedgerAssumption DEF LedgerAssumption
      <4>2. moved'[job[t].id] = moved[job[t].id] + (job[t].amount + extra)
        BY <2>2, <3>2 DEF IInv, TypeOK
      <4>3. pc[t] = "paying" /\ UNCHANGED rows
        BY <2>5 DEF RailAnswers
      <4>4. moved'[job[t].id] > 0
        BY <2>2, <2>3, <4>1, <4>2
      <4> QED
        BY <2>1, <4>3, <4>4, PayingMoves
    <3> QED
      BY <2>5, <3>1, <3>2 DEF RailAnswers
  <2>6. CASE RailRaises(t)
    <3>1. pc[t] = "paying" /\ UNCHANGED rows
      BY <2>6 DEF RailRaises
    <3>2. CASE moved' = [moved EXCEPT ![job[t].id] = @ + job[t].amount]
      <4>1. moved'[job[t].id] = moved[job[t].id] + job[t].amount
        BY <2>2, <3>2 DEF IInv, TypeOK
      <4>2. moved'[job[t].id] > 0
        BY <2>2, <2>3, <4>1
      <4> QED
        BY <2>1, <3>1, <4>2, PayingMoves
    <3>3. CASE UNCHANGED moved
      BY <3>1, <3>3, SameStutters
    <3> QED
      BY <2>6, <3>2, <3>3 DEF RailRaises
  <2>7. CASE MarkSettled(t)
    BY <2>2, <2>7, MarkSettledCloses DEF Promise!Next
  <2>8. CASE UNCHANGED <<rows, moved>>
    BY <2>8, SameStutters
  <2> QED
    BY <1>1, <2>4, <2>5, <2>6, <2>7, <2>8
       DEF Work, Decide, ReadFreeze, CheckReplay, Consult, AppendDecision, Rewriting, Enqueue,
           AppendSettlement
<1>2. CASE UNCHANGED <<rows, moved>>
  BY <1>2, SameStutters
<1> QED
  BY <1>1, <1>2, OtherSteps DEF Next, Around, Snapshot, Crash

LEMMA PromiseInit == Init => Promise!Init
<1> SUFFICES ASSUME Init PROVE Promise!Init
  OBVIOUS
<1>1. Stands = [id \in Ids |-> "unrecorded"]
  <2>1. ASSUME NEW id \in Ids PROVE rows[id].verdict = None
    BY DEF Init, NoRow
  <2> QED
    BY <2>1 DEF Stands, StateOf
<1>2. Gone = {}
  BY DEF Init, Gone
<1> QED
  BY <1>1, <1>2 DEF Promise!Init, Stands, Gone

\* Request by request the ledger does what `tesoro reconcile` promises: money moves
\* at most once and only while the request is unreconciled, it is settled only if its
\* money moved and failed only if it did not, and neither is undone, for any number of
\* callers and processes, whatever crashes or raises.  No id comes twice and no request
\* is for nothing: a settled payment of zero moves no money.
THEOREM LedgerImplementsReconciliation ==
    ASSUME ~ReuseIds, 0 \notin Amounts
    PROVE  Spec => ImplementsReconciliation
<1>1. IInv /\ [Next]_vars => IInv'
  BY IInvStep
<1>2. IInv /\ IInv' /\ [Next]_vars => [Promise!Next]_PromiseVars
  BY PromiseStep
<1>3. Init => Promise!Init
  BY PromiseInit
<1> QED
  BY <1>1, <1>2, <1>3, IInvInit, PTL
     DEF Spec, ImplementsReconciliation, Promise!Spec, PromiseVars, Stands, Gone

-----------------------------------------------------------------------------
(***************************************************************************)
(* After a freeze each process hands over one payment at the most.         *)
(***************************************************************************)

\* The processes that have read a clear freeze file and not yet handed over.
MayEscape(t) ==
    pc[t] \in {"checked", "ready", "recorded"} /\ job[t].verdict = "APPROVE"

Escaping == {p \in Processes : \E t \in Tasks : ProcessOf[t] = p /\ MayEscape(t)}

FreezeInv ==
    /\ freeze = "clear" => escaped = 0
    /\ escaped + Cardinality(Escaping) <= Cardinality(Processes)

LEMMA EscapingFinite ==
    /\ IsFiniteSet(Escaping)
    /\ Cardinality(Escaping) \in Nat
    /\ Cardinality(Escaping) <= Cardinality(Processes)
BY ProcessSet DEF Escaping

LEMMA NarrowerApproves ==
    ASSUME NEW a \in Verdicts, NEW b \in Verdicts, Narrower(a, b) = "APPROVE"
    PROVE  a = "APPROVE" /\ b = "APPROVE"
BY DEF Narrower, Verdicts, Severity

\* While it is frozen, or being frozen or cleared, no task passes the kill switch.
LEMMA WorkEscapes ==
    ASSUME TypeOK, NEW t \in Tasks, Work(t), MayEscape(t)'
    PROVE  MayEscape(t) \/ freeze = "clear"
<1>1. pc[t] # "idle"
  BY WorkIsOwn
<1>2. job[t] \in Job /\ job[t].verdict \in Verdicts
  BY <1>1, Busy
<1>3. CASE ReadFreeze(t)
  <2>1. CASE freeze # "clear"
    <3>1. job'[t].verdict = "REJECT"
      BY <1>2, <1>3, <2>1 DEF ReadFreeze, TypeOK, Job
    <3> QED
      BY <3>1 DEF MayEscape
  <2> QED
    BY <2>1
<1>4. CASE CheckReplay(t)
  <2>1. pc[t] = "checked" /\ job'[t].verdict \in {"REJECT", job[t].verdict}
    BY <1>2, <1>4 DEF CheckReplay, TypeOK, Job
  <2> QED
    BY <2>1 DEF MayEscape
<1>5. CASE Consult(t)
  <2>1. PICK r \in PolicyVerdicts : job' = [job EXCEPT ![t].verdict = Narrower(@, r)]
    BY <1>5 DEF Consult
  <2>2. job'[t].verdict = Narrower(job[t].verdict, r) /\ r \in Verdicts
    BY <1>2, <2>1, LedgerAssumption DEF TypeOK, Job, LedgerAssumption
  <2>3. job[t].verdict = "APPROVE"
    BY <1>2, <2>2, NarrowerApproves DEF MayEscape
  <2> QED
    BY <1>5, <2>3 DEF Consult, MayEscape
<1>6. CASE RecordRow(t)
  BY <1>6 DEF RecordRow, MayEscape
<1>7. CASE Decide(t) \/ AppendDecision(t) \/ Rewriting(t) \/ Enqueue(t) \/ RailAnswers(t) \/ RailRaises(t)
           \/ MarkSettled(t) \/ AppendSettlement(t)
  <2>1. pc'[t] \notin {"checked", "ready", "recorded"}
    BY <1>7 DEF Decide, AppendDecision, Rewriting, Enqueue, RailAnswers, RailRaises, MarkSettled,
                AppendSettlement, Go, Leave, TypeOK
  <2> QED
    BY <2>1 DEF MayEscape
<1> QED
  BY <1>3, <1>4, <1>5, <1>6, <1>7 DEF Work

LEMMA WorkFreezes ==
    ASSUME TypeOK, Turns, FreezeInv, NEW t \in Tasks, Work(t)
    PROVE  FreezeInv'
<1>1. OwnStep(t) /\ UNCHANGED freeze /\ escaped \in Nat
  BY WorkIsOwn DEF Work, Decide, ReadFreeze, CheckReplay, Consult, RecordRow,
     AppendDecision, Rewriting, Enqueue, RailAnswers, RailRaises, MarkSettled, AppendSettlement, TypeOK
<1>2. \A u \in Tasks \ {t} : MayEscape(u)' <=> MayEscape(u)
  BY <1>1 DEF OwnStep, MayEscape
<1>3. CASE freeze = "clear"
  <2>1. escaped' = 0
    BY <1>1, <1>3 DEF FreezeInv, Work, Decide, ReadFreeze, CheckReplay, Consult, RecordRow,
       AppendDecision, Rewriting, Enqueue, RailAnswers, RailRaises, MarkSettled, AppendSettlement
  <2> QED
    <3>1. Escaping' \subseteq Processes
      BY DEF Escaping
    <3>2. Cardinality(Escaping') \in Nat /\ Cardinality(Escaping') <= Cardinality(Processes)
      BY <3>1, ProcessSet
    <3> QED
      BY <2>1, <3>2 DEF FreezeInv
<1>4. CASE freeze # "clear"
  <2>1. Escaping' \subseteq Escaping
    BY <1>2, <1>4, WorkEscapes DEF Escaping
  <2>2. Cardinality(Escaping') <= Cardinality(Escaping) /\ Cardinality(Escaping') \in Nat
    BY <2>1, EscapingFinite, FS_Subset, FS_CardinalityType
  <2>3. CASE escaped' = escaped
    BY <1>1, <1>4, <2>2, <2>3, EscapingFinite, ProcessesFinite DEF FreezeInv
  <2>4. CASE escaped' # escaped
    <3>1. AppendDecision(t)
      BY <2>4 DEF Work, Decide, ReadFreeze, CheckReplay, Consult, RecordRow, Rewriting, Enqueue,
                  RailAnswers, RailRaises, MarkSettled, AppendSettlement
    <3>2. /\ pc[t] = "recorded" /\ job[t].verdict = "APPROVE"
          /\ Go(t, "paying") /\ escaped' = escaped + 1
      BY <1>4, <2>4, <3>1 DEF AppendDecision
    <3>3. pc'[t] = "paying"
      BY <3>2 DEF Go, TypeOK
    <3>4. PICK p \in Processes : p = ProcessOf[t]
      BY ProcessesFinite
    <3>5. p \in Escaping
      BY <3>2, <3>4 DEF Escaping, MayEscape
    <3>6. p \notin Escaping'
      <4>1. ASSUME NEW u \in Tasks, ProcessOf[u] = p, MayEscape(u)' PROVE FALSE
        <5>1. u # t
          BY <3>3, <4>1 DEF MayEscape
        <5>2. MayEscape(u) /\ pc[u] \in Running
          BY <1>2, <4>1, <5>1 DEF MayEscape, Running
        <5>3. pc[t] \in Running
          BY <3>2 DEF Running
        <5> QED
          BY <3>4, <4>1, <5>1, <5>2, <5>3 DEF Turns
      <4> QED
        BY <4>1 DEF Escaping
    <3>7. Escaping' \subseteq Escaping \ {p}
      BY <2>1, <3>6
    <3>8. /\ IsFiniteSet(Escaping \ {p})
          /\ Cardinality(Escaping \ {p}) = Cardinality(Escaping) - 1
      BY <3>5, EscapingFinite, FS_RemoveElement
    <3>9. Cardinality(Escaping') <= Cardinality(Escaping) - 1
      BY <3>7, <3>8, FS_Subset
    <3> QED
      BY <1>1, <1>4, <2>2, <3>2, <3>9, EscapingFinite, ProcessesFinite DEF FreezeInv
  <2> QED
    BY <2>3, <2>4
<1> QED
  BY <1>3, <1>4

LEMMA FreezeStep ==
    ASSUME TypeOK, Turns, FreezeInv, [Next]_vars
    PROVE  FreezeInv'
<1>1. ASSUME Escaping' \subseteq Escaping, UNCHANGED escaped,
             freeze' = "clear" => freeze = "clear"
      PROVE  FreezeInv'
  <2>1. Cardinality(Escaping') <= Cardinality(Escaping) /\ Cardinality(Escaping') \in Nat
    BY <1>1, EscapingFinite, FS_Subset, FS_CardinalityType
  <2> QED
    BY <1>1, <2>1, EscapingFinite, ProcessesFinite DEF FreezeInv, TypeOK
<1>2. ASSUME NEW t \in Tasks, Work(t) PROVE FreezeInv'
  BY <1>2, WorkFreezes
<1>3. ASSUME NEW t \in Tasks, Snapshot(t) PROVE FreezeInv'
  <2>1. \A u \in Tasks : MayEscape(u)' => MayEscape(u)
    <3>1. pc'[t] = "snapshot" /\ \A u \in Tasks \ {t} : pc'[u] = pc[u] /\ job'[u] = job[u]
      BY <1>3 DEF Snapshot, Go, TypeOK
    <3> QED
      BY <3>1 DEF MayEscape
  <2> QED
    BY <1>1, <1>3, <2>1 DEF Escaping, Snapshot
<1>4. ASSUME NEW p \in Processes, Crash(p) PROVE FreezeInv'
  <2>1. \A u \in Tasks : MayEscape(u)' => MayEscape(u)
    BY <1>4 DEF Crash, MayEscape
  <2> QED
    BY <1>1, <1>4, <2>1 DEF Escaping, Crash
<1>5. CASE FinishWrite /\ freeze = "clearing"
  <2>1. escaped' = 0
    BY <1>5 DEF FinishWrite
  <2> QED
    <3>1. Escaping' \subseteq Processes
      BY DEF Escaping
    <3>2. Cardinality(Escaping') \in Nat /\ Cardinality(Escaping') <= Cardinality(Processes)
      BY <3>1, ProcessSet
    <3> QED
      BY <2>1, <3>2 DEF FreezeInv
<1>6. CASE (Around \/ UNCHANGED vars) /\ ~(FinishWrite /\ freeze = "clearing")
  <2>1. UNCHANGED escaped /\ (freeze' = "clear" => freeze = "clear")
    BY <1>6 DEF Around, Resolve, BeginFreeze, BeginClear, FinishWrite, NextDay, vars
  <2>2. Escaping' = Escaping
    BY <1>6, OtherSteps DEF Escaping, MayEscape
  <2> QED
    BY <1>1, <2>1, <2>2
<1> QED
  BY <1>2, <1>3, <1>4, <1>5, <1>6 DEF Next, Around

LEMMA FreezeInit == Init => FreezeInv
<1> SUFFICES ASSUME Init PROVE FreezeInv
  OBVIOUS
<1>1. Escaping = {} /\ escaped = 0
  BY DEF Init, Escaping, MayEscape
<1> QED
  BY <1>1, EscapingFinite, ProcessesFinite DEF FreezeInv

\* Once a freeze has begun, and until it is cleared, each process hands at most one
\* more payment to the rail, however many callers it has and whatever crashes: the one
\* whose caller had read the freeze file before.  Ids may come twice.
THEOREM LedgerFreezeStops == Spec => []FreezeStops
<1>1. FreezeInv /\ TypeOK => FreezeStops
  BY EscapingFinite, ProcessesFinite DEF FreezeInv, FreezeStops, TypeOK
<1>2. TypeOK /\ [Next]_vars => TypeOK'
  BY TypeStep
<1>3. TypeOK /\ Turns /\ [Next]_vars => Turns'
  BY TurnsStep
<1>4. TypeOK /\ Turns /\ FreezeInv /\ [Next]_vars => FreezeInv'
  BY FreezeStep
<1> QED
  BY <1>1, <1>2, <1>3, <1>4, TypeInit, TurnsInit, FreezeInit, PTL DEF Spec

-----------------------------------------------------------------------------
(***************************************************************************)
(* The approvals of a day.                                                 *)
(***************************************************************************)
Approved(d) == {id \in Ids : rows[id].verdict = "APPROVE" /\ rows[id].day = d}

\* A caller that has counted the rows and may still add one to day d.
MayApprove(t, d) ==
    /\ job[t].verdict = "APPROVE"
    /\ \/ pc[t] = "snapshot" /\ day <= d
       \/ pc[t] \in {"decided", "checked", "ready"} /\ job[t].day = d

Approving(d) == {p \in Processes : \E t \in Tasks : ProcessOf[t] = p /\ MayApprove(t, d)}

KnownRows == {id \in Ids : rows[id].verdict # None}

\* Nothing is dated after today.
Dated ==
    /\ \A id \in Ids : rows[id].day <= day
    /\ \A t \in Tasks : job[t].day <= day

WithinActions(d) ==
    Cardinality(Approved(d)) + Cardinality(Approving(d))
      <= ActionsPerDay + Cardinality(Processes) - 1

ActionsInv ==
    /\ IsFiniteSet(KnownRows)
    /\ Dated
    /\ \A d \in 0..LastDay : WithinActions(d)

LEMMA ApprovedFinite ==
    ASSUME IsFiniteSet(KnownRows), NEW d
    PROVE  IsFiniteSet(Approved(d)) /\ Cardinality(Approved(d)) \in Nat
<1>1. Approved(d) \subseteq KnownRows
  BY DEF Approved, KnownRows, None
<1> QED
  BY <1>1, FS_Subset, FS_CardinalityType

\* A step that adds no approval to a day and lets nobody new add one.
LEMMA WithinKept ==
    ASSUME IsFiniteSet(KnownRows), NEW d \in 0..LastDay, WithinActions(d),
           Approved(d)' \subseteq Approved(d), Approving(d)' \subseteq Approving(d)
    PROVE  WithinActions(d)'
<1>1. /\ Cardinality(Approved(d)') <= Cardinality(Approved(d))
      /\ Cardinality(Approved(d)') \in Nat
      /\ Cardinality(Approved(d)) \in Nat
  BY ApprovedFinite, FS_Subset, FS_CardinalityType
<1>2. Approving(d) \subseteq Processes
  BY DEF Approving
<1>3. IsFiniteSet(Approving(d)) /\ Cardinality(Approving(d)) \in Nat
  BY <1>2, ProcessSet
<1>4. /\ Cardinality(Approving(d)') <= Cardinality(Approving(d))
      /\ Cardinality(Approving(d)') \in Nat
  BY <1>3, FS_Subset, FS_CardinalityType
<1> QED
  BY <1>1, <1>3, <1>4, ProcessesFinite, LedgerAssumption DEF WithinActions, LedgerAssumption

\* The steps that leave the table alone.
LEMMA SameRowsWithin ==
    ASSUME ActionsInv, UNCHANGED rows, Dated',
           \A t \in Tasks, d \in 0..LastDay : MayApprove(t, d)' => MayApprove(t, d)
    PROVE  ActionsInv'
<1>1. KnownRows' = KnownRows
  BY DEF KnownRows
<1>2. ASSUME NEW d \in 0..LastDay PROVE WithinActions(d)'
  <2>1. Approved(d)' = Approved(d) /\ Approving(d)' \subseteq Approving(d)
    BY DEF Approved, Approving
  <2> QED
    BY <2>1, WithinKept DEF ActionsInv
<1> QED
  BY <1>1, <1>2 DEF ActionsInv

LEMMA SnapshotWithin ==
    ASSUME TypeOK, ActionsInv, NEW t \in Tasks, Snapshot(t)
    PROVE  ActionsInv'
<1>1. PICK id \in Askable, a \in Amounts :
        job' = [job EXCEPT ![t] = [NoJob EXCEPT !.id = id, !.amount = a,
                   !.verdict = IF Fits(a) THEN "APPROVE" ELSE "REVIEW"]]
  BY DEF Snapshot
<1> DEFINE j == [NoJob EXCEPT !.id = id, !.amount = a,
                   !.verdict = IF Fits(a) THEN "APPROVE" ELSE "REVIEW"]
<1>2. j.verdict = "APPROVE" => Fits(a)
  BY DEF NoJob
<1>3. j.day = 0
  BY DEF NoJob
<1>4. job' = [job EXCEPT ![t] = j]
  BY <1>1
<1> HIDE DEF j
<1>5. /\ pc'[t] = "snapshot" /\ job'[t] = j
      /\ \A u \in Tasks \ {t} : pc'[u] = pc[u] /\ job'[u] = job[u]
  BY <1>4 DEF Snapshot, Go, TypeOK
<1>6. UNCHANGED <<rows, day>> /\ pc[t] = "idle"
  BY DEF Snapshot
<1>7. Dated'
  <2>1. day \in Nat
    BY LedgerAssumption DEF TypeOK, LedgerAssumption
  <2> QED
    BY <1>3, <1>5, <1>6, <2>1 DEF ActionsInv, Dated
<1>8. CASE ~Fits(a)
  <2>1. \A u \in Tasks, d \in 0..LastDay : MayApprove(u, d)' => MayApprove(u, d)
    BY <1>2, <1>5, <1>6, <1>8 DEF MayApprove
  <2> QED
    BY <1>6, <1>7, <2>1, SameRowsWithin
<1>9. CASE Fits(a)
  <2>1. KnownRows' = KnownRows
    BY <1>6 DEF KnownRows
  <2>2. ASSUME NEW d \in 0..LastDay PROVE WithinActions(d)'
    <3>1. Approved(d)' = Approved(d)
      BY <1>6 DEF Approved
    <3>2. CASE d < day
      <4>1. Approving(d)' \subseteq Approving(d)
        <5>1. ~MayApprove(t, d)'
          <6>1. d \in Int /\ day \in Int
            BY LedgerAssumption DEF TypeOK, LedgerAssumption
          <6> QED
            BY <1>5, <1>6, <3>2, <6>1 DEF MayApprove
        <5>2. \A u \in Tasks \ {t} : MayApprove(u, d)' <=> MayApprove(u, d)
          BY <1>5, <1>6 DEF MayApprove
        <5> QED
          BY <5>1, <5>2 DEF Approving
      <4> QED
        BY <3>1, <4>1, WithinKept DEF ActionsInv
    <3>3. CASE ~ (d < day)
      <4> DEFINE Today == {i \in Ids : rows[i].verdict # None /\ rows[i].day >= day}
      <4>1. Cardinality(Today) < ActionsPerDay
        BY <1>9 DEF Fits, CountToday
      <4>2. Today \subseteq KnownRows
        BY DEF KnownRows
      <4>3. IsFiniteSet(Today) /\ Cardinality(Today) \in Nat
        BY <4>2, FS_Subset, FS_CardinalityType DEF ActionsInv
      <4>4. Approved(d) \subseteq Today
        <5>1. d \in Int /\ day \in Int
          BY LedgerAssumption DEF TypeOK, LedgerAssumption
        <5> QED
          BY <3>3, <5>1 DEF Approved, None
      <4>5. Cardinality(Approved(d)) <= Cardinality(Today) /\ Cardinality(Approved(d)) \in Nat
        BY <4>3, <4>4, FS_Subset, ApprovedFinite DEF ActionsInv
      <4>6. Approving(d)' \subseteq Processes
        BY DEF Approving
      <4>7. /\ Cardinality(Approving(d)') \in Nat
            /\ Cardinality(Approving(d)') <= Cardinality(Processes)
        BY <4>6, ProcessSet
      <4> HIDE DEF Today
      <4> QED
        BY <3>1, <4>1, <4>3, <4>5, <4>7, ProcessesFinite, LedgerAssumption
           DEF WithinActions, LedgerAssumption
    <3> QED
      BY <3>2, <3>3
  <2> QED
    BY <1>7, <2>1, <2>2 DEF ActionsInv
<1> QED
  BY <1>8, <1>9

LEMMA DecideWithin ==
    ASSUME TypeOK, ActionsInv, NEW t \in Tasks, Decide(t)
    PROVE  ActionsInv'
<1>1. PICK rule \in PolicyVerdicts :
        job' = [job EXCEPT ![t].verdict = Narrower(rule, @), ![t].day = day]
  BY DEF Decide
<1>2. pc[t] = "snapshot" /\ UNCHANGED <<rows, day>>
  BY DEF Decide
<1>3. job[t] \in Job /\ job[t].verdict \in Verdicts /\ rule \in Verdicts
  BY <1>2, Busy, LedgerAssumption DEF LedgerAssumption
<1>4. /\ pc'[t] = "decided" /\ job'[t].verdict = Narrower(rule, job[t].verdict)
      /\ job'[t].day = day
      /\ \A u \in Tasks \ {t} : pc'[u] = pc[u] /\ job'[u] = job[u]
  BY <1>1, <1>3 DEF Decide, Go, TypeOK, Job
<1>5. Dated'
  <2>1. day <= day
    BY LedgerAssumption DEF TypeOK, LedgerAssumption
  <2> QED
    BY <1>2, <1>4, <2>1 DEF ActionsInv, Dated
<1>6. ASSUME NEW u \in Tasks, NEW d \in 0..LastDay, MayApprove(u, d)'
      PROVE  MayApprove(u, d)
  <2>1. CASE u = t
    <3>1. job[t].verdict = "APPROVE"
      BY <1>3, <1>4, <1>6, <2>1, NarrowerApproves DEF MayApprove
    <3>2. day <= d
      BY <1>4, <1>6, <2>1 DEF MayApprove
    <3> QED
      BY <1>2, <2>1, <3>1, <3>2 DEF MayApprove
  <2>2. CASE u # t
    BY <1>2, <1>4, <1>6, <2>2 DEF MayApprove
  <2> QED
    BY <2>1, <2>2
<1> QED
  BY <1>2, <1>5, <1>6, SameRowsWithin

\* ReadFreeze, CheckReplay and Consult narrow the verdict and leave the day.
LEMMA NarrowingWithin ==
    ASSUME TypeOK, ActionsInv, NEW t \in Tasks, ReadFreeze(t) \/ CheckReplay(t) \/ Consult(t)
    PROVE  ActionsInv'
<1>1. /\ pc[t] \in {"decided", "checked"} /\ pc'[t] \in {"checked", "ready"}
      /\ UNCHANGED <<rows, day>>
      /\ \A u \in Tasks \ {t} : pc'[u] = pc[u] /\ job'[u] = job[u]
  BY DEF ReadFreeze, CheckReplay, Consult, Go, TypeOK
<1>2. job[t] \in Job /\ job[t].verdict \in Verdicts
  BY <1>1, Busy
<1>3. job'[t].day = job[t].day /\ (job'[t].verdict = "APPROVE" => job[t].verdict = "APPROVE")
  <2>1. CASE ReadFreeze(t)
    BY <1>2, <2>1 DEF ReadFreeze, TypeOK, Job
  <2>2. CASE CheckReplay(t)
    BY <1>2, <2>2 DEF CheckReplay, TypeOK, Job
  <2>3. CASE Consult(t)
    <3>1. PICK r \in PolicyVerdicts : job' = [job EXCEPT ![t].verdict = Narrower(@, r)]
      BY <2>3 DEF Consult
    <3>2. /\ job'[t].verdict = Narrower(job[t].verdict, r) /\ r \in Verdicts
          /\ job'[t].day = job[t].day
      BY <1>2, <3>1, LedgerAssumption DEF TypeOK, Job, LedgerAssumption
    <3> QED
      BY <1>2, <3>2, NarrowerApproves
  <2> QED
    BY <2>1, <2>2, <2>3
<1>4. Dated'
  BY <1>1, <1>3 DEF ActionsInv, Dated
<1>5. \A u \in Tasks, d \in 0..LastDay : MayApprove(u, d)' => MayApprove(u, d)
  BY <1>1, <1>3 DEF MayApprove
<1> QED
  BY <1>1, <1>4, <1>5, SameRowsWithin

LEMMA RecordRowWithin ==
    ASSUME TypeOK, Turns, ActionsInv, NEW t \in Tasks, RecordRow(t)
    PROVE  ActionsInv'
<1>1. /\ pc[t] = "ready" /\ pc'[t] = "recorded" /\ UNCHANGED <<job, day>>
      /\ \A u \in Tasks \ {t} : pc'[u] = pc[u]
  BY DEF RecordRow, Go, TypeOK
<1>2. PICK id \in Ids : id = job[t].id
  BY <1>1, Busy
<1> DEFINE r == [NoRow EXCEPT !.verdict = job[t].verdict, !.amount = job[t].amount,
                              !.day = job[t].day]
<1>3. r.verdict = job[t].verdict /\ r.day = job[t].day
  BY DEF NoRow
<1>4. rows' = [rows EXCEPT ![id] = r]
  BY <1>2 DEF RecordRow
<1> HIDE DEF r
<1>5. rows'[id] = r /\ \A other \in Ids \ {id} : rows'[other] = rows[other]
  BY <1>4 DEF TypeOK
<1>6. IsFiniteSet(KnownRows')
  <2>1. KnownRows' \subseteq KnownRows \cup {id}
    BY <1>5 DEF KnownRows
  <2>2. IsFiniteSet(KnownRows \cup {id})
    BY FS_AddElement DEF ActionsInv
  <2> QED
    BY <2>1, <2>2, FS_Subset
<1>7. Dated'
  BY <1>1, <1>3, <1>5 DEF ActionsInv, Dated
<1>8. \A u \in Tasks, d \in 0..LastDay : MayApprove(u, d)' => u # t /\ MayApprove(u, d)
  BY <1>1 DEF MayApprove
<1>9. ASSUME NEW d \in 0..LastDay PROVE WithinActions(d)'
  <2>1. Approving(d)' \subseteq Approving(d)
    BY <1>8 DEF Approving
  <2>2. CASE ~(job[t].verdict = "APPROVE" /\ job[t].day = d)
    <3>1. Approved(d)' \subseteq Approved(d)
      BY <1>3, <1>5, <2>2 DEF Approved
    <3> QED
      BY <2>1, <3>1, WithinKept DEF ActionsInv
  <2>3. CASE job[t].verdict = "APPROVE" /\ job[t].day = d
    <3>1. Approved(d)' \subseteq Approved(d) \cup {id}
      BY <1>5 DEF Approved
    <3>2. IsFiniteSet(Approved(d)) /\ Cardinality(Approved(d)) \in Nat
      BY ApprovedFinite DEF ActionsInv
    <3>3. /\ IsFiniteSet(Approved(d) \cup {id})
          /\ Cardinality(Approved(d) \cup {id}) <= Cardinality(Approved(d)) + 1
      <4>1. PICK A : A = Approved(d)
        OBVIOUS
      <4>2. /\ IsFiniteSet(A \cup {id})
            /\ Cardinality(A \cup {id}) = IF id \in A THEN Cardinality(A)
                                          ELSE Cardinality(A) + 1
        BY <3>2, <4>1, FS_AddElement
      <4> QED
        BY <3>2, <4>1, <4>2
    <3>4. /\ Cardinality(Approved(d)') <= Cardinality(Approved(d)) + 1
          /\ Cardinality(Approved(d)') \in Nat
      <4>1. Cardinality(Approved(d) \cup {id}) \in Nat
        BY <3>3, FS_CardinalityType
      <4>2. /\ Cardinality(Approved(d)') <= Cardinality(Approved(d) \cup {id})
            /\ Cardinality(Approved(d)') \in Nat
        BY <3>1, <3>3, FS_Subset, FS_CardinalityType
      <4> QED
        BY <3>2, <3>3, <4>1, <4>2
    <3>5. PICK p \in Processes : p = ProcessOf[t]
      BY ProcessesFinite
    <3>6. p \in Approving(d)
      BY <1>1, <2>3, <3>5 DEF Approving, MayApprove
    <3>7. p \notin Approving(d)'
      <4>1. ASSUME NEW u \in Tasks, ProcessOf[u] = p, MayApprove(u, d)' PROVE FALSE
        <5>1. u # t /\ MayApprove(u, d)
          BY <1>8, <4>1
        <5>2. pc[u] \in Running /\ pc[t] \in Running
          BY <1>1, <5>1 DEF MayApprove, Running
        <5> QED
          BY <3>5, <4>1, <5>1, <5>2 DEF Turns
      <4> QED
        BY <4>1 DEF Approving
    <3>8. Approving(d) \subseteq Processes
      BY DEF Approving
    <3>9. IsFiniteSet(Approving(d)) /\ Cardinality(Approving(d)) \in Nat
      BY <3>8, ProcessSet
    <3>10. /\ IsFiniteSet(Approving(d) \ {p})
           /\ Cardinality(Approving(d) \ {p}) = Cardinality(Approving(d)) - 1
      BY <3>6, <3>9, FS_RemoveElement
    <3>11. Approving(d)' \subseteq Approving(d) \ {p}
      BY <2>1, <3>7
    <3>12. /\ Cardinality(Approving(d)') <= Cardinality(Approving(d)) - 1
           /\ Cardinality(Approving(d)') \in Nat
      BY <3>10, <3>11, FS_Subset, FS_CardinalityType
    <3>13. WithinActions(d)
      BY DEF ActionsInv
    <3> QED
      BY <3>2, <3>4, <3>9, <3>12, <3>13, ProcessesFinite, LedgerAssumption
         DEF WithinActions, LedgerAssumption
  <2> QED
    BY <2>2, <2>3
<1> QED
  BY <1>6, <1>7, <1>9 DEF ActionsInv

\* The rest of a payment changes no row's verdict and no row's day.
LEMMA RestWithin ==
    ASSUME TypeOK, ActionsInv, NEW t \in Tasks,
           AppendDecision(t) \/ Rewriting(t) \/ Enqueue(t) \/ RailAnswers(t) \/ RailRaises(t)
             \/ MarkSettled(t) \/ AppendSettlement(t)
    PROVE  ActionsInv'
<1>1. UNCHANGED day /\ \A id \in Ids : rows'[id].verdict = rows[id].verdict
                                       /\ rows'[id].day = rows[id].day
  <2>1. CASE MarkSettled(t)
    <3>1. job[t].id \in Ids
      BY <2>1, Busy DEF MarkSettled
    <3> DEFINE old == rows[job[t].id]
               new == [old EXCEPT !.settled = TRUE, !.success = job[t].success,
                            !.paid = IF Reported(t) = NotReported THEN old.paid
                                     ELSE Reported(t)]
    <3>2. old \in Row
      BY <3>1 DEF TypeOK
    <3>3. new.verdict = old.verdict /\ new.day = old.day
      <4> HIDE DEF old
      <4> QED
        BY <3>2 DEF Row
    <3>4. rows' = [rows EXCEPT ![job[t].id] = new]
      BY <2>1, <3>1 DEF MarkSettled, TypeOK
    <3> HIDE DEF new
    <3> QED
      BY <2>1, <3>3, <3>4 DEF MarkSettled, TypeOK
  <2>2. CASE UNCHANGED <<rows, day>>
    BY <2>2
  <2> QED
    BY <2>1, <2>2 DEF AppendDecision, Rewriting, Enqueue, RailAnswers, RailRaises, AppendSettlement
<1>2. Work(t) /\ OwnStep(t)
  BY WorkIsOwn DEF Work
<1>3. pc'[t] \notin {"snapshot", "decided", "checked", "ready"}
  BY DEF AppendDecision, Rewriting, Enqueue, RailAnswers, RailRaises, MarkSettled, AppendSettlement,
         Go, Leave, TypeOK
<1>4. job'[t].day <= day
  <2>1. CASE RailAnswers(t)
    <3>1. job[t] \in Job
      BY <2>1, Busy DEF RailAnswers
    <3>2. job'[t].day = job[t].day
      BY <2>1, <3>1 DEF RailAnswers, TypeOK, Job
    <3> QED
      BY <3>2 DEF ActionsInv, Dated
  <2>2. CASE Leave(t)
    <3>1. job'[t].day = 0
      BY <2>2 DEF Leave, NoJob, TypeOK
    <3> QED
      BY <3>1, LedgerAssumption DEF TypeOK, LedgerAssumption
  <2>3. CASE UNCHANGED job
    BY <2>3 DEF ActionsInv, Dated
  <2> QED
    BY <2>1, <2>2, <2>3 DEF AppendDecision, Rewriting, Enqueue, RailRaises, MarkSettled,
                            AppendSettlement
<1>5. Dated'
  BY <1>1, <1>2, <1>4 DEF ActionsInv, Dated, OwnStep
<1>6. KnownRows' = KnownRows
  BY <1>1 DEF KnownRows
<1>7. ASSUME NEW d \in 0..LastDay PROVE WithinActions(d)'
  <2>1. Approved(d)' = Approved(d)
    BY <1>1 DEF Approved
  <2>2. \A u \in Tasks : MayApprove(u, d)' => MayApprove(u, d)
    BY <1>1, <1>2, <1>3 DEF MayApprove, OwnStep
  <2>3. Approving(d)' \subseteq Approving(d)
    BY <2>2 DEF Approving
  <2> QED
    BY <2>1, <2>3, WithinKept DEF ActionsInv
<1> QED
  BY <1>5, <1>6, <1>7 DEF ActionsInv

LEMMA ActionsStep ==
    ASSUME TypeOK, Turns, ActionsInv, [Next]_vars
    PROVE  ActionsInv'
<1>1. ASSUME NEW t \in Tasks, Snapshot(t) \/ Work(t) PROVE ActionsInv'
  BY <1>1, SnapshotWithin, DecideWithin, NarrowingWithin, RecordRowWithin, RestWithin DEF Work
<1>2. ASSUME NEW p \in Processes, Crash(p) PROVE ActionsInv'
  <2>1. UNCHANGED <<rows, day>>
    BY <1>2 DEF Crash
  <2>2. \A t \in Tasks : \/ pc'[t] = "idle" /\ job'[t] = NoJob
                         \/ pc'[t] = pc[t] /\ job'[t] = job[t]
    BY <1>2 DEF Crash
  <2>3. Dated'
    <3>1. NoJob.day = 0 /\ day \in Nat
      BY LedgerAssumption DEF NoJob, TypeOK, LedgerAssumption
    <3> QED
      BY <2>1, <2>2, <3>1 DEF ActionsInv, Dated
  <2>4. \A t \in Tasks, d \in 0..LastDay : MayApprove(t, d)' => MayApprove(t, d)
    BY <2>1, <2>2 DEF MayApprove
  <2> QED
    BY <2>1, <2>3, <2>4, SameRowsWithin
<1>3. CASE Around \/ UNCHANGED vars
  <2>1. UNCHANGED <<rows, pc, job>>
    BY <1>3, OtherSteps
  <2>2. day \in Nat /\ (day' = day \/ day' = day + 1)
    BY <1>3, LedgerAssumption DEF Around, Resolve, BeginFreeze, BeginClear, FinishWrite,
       NextDay, vars, TypeOK, LedgerAssumption
  <2>3. \A id \in Ids : rows[id].day \in Int
    BY LedgerAssumption DEF TypeOK, Row, LedgerAssumption
  <2>4. \A t \in Tasks : job[t].day \in Int
    BY LedgerAssumption DEF TypeOK, Job, LedgerAssumption
  <2>5. Dated'
    BY <2>1, <2>2, <2>3, <2>4 DEF ActionsInv, Dated
  <2>6. \A t \in Tasks, d \in 0..LastDay : MayApprove(t, d)' => MayApprove(t, d)
    BY <2>1, <2>2, LedgerAssumption DEF MayApprove, LedgerAssumption
  <2> QED
    BY <2>1, <2>5, <2>6, SameRowsWithin
<1> QED
  BY <1>1, <1>2, <1>3 DEF Next, Around

LEMMA ActionsInit == Init => ActionsInv
<1> SUFFICES ASSUME Init PROVE ActionsInv
  OBVIOUS
<1>1. KnownRows = {} /\ \A d : Approved(d) = {} /\ Approving(d) = {}
  BY DEF Init, KnownRows, Approved, Approving, MayApprove, NoRow, None
<1>2. Dated
  BY DEF Init, Dated, NoRow, NoJob
<1>3. Cardinality({}) = 0 /\ IsFiniteSet({})
  BY FS_EmptySet
<1>4. ASSUME NEW d \in 0..LastDay PROVE WithinActions(d)
  <2>1. Cardinality(Approved(d)) = 0 /\ Cardinality(Approving(d)) = 0
    BY <1>1, <1>3
  <2> QED
    BY <2>1, ProcessesFinite, LedgerAssumption DEF WithinActions, LedgerAssumption
<1> QED
  BY <1>1, <1>2, <1>3, <1>4 DEF ActionsInv

\* No more requests are approved in a day than actions_per_day allows, but for one more
\* in each further process, however many callers a process has, whether they report back
\* or not and whatever crashes.  Ids may come twice.
THEOREM LedgerActionsBounded == Spec => []ActionsBounded
<1>1. ActionsInv => ActionsBounded
  <2> SUFFICES ASSUME ActionsInv, NEW d \in 0..LastDay
               PROVE  Cardinality(Approved(d)) <= ActionsPerDay + Cardinality(Processes) - 1
    BY DEF ActionsBounded, Approved
  <2>1. Cardinality(Approved(d)) \in Nat
    BY ApprovedFinite DEF ActionsInv
  <2>2. Approving(d) \subseteq Processes
    BY DEF Approving
  <2>3. Cardinality(Approving(d)) \in Nat
    BY <2>2, ProcessSet
  <2>4. WithinActions(d)
    BY DEF ActionsInv
  <2> QED
    BY <2>1, <2>3, <2>4, ProcessesFinite, LedgerAssumption DEF WithinActions, LedgerAssumption
<1>2. TypeOK /\ [Next]_vars => TypeOK'
  BY TypeStep
<1>3. TypeOK /\ Turns /\ [Next]_vars => Turns'
  BY TurnsStep
<1>4. TypeOK /\ Turns /\ ActionsInv /\ [Next]_vars => ActionsInv'
  BY ActionsStep
<1> QED
  BY <1>1, <1>2, <1>3, <1>4, TypeInit, TurnsInit, ActionsInit, PTL DEF Spec

-----------------------------------------------------------------------------
(***************************************************************************)
(* The money of a day.                                                     *)
(***************************************************************************)
LEMMA LargestIs ==
    ASSUME NEW S, IsFiniteSet(S), S # {}, S \subseteq Nat
    PROVE  Largest(S) \in S /\ Largest(S) \in Nat /\ \A b \in S : b <= Largest(S)
<1>1. \E a \in S : \A b \in S : b <= a
  BY LargestExists
<1> QED
  BY <1>1 DEF Largest

\* What a caller must know: its row is of the day it was decided on, and what the rail
\* took is the quote and some drift.
Due(t) ==
    /\ pc[t] \in {"recorded", "paying", "answered"} => rows[job[t].id].day = job[t].day
    /\ pc[t] = "answered" => moved[job[t].id] <= job[t].amount + Largest(Drift)

Dues ==
    /\ \A t \in Tasks : Due(t)
    /\ \A id \in Ids : rows[id].settled => rows[id].verdict # None

LEMMA DuesInit == Init => Dues
BY DEF Init, Dues, Due, NoRow

LEMMA OthersDue ==
    ASSUME TypeOK, Standing, Dues, NEW t \in Tasks, OwnStep(t), NEW u \in Tasks \ {t}
    PROVE  Due(u)'
<1>1. pc'[u] = pc[u] /\ job'[u] = job[u] /\ Due(u)
  BY DEF OwnStep, Dues
<1>2. CASE pc[u] = "idle"
  BY <1>1, <1>2 DEF Due
<1>3. CASE pc[u] # "idle"
  <2>1. job[u].id \in Ids /\ job[u].id # None
    BY <1>3, Busy, Records
  <2>2. job[u].id # job[t].id
    BY <2>1 DEF Standing, Apart
  <2>3. /\ rows'[job[u].id] = rows[job[u].id]
        /\ moved'[job[u].id] = moved[job[u].id]
    BY <2>1, <2>2 DEF OwnStep
  <2> QED
    BY <1>1, <2>3 DEF Due
<1> QED
  BY <1>2, <1>3

LEMMA RecordRowDue ==
    ASSUME TypeOK, Standing, Dues, NEW t \in Tasks, RecordRow(t)
    PROVE  Dues'
<1>1. pc[t] = "ready" /\ pc'[t] = "recorded" /\ UNCHANGED <<job, moved>>
  BY DEF RecordRow, Go, TypeOK
<1>2. job[t].id \in Ids
  BY <1>1, Busy
<1> DEFINE r == [NoRow EXCEPT !.verdict = job[t].verdict, !.amount = job[t].amount,
                              !.day = job[t].day]
<1>3. r.day = job[t].day /\ ~r.settled
  BY DEF NoRow
<1>4. rows' = [rows EXCEPT ![job[t].id] = r]
  BY DEF RecordRow
<1> HIDE DEF r
<1>5. rows'[job[t].id] = r /\ \A other \in Ids \ {job[t].id} : rows'[other] = rows[other]
  BY <1>2, <1>4 DEF TypeOK
<1>6. Due(t)'
  BY <1>1, <1>3, <1>5 DEF Due
<1>7. \A u \in Tasks \ {t} : Due(u)'
  BY OthersDue, WorkIsOwn DEF Work
<1>8. \A id \in Ids : rows'[id].settled => rows'[id].verdict # None
  BY <1>3, <1>5 DEF Dues
<1> QED
  BY <1>6, <1>7, <1>8 DEF Dues

LEMMA RailAnswersDue ==
    ASSUME IsFiniteSet(Drift), Drift # {},
           TypeOK, Standing, Dues, NEW t \in Tasks, RailAnswers(t)
    PROVE  Dues'
<1>1. pc[t] = "paying" /\ pc'[t] = "answered" /\ UNCHANGED rows
  BY DEF RailAnswers, Go, TypeOK
<1>2. job[t] \in Job /\ job[t].id \in Ids /\ job[t].amount \in Nat
  BY <1>1, Busy DEF Job
<1>3. moved[job[t].id] = 0 /\ rows[job[t].id].day = job[t].day
  BY <1>1 DEF Standing, OnRecord, Dues, Due
<1>4. Drift \subseteq Nat
  BY LedgerAssumption DEF LedgerAssumption
<1>5. Largest(Drift) \in Nat /\ \A extra \in Drift : extra <= Largest(Drift)
  BY <1>4, LargestIs
<1>6. CASE UNCHANGED <<moved, job>>
  <2>1. Due(t)'
    BY <1>1, <1>2, <1>3, <1>5, <1>6 DEF Due
  <2> QED
    BY <1>1, <2>1, OthersDue, WorkIsOwn DEF Work, Dues
<1>7. ASSUME NEW extra \in Drift,
             moved' = [moved EXCEPT ![job[t].id] = @ + (job[t].amount + extra)],
             job' = [job EXCEPT ![t].success = TRUE,
                                ![t].charged = job[t].amount + extra]
      PROVE  Dues'
  <2>1. job'[t].id = job[t].id /\ job'[t].day = job[t].day /\ job'[t].amount = job[t].amount
    BY <1>2, <1>7 DEF TypeOK, Job
  <2>2. moved'[job[t].id] = 0 + (job[t].amount + extra)
    BY <1>2, <1>3, <1>7 DEF TypeOK
  <2>3. moved'[job[t].id] <= job[t].amount + Largest(Drift)
    BY <1>2, <1>4, <1>5, <2>2
  <2>4. Due(t)'
    BY <1>1, <1>3, <2>1, <2>3 DEF Due
  <2> QED
    BY <1>1, <2>4, OthersDue, WorkIsOwn DEF Work, Dues
<1> QED
  BY <1>6, <1>7 DEF RailAnswers

LEMMA MarkSettledDue ==
    ASSUME TypeOK, Standing, Dues, NEW t \in Tasks, MarkSettled(t)
    PROVE  /\ Dues'
           /\ rows'[job[t].id].settled
           /\ rows'[job[t].id].day = job[t].day
           /\ rows'[job[t].id].verdict = "APPROVE"
<1>1. pc[t] = "answered" /\ pc'[t] = "settled"
  BY DEF MarkSettled, Go, TypeOK
<1>2. job[t].id \in Ids
  BY <1>1, Busy
<1>3. rows[job[t].id].verdict = "APPROVE" /\ rows[job[t].id].day = job[t].day
  BY <1>1 DEF Standing, OnRecord, Sent, Dues, Due
<1> DEFINE old == rows[job[t].id]
           new == [old EXCEPT !.settled = TRUE, !.success = job[t].success,
                        !.paid = IF Reported(t) = NotReported THEN old.paid
                                 ELSE Reported(t)]
<1>4. old \in Row
  BY <1>2 DEF TypeOK
<1>5. new.verdict = old.verdict /\ new.day = old.day /\ new.settled
  <2> HIDE DEF old
  <2> QED
    BY <1>4 DEF Row
<1>6. rows' = [rows EXCEPT ![job[t].id] = new]
  BY <1>2 DEF MarkSettled, TypeOK
<1> HIDE DEF new
<1>7. rows'[job[t].id] = new /\ \A other \in Ids \ {job[t].id} : rows'[other] = rows[other]
  BY <1>2, <1>6 DEF TypeOK
<1>8. Due(t)'
  BY <1>1 DEF Due
<1>9. \A u \in Tasks \ {t} : Due(u)'
  BY OthersDue, WorkIsOwn DEF Work
<1>10. \A id \in Ids : rows'[id].settled => rows'[id].verdict # None
  BY <1>3, <1>5, <1>7 DEF Dues, None
<1> QED
  BY <1>3, <1>5, <1>7, <1>8, <1>9, <1>10 DEF Dues

LEMMA DuesStep ==
    ASSUME IsFiniteSet(Drift), Drift # {}, TypeOK, Standing, Dues, [Next]_vars
    PROVE  Dues'
<1>1. ASSUME NEW t \in Tasks, Work(t) PROVE Dues'
  <2>1. OwnStep(t)
    BY <1>1, WorkIsOwn
  <2>2. CASE RecordRow(t) \/ RailAnswers(t) \/ MarkSettled(t)
    BY <2>2, RecordRowDue, RailAnswersDue, MarkSettledDue
  <2>3. CASE AppendDecision(t)
    <3>1. pc[t] = "recorded" /\ UNCHANGED rows /\ pc'[t] \in {"paying", "queueing", "idle"}
      BY <2>3 DEF AppendDecision, Go, Leave, TypeOK
    <3>2. pc'[t] = "paying" => job'[t] = job[t]
      BY <2>3 DEF AppendDecision, Go, Leave, TypeOK
    <3>3. Due(t)'
      BY <3>1, <3>2 DEF Due, Dues
    <3> QED
      BY <2>1, <3>1, <3>3, OthersDue DEF Dues
  <2>4. CASE Decide(t) \/ ReadFreeze(t) \/ CheckReplay(t) \/ Consult(t) \/ Rewriting(t) \/ Enqueue(t)
             \/ RailRaises(t) \/ AppendSettlement(t)
    <3>1. UNCHANGED rows /\ pc'[t] \notin {"recorded", "paying", "answered"}
      BY <2>4 DEF Decide, ReadFreeze, CheckReplay, Consult, Rewriting, Enqueue, RailRaises,
                  AppendSettlement, Go, Leave, TypeOK
    <3>2. Due(t)'
      BY <3>1 DEF Due
    <3> QED
      BY <2>1, <3>1, <3>2, OthersDue DEF Dues
  <2> QED
    BY <1>1, <2>2, <2>3, <2>4 DEF Work
<1>2. ASSUME NEW t \in Tasks, Snapshot(t) PROVE Dues'
  <2>1. /\ UNCHANGED <<rows, moved>> /\ pc'[t] = "snapshot"
        /\ \A u \in Tasks \ {t} : pc'[u] = pc[u] /\ job'[u] = job[u]
    BY <1>2 DEF Snapshot, Go, TypeOK
  <2> QED
    BY <2>1 DEF Dues, Due
<1>3. ASSUME NEW p \in Processes, Crash(p) PROVE Dues'
  <2>1. UNCHANGED <<rows, moved>>
    BY <1>3 DEF Crash
  <2>2. \A t \in Tasks : \/ pc'[t] = "idle"
                         \/ pc'[t] = pc[t] /\ job'[t] = job[t]
    BY <1>3 DEF Crash
  <2> QED
    BY <2>1, <2>2 DEF Dues, Due
<1>4. CASE Around \/ UNCHANGED vars
  BY <1>4, OtherSteps DEF Dues, Due
<1> QED
  BY <1>1, <1>2, <1>3, <1>4 DEF Next, Around

\* What the requests of day d that settled have moved.
SettledOn(d) == {id \in Ids : rows[id].settled /\ rows[id].day = d}
SpentOn(d) == SumFunctionOnSet(moved, SettledOn(d))

\* A caller whose snapshot let it through, and whose money day d may still count.
InFlight(t, d) ==
    /\ job[t].verdict = "APPROVE"
    /\ \/ pc[t] = "snapshot" /\ day <= d
       \/ /\ pc[t] \in {"decided", "checked", "ready", "recorded", "paying", "answered"}
          /\ job[t].day = d

Flying(d) == {t \in Tasks : InFlight(t, d)}

\* The most that one request takes, and the bound.
Most == Largest(Amounts) + Largest(Drift)
Limit == DailyLimit + (Callers - 1) * Largest(Amounts) + Callers * Largest(Drift)

\* What is spent, and what the callers in flight may yet take: each of them the most, but
\* the one that took the last snapshot its own amount.
WithinLimit(d) ==
    \/ SpentOn(d) + Cardinality(Flying(d)) * Most <= Limit
    \/ \E t \in Flying(d) :
          SpentOn(d) + Cardinality(Flying(d)) * Most + job[t].amount
            <= Limit + Largest(Amounts)

SpendInv == \A d \in 0..LastDay : WithinLimit(d)

\* What the theorem asks of the amounts: there is a largest, and none is zero.
Priced ==
    /\ IsFiniteSet(Amounts) /\ Amounts # {} /\ 0 \notin Amounts
    /\ IsFiniteSet(Drift) /\ Drift # {}

LEMMA Prices ==
    ASSUME Priced
    PROVE  /\ Largest(Amounts) \in Nat
           /\ Largest(Drift) \in Nat
           /\ \A a \in Amounts : a \in Nat /\ a > 0 /\ a <= Largest(Amounts)
           /\ Most \in Nat
           /\ Callers \in Nat
           /\ Callers >= 1
           /\ Limit \in Int
           /\ Limit + Largest(Amounts) = DailyLimit + Callers * Most
<1>1. Amounts \subseteq Nat /\ Drift \subseteq Nat /\ DailyLimit \in Nat
      /\ IsFiniteSet(Tasks) /\ Tasks # {}
  BY LedgerAssumption DEF LedgerAssumption
<1>2. Largest(Amounts) \in Nat /\ \A a \in Amounts : a <= Largest(Amounts)
  BY <1>1, LargestIs DEF Priced
<1>3. Largest(Drift) \in Nat
  BY <1>1, LargestIs DEF Priced
<1>4. \A a \in Amounts : a \in Nat /\ a > 0
  <2>1. ASSUME NEW a \in Amounts PROVE a \in Nat /\ a # 0
    BY <1>1 DEF Priced
  <2> QED
    BY <2>1
<1>5. Callers \in Nat /\ Callers # 0
  BY <1>1, FS_CardinalityType, FS_EmptySet DEF Callers
<1>6. Most \in Nat /\ Limit \in Int
  BY <1>1, <1>2, <1>3, <1>5 DEF Most, Limit
<1>7. Limit + Largest(Amounts) = DailyLimit + Callers * Most
  <2>1. \A c, m, x, l \in Nat : l + (c - 1) * m + c * x + m = l + c * (m + x)
    OBVIOUS
  <2> QED
    BY <1>1, <1>2, <1>3, <1>5, <2>1 DEF Most, Limit
<1> QED
  BY <1>2, <1>3, <1>4, <1>5, <1>6, <1>7

LEMMA Multiples ==
    ASSUME NEW k \in Nat
    PROVE  /\ \A m, n \in Nat : m <= n => m * k <= n * k
           /\ \A m, n \in Nat : m < n => m * k + k <= n * k
<1>1. \A m, n \in Nat : m <= n => m * k <= n * k
  OBVIOUS
<1>2. ASSUME NEW m \in Nat, NEW n \in Nat, m < n PROVE m * k + k <= n * k
  <2>1. (m + 1) * k <= n * k
    BY <1>1, <1>2
  <2>2. (m + 1) * k = m * k + k
    OBVIOUS
  <2> QED
    BY <2>1, <2>2
<1> QED
  BY <1>1, <1>2

LEMMA FlyingFinite ==
    ASSUME NEW S, S \subseteq Tasks
    PROVE  IsFiniteSet(S) /\ Cardinality(S) \in Nat /\ Cardinality(S) <= Callers
BY LedgerAssumption, FS_Subset, FS_CardinalityType DEF LedgerAssumption, Callers

LEMMA SettledOnFinite ==
    ASSUME TypeOK, Dues, IsFiniteSet(KnownRows), NEW d
    PROVE  /\ IsFiniteSet(SettledOn(d))
           /\ \A id \in SettledOn(d) : moved[id] \in Nat
           /\ SpentOn(d) \in Nat
<1>1. SettledOn(d) \subseteq KnownRows
  BY DEF SettledOn, KnownRows, Dues
<1>2. IsFiniteSet(SettledOn(d))
  BY <1>1, FS_Subset
<1>3. \A id \in SettledOn(d) : moved[id] \in Nat
  BY DEF SettledOn, TypeOK
<1> QED
  BY <1>2, <1>3, SumType DEF SpentOn

\* A step that settles nothing, and lets nobody new into the air.
LEMMA LimitKept ==
    ASSUME Priced, TypeOK, Dues, IsFiniteSet(KnownRows),
           NEW d, WithinLimit(d), SpentOn(d)' = SpentOn(d),
           \A t \in Tasks : InFlight(t, d)' => InFlight(t, d) /\ job'[t].amount = job[t].amount
    PROVE  WithinLimit(d)'
<1> DEFINE n == Cardinality(Flying(d))
           m == Cardinality(Flying(d)')
<1>1. Flying(d) \subseteq Tasks /\ Flying(d)' \subseteq Flying(d)
  BY DEF Flying
<1>2. IsFiniteSet(Flying(d)) /\ n \in Nat
  BY <1>1, FlyingFinite
<1>3. m \in Nat /\ m <= n
  BY <1>1, <1>2, FS_Subset, FS_CardinalityType
<1>4. Most \in Nat /\ Limit \in Int /\ Largest(Amounts) \in Nat /\ SpentOn(d) \in Nat
      /\ Largest(Amounts) <= Most
  BY Prices, SettledOnFinite DEF Most
<1>5. m * Most <= n * Most /\ n * Most \in Nat /\ m * Most \in Nat
  BY <1>2, <1>3, <1>4, Multiples
<1>6. CASE SpentOn(d) + n * Most <= Limit
  BY <1>4, <1>5, <1>6 DEF WithinLimit
<1>7. ASSUME NEW t \in Flying(d),
             SpentOn(d) + n * Most + job[t].amount <= Limit + Largest(Amounts)
      PROVE  WithinLimit(d)'
  <2>1. job[t].amount \in Nat
    BY <1>7 DEF Flying, TypeOK, Job
  <2>2. CASE t \in Flying(d)'
    <3>1. job'[t].amount = job[t].amount
      BY <2>2 DEF Flying
    <3>2. SpentOn(d)' + m * Most + job'[t].amount <= Limit + Largest(Amounts)
      <4> HIDE DEF n, m
      <4> QED
        BY <1>4, <1>5, <1>7, <2>1, <3>1
    <3> QED
      BY <2>2, <3>2 DEF WithinLimit
  <2>3. CASE t \notin Flying(d)'
    <3>1. Flying(d)' \subseteq Flying(d) \ {t}
      BY <1>1, <2>3
    <3>2. PICK F : F = Flying(d)
      OBVIOUS
    <3>3. IsFiniteSet(F \ {t}) /\ Cardinality(F \ {t}) = Cardinality(F) - 1
      BY <1>2, <1>7, <3>2, FS_RemoveElement
    <3>4. m <= n - 1
      BY <3>1, <3>2, <3>3, FS_Subset
    <3>5. m * Most + Most <= n * Most
      BY <1>2, <1>3, <1>4, <3>4, Multiples
    <3>6. SpentOn(d)' + m * Most <= Limit
      <4> HIDE DEF n, m
      <4> QED
        BY <1>4, <1>5, <1>7, <2>1, <3>5
    <3> QED
      BY <3>6 DEF WithinLimit
  <2> QED
    BY <2>2, <2>3
<1> QED
  BY <1>6, <1>7 DEF WithinLimit

\* What is settled is unmoved.
LEMMA SameSpent ==
    ASSUME TypeOK, Dues, IsFiniteSet(KnownRows), NEW d, SettledOn(d)' = SettledOn(d),
           \A id \in Ids : rows[id].settled => moved'[id] = moved[id]
    PROVE  SpentOn(d)' = SpentOn(d)
<1>1. \A id \in SettledOn(d) : moved[id] \in Nat /\ moved'[id] = moved[id]
  BY SettledOnFinite DEF SettledOn
<1>2. IsFiniteSet(SettledOn(d))
  BY SettledOnFinite
<1>3. SumFunctionOnSet(moved, SettledOn(d)) = SumFunctionOnSet(moved', SettledOn(d))
  BY <1>1, <1>2, SumSame
<1> QED
  BY <1>3 DEF SpentOn

\* The steps that leave the table alone.
LEMMA SameRowsLimit ==
    ASSUME Priced, TypeOK, Dues, IsFiniteSet(KnownRows), SpendInv, UNCHANGED rows,
           \A id \in Ids : rows[id].settled => moved'[id] = moved[id],
           \A t \in Tasks, d \in 0..LastDay :
               InFlight(t, d)' => InFlight(t, d) /\ job'[t].amount = job[t].amount
    PROVE  SpendInv'
<1> SUFFICES ASSUME NEW d \in 0..LastDay PROVE WithinLimit(d)'
  BY DEF SpendInv
<1>1. SettledOn(d)' = SettledOn(d)
  BY DEF SettledOn
<1>2. SpentOn(d)' = SpentOn(d)
  BY <1>1, SameSpent
<1> QED
  BY <1>2, LimitKept DEF SpendInv

\* The ledger counts at least what moved on this day or a later one.
LEMMA SpentIsCounted ==
    ASSUME TypeOK, Dues, MovedIsAccountedFor, IsFiniteSet(KnownRows),
           NEW d \in 0..LastDay, day <= d
    PROVE  SpentToday \in Nat /\ SpentOn(d) <= SpentToday
<1> DEFINE g == [id \in Ids |-> Counted(rows[id])]
           T == {id \in SettledRows : rows[id].day >= day}
<1>1. T \subseteq KnownRows
  BY DEF SettledRows, KnownRows, Dues
<1>2. IsFiniteSet(T)
  BY <1>1, FS_Subset
<1>3. \A id \in Ids : g[id] \in Nat /\ g[id] = Counted(rows[id])
  BY DEF TypeOK, Row, Counted
<1>4. T \subseteq Ids
  BY DEF SettledRows
<1>5. ASSUME NEW id \in SettledOn(d)
      PROVE  moved[id] = 0 \/ (id \in T /\ moved[id] <= g[id])
  <2>1. id \in Ids /\ rows[id].settled /\ rows[id].day = d /\ moved[id] \in Nat
    BY <1>5 DEF SettledOn, TypeOK
  <2>2. moved[id] > 0 => id \in SettledRows /\ Counted(rows[id]) = moved[id]
    BY <2>1 DEF MovedIsAccountedFor, UnreconciledRows
  <2>3. d >= day
    BY LedgerAssumption DEF TypeOK, LedgerAssumption
  <2>4. CASE moved[id] > 0
    BY <1>3, <2>1, <2>2, <2>3, <2>4
  <2> QED
    BY <2>1, <2>4
<1>6. /\ IsFiniteSet(SettledOn(d))
      /\ \A id \in SettledOn(d) : moved[id] \in Nat
  BY SettledOnFinite
<1>7. \A id \in T : g[id] \in Nat
  BY <1>3, <1>4
<1> HIDE DEF g, T
<1>8. SumFunctionOnSet(moved, SettledOn(d)) <= SumFunctionOnSet(g, T)
  BY <1>2, <1>5, <1>6, <1>7, SumBelow
<1>9. SumFunctionOnSet(g, T) \in Nat
  BY <1>2, <1>7, SumType
<1> QED
  BY <1>8, <1>9 DEF SpentOn, SpentToday, g, T

LEMMA SnapshotSpends ==
    ASSUME Priced, TypeOK, Dues, MovedIsAccountedFor, IsFiniteSet(KnownRows), SpendInv,
           NEW t \in Tasks, Snapshot(t)
    PROVE  SpendInv'
<1>1. PICK id \in Askable, a \in Amounts :
        job' = [job EXCEPT ![t] = [NoJob EXCEPT !.id = id, !.amount = a,
                   !.verdict = IF Fits(a) THEN "APPROVE" ELSE "REVIEW"]]
  BY DEF Snapshot
<1> DEFINE j == [NoJob EXCEPT !.id = id, !.amount = a,
                   !.verdict = IF Fits(a) THEN "APPROVE" ELSE "REVIEW"]
<1>2. (j.verdict = "APPROVE" <=> Fits(a)) /\ j.amount = a
  BY DEF NoJob
<1>3. job' = [job EXCEPT ![t] = j]
  BY <1>1
<1> HIDE DEF j
<1>4. /\ pc'[t] = "snapshot" /\ job'[t] = j
      /\ \A u \in Tasks \ {t} : pc'[u] = pc[u] /\ job'[u] = job[u]
      /\ UNCHANGED <<rows, day, moved>>
  BY <1>3 DEF Snapshot, Go, TypeOK
<1>5. \A u \in Tasks \ {t}, d \in 0..LastDay :
        InFlight(u, d)' => InFlight(u, d) /\ job'[u].amount = job[u].amount
  BY <1>4 DEF InFlight
<1> SUFFICES ASSUME NEW d \in 0..LastDay PROVE WithinLimit(d)'
  BY DEF SpendInv
<1>6. SettledOn(d)' = SettledOn(d)
  BY <1>4 DEF SettledOn
<1>7. SpentOn(d)' = SpentOn(d)
  BY <1>4, <1>6, SameSpent
<1>8. CASE ~ InFlight(t, d)'
  BY <1>5, <1>7, <1>8, LimitKept DEF SpendInv
<1>9. CASE InFlight(t, d)'
  <2>1. Fits(a) /\ day <= d
    BY <1>2, <1>4, <1>9 DEF InFlight
  <2>2. SpentToday \in Nat /\ SpentOn(d) <= SpentToday
    BY <2>1, SpentIsCounted
  <2>3. a \in Nat /\ a > 0 /\ DailyLimit \in Nat
    BY Prices, LedgerAssumption DEF LedgerAssumption
  <2>4. SpentToday + a <= DailyLimit
    BY <2>1, <2>2, <2>3 DEF Fits
  <2>5. PICK F : F = Flying(d)' /\ F \subseteq Tasks
    BY DEF Flying
  <2>6. Cardinality(F) \in Nat /\ Cardinality(F) <= Callers
    BY <2>5, FlyingFinite
  <2>7. /\ Most \in Nat /\ Callers \in Nat /\ Limit \in Int /\ Largest(Amounts) \in Nat
        /\ Limit + Largest(Amounts) = DailyLimit + Callers * Most
    BY Prices
  <2>8. Cardinality(F) * Most <= Callers * Most
    BY <2>6, <2>7, Multiples
  <2>9. SpentOn(d) \in Nat
    BY SettledOnFinite
  <2>10. Cardinality(F) * Most \in Nat /\ Callers * Most \in Nat
    BY <2>6, <2>7
  <2>11. SpentOn(d) + Cardinality(F) * Most + a <= Limit + Largest(Amounts)
    BY <2>2, <2>3, <2>4, <2>7, <2>8, <2>9, <2>10
  <2>12. t \in F /\ job'[t].amount = a
    BY <1>2, <1>4, <1>9, <2>5 DEF Flying
  <2>13. SpentOn(d)' + Cardinality(Flying(d)') * Most + job'[t].amount
           <= Limit + Largest(Amounts)
    BY <1>7, <2>5, <2>11, <2>12
  <2> QED
    BY <2>5, <2>12, <2>13 DEF WithinLimit
<1> QED
  BY <1>8, <1>9

\* A new row has not settled, and the caller flies on.
LEMMA RecordRowSpends ==
    ASSUME Priced, TypeOK, Standing, Dues, IsFiniteSet(KnownRows), SpendInv,
           NEW t \in Tasks, RecordRow(t)
    PROVE  SpendInv'
<1>1. /\ pc[t] = "ready" /\ pc'[t] = "recorded" /\ UNCHANGED <<job, moved, day>>
      /\ \A u \in Tasks \ {t} : pc'[u] = pc[u]
  BY DEF RecordRow, Go, TypeOK
<1>2. job[t].id \in Ids /\ rows[job[t].id] = NoRow
  BY <1>1, Busy DEF Standing, OnRecord, Asked
<1> DEFINE r == [NoRow EXCEPT !.verdict = job[t].verdict, !.amount = job[t].amount,
                              !.day = job[t].day]
<1>3. ~r.settled /\ ~NoRow.settled
  BY DEF NoRow
<1>4. rows' = [rows EXCEPT ![job[t].id] = r]
  BY DEF RecordRow
<1> HIDE DEF r
<1>5. rows'[job[t].id] = r /\ \A other \in Ids \ {job[t].id} : rows'[other] = rows[other]
  BY <1>2, <1>4 DEF TypeOK
<1> SUFFICES ASSUME NEW d \in 0..LastDay PROVE WithinLimit(d)'
  BY DEF SpendInv
<1>6. SettledOn(d)' = SettledOn(d)
  BY <1>2, <1>3, <1>5 DEF SettledOn
<1>7. SpentOn(d)' = SpentOn(d)
  BY <1>1, <1>6, SameSpent
<1>8. \A u \in Tasks : InFlight(u, d)' => InFlight(u, d) /\ job'[u].amount = job[u].amount
  BY <1>1 DEF InFlight
<1> QED
  BY <1>7, <1>8, LimitKept DEF SpendInv

\* A settlement takes from the caller's reserve what it adds to the day.
LEMMA MarkSettledSpends ==
    ASSUME Priced, TypeOK, Standing, Dues, IsFiniteSet(KnownRows), SpendInv,
           NEW t \in Tasks, MarkSettled(t)
    PROVE  SpendInv'
<1>1. /\ pc[t] = "answered" /\ pc'[t] = "settled" /\ UNCHANGED <<job, moved, day>>
      /\ \A u \in Tasks \ {t} : pc'[u] = pc[u]
  BY DEF MarkSettled, Go, TypeOK
<1>2. PICK id \in Ids : id = job[t].id
  BY <1>1, Busy
<1>3. /\ job[t].verdict = "APPROVE" /\ ~rows[id].settled /\ rows[id].day = job[t].day
      /\ moved[id] <= job[t].amount + Largest(Drift) /\ job[t].amount \in Amounts
  BY <1>1, <1>2 DEF Standing, OnRecord, Sent, Recorded, Dues, Due
<1>4. rows'[id].settled /\ rows'[id].day = job[t].day
  BY <1>2, MarkSettledDue
<1>5. \A other \in Ids \ {id} : rows'[other] = rows[other]
  BY <1>2, WorkIsOwn DEF Work, OwnStep
<1> SUFFICES ASSUME NEW d \in 0..LastDay PROVE WithinLimit(d)'
  BY DEF SpendInv
<1>6. \A u \in Tasks : InFlight(u, d)' <=> InFlight(u, d) /\ u # t
  BY <1>1 DEF InFlight
<1>7. CASE job[t].day # d
  <2>1. SettledOn(d)' = SettledOn(d)
    BY <1>3, <1>4, <1>5, <1>7 DEF SettledOn
  <2>2. SpentOn(d)' = SpentOn(d)
    BY <1>1, <2>1, SameSpent
  <2> QED
    BY <1>1, <1>6, <2>2, LimitKept DEF SpendInv
<1>8. CASE job[t].day = d
  <2>1. SettledOn(d)' = SettledOn(d) \cup {id} /\ id \notin SettledOn(d)
    BY <1>3, <1>4, <1>5, <1>8 DEF SettledOn
  <2>2. /\ IsFiniteSet(SettledOn(d))
        /\ \A y \in SettledOn(d) : moved[y] \in Nat
        /\ SpentOn(d) \in Nat
    BY SettledOnFinite
  <2>3. moved[id] \in Nat
    BY DEF TypeOK
  <2>4. SpentOn(d)' = moved[id] + SpentOn(d)
    <3>1. SumFunctionOnSet(moved, SettledOn(d) \cup {id})
            = moved[id] + SumFunctionOnSet(moved, SettledOn(d))
      BY <2>1, <2>2, <2>3, SumAdd
    <3> QED
      BY <1>1, <2>1, <3>1 DEF SpentOn
  <2>5. PICK F, G : F = Flying(d) /\ G = Flying(d)'
    OBVIOUS
  <2>6. F \subseteq Tasks /\ t \in F /\ G = F \ {t}
    BY <1>1, <1>3, <1>6, <1>8, <2>5 DEF Flying, InFlight
  <2>7. IsFiniteSet(F) /\ Cardinality(F) \in Nat /\ IsFiniteSet(F \ {t})
        /\ Cardinality(F \ {t}) = Cardinality(F) - 1
    BY <2>6, FlyingFinite, FS_RemoveElement
  <2>8. Cardinality(G) \in Nat /\ Cardinality(G) <= Cardinality(F) - 1
    BY <2>6, <2>7, FS_Subset, FS_CardinalityType
  <2>9. /\ Most \in Nat /\ Limit \in Int /\ Largest(Amounts) \in Nat
        /\ Largest(Drift) \in Nat
        /\ Most = Largest(Amounts) + Largest(Drift)
        /\ job[t].amount \in Nat /\ job[t].amount <= Largest(Amounts)
    BY <1>3, Prices DEF Most
  <2>10. Cardinality(G) * Most + Most <= Cardinality(F) * Most
    <3>1. Cardinality(G) < Cardinality(F)
      BY <2>7, <2>8
    <3> QED
      BY <2>7, <2>8, <2>9, <3>1, Multiples
  <2>11. Cardinality(G) * Most \in Nat /\ Cardinality(F) * Most \in Nat
    BY <2>7, <2>8, <2>9
  <2> DEFINE x == Cardinality(F) * Most
             y == Cardinality(G) * Most
  <2>12. x \in Nat /\ y \in Nat /\ y + Most <= x
    BY <2>10, <2>11
  <2>13. CASE SpentOn(d) + x <= Limit
    <3>1. SpentOn(d)' + y <= Limit
      <4> HIDE DEF x, y
      <4> QED
        BY <1>3, <2>2, <2>3, <2>4, <2>9, <2>12, <2>13
    <3> QED
      BY <2>5, <3>1 DEF WithinLimit
  <2>14. ASSUME NEW u \in F, SpentOn(d) + x + job[u].amount <= Limit + Largest(Amounts)
         PROVE  WithinLimit(d)'
    <3>1. job[u].amount \in Nat
      BY <2>6, <2>14 DEF TypeOK, Job
    <3>2. CASE u = t
      <4>1. SpentOn(d)' + y <= Limit
        <5> HIDE DEF x, y
        <5> QED
          BY <1>3, <2>2, <2>3, <2>4, <2>9, <2>12, <2>14, <3>2
      <4> QED
        BY <2>5, <4>1 DEF WithinLimit
    <3>3. CASE u # t /\ u \in G
      <4>1. SpentOn(d)' + y + job[u].amount <= Limit + Largest(Amounts)
        <5> HIDE DEF x, y
        <5> QED
          BY <1>3, <2>2, <2>3, <2>4, <2>9, <2>12, <2>14, <3>1
      <4>2. job'[u].amount = job[u].amount
        BY <1>1
      <4> QED
        BY <2>5, <3>3, <4>1, <4>2 DEF WithinLimit
    <3> QED
      BY <2>6, <2>14, <3>2, <3>3
  <2>15. WithinLimit(d)
    BY DEF SpendInv
  <2> QED
    BY <2>5, <2>13, <2>14, <2>15 DEF WithinLimit
<1> QED
  BY <1>7, <1>8

\* The steps of a decision, and the way out, settle nothing.
LEMMA RestSpends ==
    ASSUME Priced, TypeOK, Standing, Dues, IsFiniteSet(KnownRows), SpendInv,
           NEW t \in Tasks, Work(t), ~RecordRow(t), ~MarkSettled(t)
    PROVE  SpendInv'
<1>1. OwnStep(t) /\ pc[t] # "idle" /\ UNCHANGED <<rows, day>>
  BY WorkIsOwn DEF Work, Decide, ReadFreeze, CheckReplay, Consult, AppendDecision, Rewriting, Enqueue,
     RailAnswers, RailRaises, AppendSettlement
<1>2. job[t] \in Job /\ job[t].verdict \in Verdicts /\ job[t].id \in Ids
  BY <1>1, Busy
<1>3. \A id \in Ids : rows[id].settled => moved'[id] = moved[id]
  <2>1. CASE UNCHANGED moved
    BY <2>1
  <2>2. CASE RailAnswers(t) \/ RailRaises(t)
    <3>1. pc[t] = "paying"
      BY <2>2 DEF RailAnswers, RailRaises
    <3>2. ~rows[job[t].id].settled
      BY <3>1 DEF Standing, OnRecord, Recorded
    <3> QED
      BY <1>1, <3>2 DEF OwnStep
  <2> QED
    BY <2>1, <2>2 DEF Work, Decide, ReadFreeze, CheckReplay, Consult, AppendDecision,
       Rewriting, Enqueue, AppendSettlement
<1>4. ASSUME NEW d \in 0..LastDay, InFlight(t, d)'
      PROVE  InFlight(t, d) /\ job'[t].amount = job[t].amount
  <2>1. CASE Decide(t)
    <3>1. PICK rule \in PolicyVerdicts :
            job' = [job EXCEPT ![t].verdict = Narrower(rule, @), ![t].day = day]
      BY <2>1 DEF Decide
    <3>2. rule \in Verdicts /\ pc[t] = "snapshot" /\ pc'[t] = "decided"
      BY <2>1, LedgerAssumption DEF LedgerAssumption, Decide, Go, TypeOK
    <3>3. /\ job'[t].verdict = Narrower(rule, job[t].verdict)
          /\ job'[t].day = day /\ job'[t].amount = job[t].amount
      BY <1>2, <3>1 DEF TypeOK, Job
    <3>4. job[t].verdict = "APPROVE"
      BY <1>2, <1>4, <3>2, <3>3, NarrowerApproves DEF InFlight
    <3>5. day <= d
      BY <1>4, <3>2, <3>3 DEF InFlight
    <3> QED
      BY <3>2, <3>3, <3>4, <3>5 DEF InFlight
  <2>2. CASE ReadFreeze(t)
    <3>1. /\ pc[t] = "decided" /\ pc'[t] = "checked" /\ job'[t].day = job[t].day
          /\ job'[t].amount = job[t].amount /\ job'[t].verdict \in {job[t].verdict, "REJECT"}
      BY <1>2, <2>2 DEF ReadFreeze, Go, TypeOK, Job
    <3> QED
      BY <1>4, <3>1 DEF InFlight
  <2>3. CASE CheckReplay(t)
    <3>1. /\ pc[t] = "checked" /\ pc'[t] = "ready" /\ job'[t].day = job[t].day
          /\ job'[t].amount = job[t].amount /\ job'[t].verdict \in {job[t].verdict, "REJECT"}
      BY <1>2, <2>3 DEF CheckReplay, Go, TypeOK, Job
    <3> QED
      BY <1>4, <3>1 DEF InFlight
  <2>4. CASE Consult(t)
    <3>1. PICK r \in PolicyVerdicts : job' = [job EXCEPT ![t].verdict = Narrower(@, r)]
      BY <2>4 DEF Consult
    <3>2. /\ r \in Verdicts /\ pc[t] = "checked" /\ pc'[t] = "ready"
          /\ job'[t].verdict = Narrower(job[t].verdict, r)
          /\ job'[t].day = job[t].day /\ job'[t].amount = job[t].amount
      BY <1>2, <2>4, <3>1, LedgerAssumption DEF LedgerAssumption, Consult, Go, TypeOK, Job
    <3>3. job[t].verdict = "APPROVE"
      BY <1>2, <1>4, <3>2, NarrowerApproves DEF InFlight
    <3> QED
      BY <1>4, <3>2, <3>3 DEF InFlight
  <2>5. CASE AppendDecision(t)
    <3>1. /\ pc[t] = "recorded"
          /\ \/ pc'[t] = "paying" /\ job'[t] = job[t]
             \/ pc'[t] \in {"queueing", "idle"}
      BY <2>5 DEF AppendDecision, Go, Leave, TypeOK
    <3> QED
      BY <1>4, <3>1 DEF InFlight
  <2>6. CASE RailAnswers(t)
    <3>1. /\ pc[t] = "paying" /\ pc'[t] = "answered"
          /\ job'[t].verdict = job[t].verdict
          /\ job'[t].day = job[t].day /\ job'[t].amount = job[t].amount
      BY <1>2, <2>6 DEF RailAnswers, Go, TypeOK, Job
    <3> QED
      BY <1>4, <3>1 DEF InFlight
  <2>7. CASE Enqueue(t) \/ RailRaises(t) \/ AppendSettlement(t)
    <3>1. pc'[t] = "idle"
      BY <2>7 DEF Enqueue, RailRaises, AppendSettlement, Go, Leave, TypeOK
    <3> QED
      BY <1>4, <3>1 DEF InFlight
  <2>8. CASE Rewriting(t)
    <3>1. pc'[t] = "queueing"
      BY <2>8 DEF Rewriting
    <3> QED
      BY <1>4, <3>1 DEF InFlight
  <2> QED
    BY <2>1, <2>2, <2>3, <2>4, <2>5, <2>6, <2>7, <2>8 DEF Work
<1>5. \A u \in Tasks, d \in 0..LastDay :
        InFlight(u, d)' => InFlight(u, d) /\ job'[u].amount = job[u].amount
  <2>1. \A u \in Tasks \ {t} : pc'[u] = pc[u] /\ job'[u] = job[u]
    BY <1>1 DEF OwnStep
  <2> QED
    BY <1>1, <1>4, <2>1 DEF InFlight
<1> QED
  BY <1>1, <1>3, <1>5, SameRowsLimit

LEMMA SpendStep ==
    ASSUME Priced, TypeOK, Standing, Dues, MovedIsAccountedFor, IsFiniteSet(KnownRows),
           SpendInv, [Next]_vars
    PROVE  SpendInv'
<1>1. ASSUME NEW t \in Tasks, Snapshot(t) \/ Work(t) PROVE SpendInv'
  BY <1>1, SnapshotSpends, RecordRowSpends, MarkSettledSpends, RestSpends
<1>2. ASSUME NEW p \in Processes, Crash(p) PROVE SpendInv'
  <2>1. UNCHANGED <<rows, day, moved>>
    BY <1>2 DEF Crash
  <2>2. \A t \in Tasks : \/ pc'[t] = "idle"
                         \/ pc'[t] = pc[t] /\ job'[t] = job[t]
    BY <1>2 DEF Crash
  <2>3. \A t \in Tasks, d \in 0..LastDay :
          InFlight(t, d)' => InFlight(t, d) /\ job'[t].amount = job[t].amount
    BY <2>1, <2>2 DEF InFlight
  <2> QED
    BY <2>1, <2>3, SameRowsLimit
<1>3. CASE Around \/ UNCHANGED vars
  <2>1. UNCHANGED <<rows, pc, job, moved>>
    BY <1>3, OtherSteps
  <2>2. day \in Nat /\ (day' = day \/ day' = day + 1)
    BY <1>3, LedgerAssumption DEF Around, Resolve, BeginFreeze, BeginClear, FinishWrite,
       NextDay, vars, TypeOK, LedgerAssumption
  <2>3. \A t \in Tasks, d \in 0..LastDay :
          InFlight(t, d)' => InFlight(t, d) /\ job'[t].amount = job[t].amount
    BY <2>1, <2>2, LedgerAssumption DEF InFlight, LedgerAssumption
  <2> QED
    BY <2>1, <2>3, SameRowsLimit
<1> QED
  BY <1>1, <1>2, <1>3 DEF Next, Around

LEMMA SpendInit == Priced /\ Init => SpendInv
<1> SUFFICES ASSUME Priced, Init, NEW d \in 0..LastDay PROVE WithinLimit(d)
  BY DEF SpendInv
<1>1. SettledOn(d) = {} /\ Flying(d) = {}
  BY DEF Init, SettledOn, Flying, InFlight, NoRow
<1>2. SpentOn(d) = 0
  BY <1>1, SumEmpty DEF SpentOn
<1>3. Cardinality(Flying(d)) = 0
  BY <1>1, FS_EmptySet
<1>4. /\ Most \in Nat /\ Callers \in Nat /\ Callers >= 1 /\ DailyLimit \in Nat
      /\ Largest(Amounts) \in Nat /\ Largest(Drift) \in Nat
  BY Prices, LedgerAssumption DEF LedgerAssumption
<1>5. (Callers - 1) * Largest(Amounts) >= 0 /\ Callers * Largest(Drift) >= 0
  BY <1>4
<1>6. 0 <= Limit
  BY <1>4, <1>5 DEF Limit
<1> QED
  BY <1>2, <1>3, <1>4, <1>6 DEF WithinLimit

\* The money that settled in a day stays within the daily limit and one batch, the callers
\* in flight together when the last of them took its snapshot, for any number of callers,
\* processes and requests, whatever crashes, raises or charges more than the quote.  The
\* callers report what moved and bring no id twice, and no request is for nothing: a quote
\* of zero fits a budget that is spent, however often it is charged more.
THEOREM LedgerSpendBounded ==
    ASSUME ~ReuseIds, \A t \in Tasks : Reporting[t] = "actual", Priced
    PROVE  Spec => []SpendBounded
<1>1. TypeOK /\ Dues /\ ActionsInv /\ SpendInv => SpendBounded
  <2> SUFFICES ASSUME TypeOK, Dues, ActionsInv, SpendInv, NEW d \in 0..LastDay
               PROVE  SpentOn(d) <= Limit
    BY DEF SpendBounded, SpentOn, SettledOn, Limit
  <2>1. SpentOn(d) \in Nat
    BY SettledOnFinite DEF ActionsInv
  <2>2. /\ Most \in Nat /\ Limit \in Int /\ Largest(Amounts) \in Nat /\ Largest(Drift) \in Nat
        /\ Most = Largest(Amounts) + Largest(Drift)
    BY Prices DEF Most
  <2>3. PICK F : F = Flying(d) /\ F \subseteq Tasks
    BY DEF Flying
  <2>4. IsFiniteSet(F) /\ Cardinality(F) \in Nat /\ Cardinality(F) * Most \in Nat
    BY <2>2, <2>3, FlyingFinite
  <2>5. CASE SpentOn(d) + Cardinality(F) * Most <= Limit
    BY <2>1, <2>2, <2>4, <2>5
  <2>6. ASSUME NEW t \in F,
               SpentOn(d) + Cardinality(F) * Most + job[t].amount <= Limit + Largest(Amounts)
        PROVE  SpentOn(d) <= Limit
    <3>1. Cardinality(F) # 0
      BY <2>4, <2>6, FS_EmptySet
    <3>2. 0 * Most + Most <= Cardinality(F) * Most
      BY <2>2, <2>4, <3>1, Multiples
    <3>3. job[t].amount \in Nat
      BY <2>3, <2>6 DEF TypeOK, Job
    <3> QED
      BY <2>1, <2>2, <2>4, <2>6, <3>2, <3>3
  <2>7. WithinLimit(d)
    BY DEF SpendInv
  <2> QED
    BY <2>3, <2>5, <2>6, <2>7 DEF WithinLimit
<1>2. IInv /\ [Next]_vars => IInv'
  BY IInvStep
<1>3. IInv /\ IInv' /\ MovedIsAccountedFor /\ [Next]_vars => MovedIsAccountedFor'
  BY AccountedStep
<1>4. Init => MovedIsAccountedFor
  BY DEF Init, MovedIsAccountedFor
<1>5. IInv /\ Turns /\ [Next]_vars => Turns'
  BY TurnsStep DEF IInv
<1>6. IInv /\ Turns /\ ActionsInv /\ [Next]_vars => ActionsInv'
  BY ActionsStep DEF IInv
<1>7. IInv /\ Dues /\ [Next]_vars => Dues'
  BY DuesStep DEF IInv, Priced
<1>8. IInv /\ Dues /\ MovedIsAccountedFor /\ ActionsInv /\ SpendInv /\ [Next]_vars => SpendInv'
  BY SpendStep DEF IInv, ActionsInv
<1>9. IInv => TypeOK
  BY DEF IInv
<1>10. Init => SpendInv
  BY SpendInit
<1> QED
  BY <1>1, <1>2, <1>3, <1>4, <1>5, <1>6, <1>7, <1>8, <1>9, <1>10,
     IInvInit, TurnsInit, ActionsInit, DuesInit, PTL DEF Spec
=============================================================================

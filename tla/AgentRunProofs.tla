--------------------------- MODULE AgentRunProofs ---------------------------
(***************************************************************************)
(* Theorems about agent runs, for any number of cockpits, guarded agents,  *)
(* models, requests and budgets.                                           *)
(***************************************************************************)
EXTENDS AgentRun, TLAPS

-----------------------------------------------------------------------------
(***************************************************************************)
(* Types.                                                                  *)
(***************************************************************************)
Verdict == {"APPROVE", "REJECT", None}
RowType == [verdict : Verdict, amount : Nat, settled : BOOLEAN, success : BOOLEAN,
            paid : Nat \cup {NotReported}]

\* TypeOK without its last conjunct: the variables one by one.
Typed ==
    /\ rows \in [Ids -> RowType]
    /\ decisions \in [Ids -> Nat] /\ stops \in [Ids -> Nat] /\ receipts \in [Ids -> Nat]
    /\ overrides \subseteq Ids /\ gone \subseteq Ids /\ shown \subseteq Ids
    /\ stale \subseteq Ids /\ unrecorded \subseteq Ids
    /\ precheck \in [Cockpits -> [Models -> Ids \cup {None}]]
    /\ run \in [Hosts -> [id : Ids \cup {None}, budget : Nat]]
    /\ tripped \in [Hosts -> BOOLEAN] /\ spent \in [Hosts -> Nat]
    /\ steps \in [Hosts -> Nat]
    /\ phase \in [Hosts -> Places]
    /\ cost \in [Ids -> Nat \cup {NotReported}]

Carrying == \A h \in Hosts : Open(h) <=> run[h].id # None

LEMMA TypesAre == TypeOK <=> Typed /\ Carrying
  BY DEF TypeOK, Typed, Carrying, RowType, Verdict

LEMMA TypedInit == Init => Typed /\ Carrying
<1> SUFFICES ASSUME Init
             PROVE  Typed /\ Carrying
  OBVIOUS
<1>1. NoRow \in RowType /\ NoRun \in [id : Ids \cup {None}, budget : Nat]
  BY DEF NoRow, NoRun, RowType, Verdict, NotReported
<1>2. "idle" \in Places /\ NotReported \in Nat \cup {NotReported}
  BY DEF Places
<1>3. Typed
  BY <1>1, <1>2 DEF Init, Typed
<1>4. Carrying
  BY DEF Init, Carrying, Open, NoRun
<1> QED
  BY <1>3, <1>4

\* A row that is recorded has its type, and nothing was settled or paid on it.
LEMMA RowIs ==
    ASSUME NEW budget \in Budgets
    PROVE  /\ Row(budget) \in RowType
           /\ Row(budget).verdict = (IF Fits(budget) THEN "APPROVE" ELSE "REJECT")
           /\ Row(budget).verdict # None
           /\ Row(budget).amount = budget /\ ~Row(budget).settled
           /\ Row(budget).paid = NotReported
<1>1. budget \in Nat /\ None \notin {"APPROVE", "REJECT"}
  BY AgentRunAssumption DEF AgentRunAssumption
<1>2. PICK v : v = IF Fits(budget) THEN "APPROVE" ELSE "REJECT"
  OBVIOUS
<1>3. Row(budget) = [NoRow EXCEPT !.amount = budget, !.verdict = v]
  BY <1>2 DEF Row
<1>4. v \in {"APPROVE", "REJECT"}
  BY <1>2
<1>5. /\ Row(budget) \in RowType
      /\ Row(budget).verdict = v
      /\ Row(budget).amount = budget /\ ~Row(budget).settled
      /\ Row(budget).paid = NotReported
  BY <1>1, <1>3, <1>4 DEF NoRow, RowType, Verdict, NotReported
<1> QED
  BY <1>1, <1>2, <1>4, <1>5

\* An id that a run may get.
LEMMA RunIdsAre ==
    ASSUME Typed, NEW c \in Cockpits, NEW m \in Models
    PROVE  RunIds(c, m) \subseteq Ids
BY DEF RunIds, Fresh, Typed

\* A row whose entry the journal refuses.
LEMMA TypedRefusing ==
    ASSUME Typed, Carrying, NEW id \in Ids, NEW budget \in Budgets, Unjournalled(id, budget),
           precheck' \in [Cockpits -> [Models -> Ids \cup {None}]], stale' \subseteq Ids
    PROVE  Typed' /\ Carrying'
<1>1. /\ rows' = [rows EXCEPT ![id] = Row(budget)]
      /\ gone' = gone \cup {id}
      /\ UNCHANGED <<decisions, overrides, stops, receipts, run, tripped, phase, spent, steps,
                     cost, shown, unrecorded>>
  BY DEF Unjournalled
<1>2. rows' \in [Ids -> RowType] /\ gone' \subseteq Ids
  BY <1>1, RowIs DEF Typed
<1> QED
  BY <1>1, <1>2 DEF Typed, Carrying, Open

\* The id a run is opened under, and what stands there.
LEMMA TypedOpening ==
    ASSUME Typed, Carrying, NEW h \in Hosts, NEW id \in Ids, NEW budget \in Budgets,
           Authorize(id, budget), Opened(h, id, budget)
    PROVE  /\ rows' \in [Ids -> RowType]
           /\ decisions' \in [Ids -> Nat]
           /\ run' \in [Hosts -> [id : Ids \cup {None}, budget : Nat]]
           /\ tripped' \in [Hosts -> BOOLEAN] /\ spent' \in [Hosts -> Nat]
           /\ steps' \in [Hosts -> Nat]
           /\ phase' \in [Hosts -> Places]
           /\ Carrying'
<1> USE AgentRunAssumption
<1>1. budget \in Nat
  BY DEF AgentRunAssumption
<1>3. rows' \in [Ids -> RowType] /\ decisions' \in [Ids -> Nat]
  <2>1. rows' = [rows EXCEPT ![id] = Row(budget)] /\ decisions' = [decisions EXCEPT ![id] = @ + 1]
    BY DEF Authorize
  <2> QED
    BY <2>1, RowIs DEF Typed
<1> DEFINE opened == IF Fits(budget) THEN [id |-> id, budget |-> budget] ELSE NoRun
<1> DEFINE place == IF ~Fits(budget) THEN "idle"
                    ELSE IF AsksFirst(h) THEN "stepped" ELSE "running"
<1>4. /\ opened \in [id : Ids \cup {None}, budget : Nat]
      /\ place \in Places
      /\ opened.id # None <=> place # "idle"
  BY <1>1 DEF NoRun, Places, AgentRunAssumption
<1>5. /\ run' = [run EXCEPT ![h] = opened]
      /\ phase' = [phase EXCEPT ![h] = place]
      /\ tripped' = [tripped EXCEPT ![h] = FALSE]
      /\ spent' = [spent EXCEPT ![h] = 0] /\ steps' = [steps EXCEPT ![h] = 0]
  BY DEF Opened, Go
<1> HIDE DEF opened, place
<1>6. /\ run' \in [Hosts -> [id : Ids \cup {None}, budget : Nat]]
      /\ tripped' \in [Hosts -> BOOLEAN] /\ spent' \in [Hosts -> Nat]
      /\ steps' \in [Hosts -> Nat]
      /\ phase' \in [Hosts -> Places]
  BY <1>4, <1>5 DEF Typed
<1>7. Carrying'
  BY <1>4, <1>5 DEF Typed, Carrying, Open
<1> QED
  BY <1>3, <1>6, <1>7

\* A run is let go of: after its receipt, or by a crash.
LEMMA TypedClosing ==
    ASSUME Typed, Carrying, NEW h \in Hosts, Go(h, "idle"),
           run' = [run EXCEPT ![h] = NoRun],
           spent' = [spent EXCEPT ![h] = 0], steps' = [steps EXCEPT ![h] = 0]
    PROVE  /\ run' \in [Hosts -> [id : Ids \cup {None}, budget : Nat]]
           /\ spent' \in [Hosts -> Nat] /\ steps' \in [Hosts -> Nat]
           /\ phase' \in [Hosts -> Places]
           /\ Carrying'
<1>1. NoRun \in [id : Ids \cup {None}, budget : Nat] /\ NoRun.id = None
  BY DEF NoRun
<1>2. phase' = [phase EXCEPT ![h] = "idle"] /\ "idle" \in Places
  BY DEF Go, Places
<1>3. /\ run' \in [Hosts -> [id : Ids \cup {None}, budget : Nat]]
      /\ spent' \in [Hosts -> Nat] /\ steps' \in [Hosts -> Nat]
      /\ phase' \in [Hosts -> Places]
  BY <1>1, <1>2 DEF Typed
<1>4. Carrying'
  BY <1>1, <1>2 DEF Typed, Carrying, Open
<1> QED
  BY <1>3, <1>4

\* A busy host goes from one place to another.
LEMMA TypedGoing ==
    ASSUME Typed, Carrying, NEW h \in Hosts, phase[h] # "idle",
           NEW place \in Places \ {"idle"}, Go(h, place), run' = run
    PROVE  phase' \in [Hosts -> Places] /\ Carrying'
  BY DEF Typed, Carrying, Open, Go

\* A busy host carries a run.
LEMMA Carried ==
    ASSUME Typed, Carrying, NEW h \in Hosts, phase[h] # "idle"
    PROVE  run[h].id \in Ids /\ run[h].budget \in Nat /\ spent[h] \in Nat
  BY DEF Typed, Carrying, Open

\* What MarkSettled does to the row of the run, and to no other.
LEMMA SettlingMarks ==
    ASSUME Typed, NEW id \in Ids, NEW success \in BOOLEAN, NEW paid \in Nat \cup {NotReported},
           MarkSettled(id, success, paid)
    PROVE  /\ rows' \in [Ids -> RowType]
           /\ rows'[id].verdict = rows[id].verdict /\ rows'[id].amount = rows[id].amount
           /\ rows'[id].settled
           /\ rows'[id].paid = (IF paid = NotReported THEN rows[id].paid ELSE paid)
           /\ \A i \in Ids \ {id} : rows'[i] = rows[i]
           /\ decisions' = decisions
<1>1. rows \in [Ids -> RowType] /\ rows[id] \in RowType
  BY DEF Typed
<1>2. PICK p : p = IF paid = NotReported THEN rows[id].paid ELSE paid
  OBVIOUS
<1>3. p \in Nat \cup {NotReported}
  BY <1>1, <1>2 DEF RowType
<1>4. rows' = [rows EXCEPT ![id] = [rows[id] EXCEPT !.settled = TRUE, !.success = success,
                                                     !.paid = p]]
  BY <1>1, <1>2 DEF MarkSettled, RowType
<1>5. PICK row : row = [rows[id] EXCEPT !.settled = TRUE, !.success = success, !.paid = p]
  OBVIOUS
<1>6. /\ row \in RowType
      /\ row.verdict = rows[id].verdict /\ row.amount = rows[id].amount
      /\ row.settled = TRUE /\ row.paid = p
  BY <1>1, <1>3, <1>5 DEF RowType
<1>7. /\ rows' \in [Ids -> RowType] /\ rows'[id] = row
      /\ \A i \in Ids \ {id} : rows'[i] = rows[i]
  BY <1>1, <1>4, <1>5, <1>6
<1>8. decisions' = decisions
  BY DEF MarkSettled
<1> QED
  BY <1>2, <1>6, <1>7, <1>8

LEMMA TypedSettling ==
    ASSUME Typed, NEW id \in Ids, NEW success \in BOOLEAN,
           NEW paid \in Nat \cup {NotReported}, MarkSettled(id, success, paid)
    PROVE  rows' \in [Ids -> RowType] /\ decisions' = decisions
  BY SettlingMarks

LEMMA TypedCockpit ==
    ASSUME Typed, Carrying, NEW c \in Cockpits, Cockpit(c)
    PROVE  Typed' /\ Carrying'
<1>0. c \in Hosts
  BY DEF Hosts
<1>1. ASSUME NEW m \in Models, PrecheckRun(c, m)
      PROVE  Typed' /\ Carrying'
  <2>1. PICK id \in Fresh : /\ precheck' = [precheck EXCEPT ![c][m] = id]
                            /\ shown' = shown \cup {id}
    BY <1>1 DEF PrecheckRun
  <2>2. id \in Ids
    BY DEF Fresh
  <2>3. precheck' \in [Cockpits -> [Models -> Ids \cup {None}]] /\ shown' \subseteq Ids
    BY <2>1, <2>2 DEF Typed
  <2>4. stale' \subseteq Ids
    BY <1>1 DEF PrecheckRun, Typed
  <2> QED
    BY <1>1, <2>3, <2>4 DEF PrecheckRun, settling, Typed, Carrying, Open
<1>2. ASSUME NEW id \in Ids, RecordOverride(c, id)
      PROVE  Typed' /\ Carrying'
  <2>1. overrides' \subseteq Ids
    BY <1>2 DEF RecordOverride, Typed
  <2> QED
    BY <1>2, <2>1 DEF RecordOverride, settling, Typed, Carrying, Open
<1>3. ASSUME NEW m \in Models, NEW budget \in Budgets, AuthorizeRun(c, m, budget)
      PROVE  Typed' /\ Carrying'
  <2>1. PICK id \in RunIds(c, m) : Authorize(id, budget) /\ Opened(c, id, budget)
    BY <1>3 DEF AuthorizeRun
  <2>2. id \in Ids
    BY RunIdsAre
  <2>3. precheck' \in [Cockpits -> [Models -> Ids \cup {None}]]
    BY <1>3 DEF AuthorizeRun, Taken, Typed
  <2>4. gone' \subseteq Ids
    <3>1. gone' = gone \cup ({run[c].id} \ {None})
      BY <1>3 DEF AuthorizeRun
    <3>2. run[c].id \in Ids \cup {None}
      BY <1>0 DEF Typed
    <3> QED
      BY <3>1, <3>2 DEF Typed
  <2>5. /\ rows' \in [Ids -> RowType]
        /\ decisions' \in [Ids -> Nat]
        /\ run' \in [Hosts -> [id : Ids \cup {None}, budget : Nat]]
        /\ tripped' \in [Hosts -> BOOLEAN] /\ spent' \in [Hosts -> Nat]
        /\ steps' \in [Hosts -> Nat]
        /\ phase' \in [Hosts -> Places]
        /\ Carrying'
    BY <1>0, <2>1, <2>2, TypedOpening
  <2>6. UNCHANGED <<overrides, stops, receipts, cost, shown, stale, unrecorded>>
    BY <1>3 DEF AuthorizeRun
  <2> QED
    BY <2>3, <2>4, <2>5, <2>6 DEF Typed
<1>4. ASSUME CheckSpend(c)
      PROVE  Typed' /\ Carrying'
  <2>1. phase[c] # "idle"
    BY <1>4 DEF CheckSpend
  <2>2. run[c].id \in Ids
    BY <1>0, <2>1, Carried
  <2>3. tripped' \in [Hosts -> BOOLEAN]
    BY <1>4 DEF CheckSpend, Typed
  <2>4. Go(c, IF tripped'[c] THEN "told" ELSE "running") /\ run' = run
    BY <1>4 DEF CheckSpend
  <2>5. (IF tripped'[c] THEN "told" ELSE "running") \in Places \ {"idle"}
    BY DEF Places
  <2>6. phase' \in [Hosts -> Places] /\ Carrying'
    BY <1>0, <2>1, <2>4, <2>5, TypedGoing
  <2>7. stops' \in [Ids -> Nat]
    BY <1>4, <2>2 DEF CheckSpend, Typed
  <2>8. UNCHANGED <<rows, receipts, cost, decisions, overrides, precheck, run, spent, steps,
                    gone, shown, stale, unrecorded>>
    BY <1>4 DEF CheckSpend, settling, asking
  <2> QED
    BY <2>3, <2>6, <2>7, <2>8 DEF Typed
<1>5. ASSUME SettleRun(c)
      PROVE  Typed' /\ Carrying'
  <2>1. phase[c] # "idle"
    BY <1>5 DEF SettleRun, Ending
  <2>2. run[c].id \in Ids /\ spent[c] \in Nat
    BY <1>0, <2>1, Carried
  <2>3. rows' \in [Ids -> RowType] /\ decisions' = decisions
    <3>1. PICK success \in BOOLEAN : MarkSettled(run[c].id, success, NotReported)
      BY <1>5 DEF SettleRun
    <3> QED
      BY <2>2, <3>1, TypedSettling
  <2>4. Go(c, "correcting") /\ run' = run /\ "correcting" \in Places \ {"idle"}
    BY <1>5 DEF SettleRun, Places
  <2>5. phase' \in [Hosts -> Places] /\ Carrying'
    BY <1>0, <2>1, <2>4, TypedGoing
  <2>6. cost' \in [Ids -> Nat \cup {NotReported}]
    BY <1>5, <2>2 DEF SettleRun, Typed
  <2>7. UNCHANGED <<overrides, stops, receipts, precheck, run, tripped, spent, steps,
                    gone, shown, stale, unrecorded>>
    BY <1>5 DEF SettleRun, asking
  <2> QED
    BY <2>3, <2>5, <2>6, <2>7 DEF Typed
<1>6. ASSUME CorrectAmount(c)
      PROVE  Typed' /\ Carrying'
  <2>1. phase[c] # "idle"
    BY <1>6 DEF CorrectAmount
  <2>2. run[c].id \in Ids /\ spent[c] \in Nat
    BY <1>0, <2>1, Carried
  <2>3. rows' \in [Ids -> RowType]
    <3>1. rows \in [Ids -> RowType] /\ rows[run[c].id] \in RowType
      BY <2>2 DEF Typed
    <3>2. [rows[run[c].id] EXCEPT !.amount = spent[c]] \in RowType
      BY <2>2, <3>1 DEF RowType
    <3>3. rows' = [rows EXCEPT ![run[c].id] = [rows[run[c].id] EXCEPT !.amount = spent[c]]]
      BY <1>6, <3>1 DEF CorrectAmount, Corrected
    <3> QED
      BY <3>1, <3>2, <3>3
  <2>4. Go(c, "journalling") /\ run' = run /\ "journalling" \in Places \ {"idle"}
    BY <1>6 DEF CorrectAmount, Places
  <2>5. phase' \in [Hosts -> Places] /\ Carrying'
    BY <1>0, <2>1, <2>4, TypedGoing
  <2>6. UNCHANGED <<decisions, overrides, stops, receipts, precheck, run, tripped, spent, steps,
                    cost, gone, shown, stale, unrecorded>>
    BY <1>6 DEF CorrectAmount, asking
  <2> QED
    BY <2>3, <2>5, <2>6 DEF Typed
<1>7. ASSUME NEW m \in Models, NEW budget \in Budgets, AuthorizeRefused(c, m, budget)
      PROVE  Typed' /\ Carrying'
  <2>1. PICK id \in RunIds(c, m) : Unjournalled(id, budget)
    BY <1>7 DEF AuthorizeRefused
  <2>2. id \in Ids
    BY RunIdsAre
  <2>3. precheck' \in [Cockpits -> [Models -> Ids \cup {None}]]
    BY <1>7 DEF AuthorizeRefused, Taken, Typed
  <2>4. stale' \subseteq Ids
    BY <1>7 DEF AuthorizeRefused, Typed
  <2> QED
    BY <2>1, <2>2, <2>3, <2>4, TypedRefusing
<1>8. ASSUME StopRefused(c)
      PROVE  Typed' /\ Carrying'
  <2>1. phase[c] # "idle" /\ Go(c, "raised") /\ run' = run /\ "raised" \in Places \ {"idle"}
    BY <1>8 DEF StopRefused, Places
  <2>2. phase' \in [Hosts -> Places] /\ Carrying'
    BY <1>0, <2>1, TypedGoing
  <2>3. run[c].id \in Ids
    BY <1>0, <2>1, Carried
  <2>4. tripped' \in [Hosts -> BOOLEAN] /\ unrecorded' \subseteq Ids
    BY <1>8, <2>3 DEF StopRefused, Typed
  <2>5. UNCHANGED <<rows, receipts, cost, decisions, overrides, precheck, stops, run, spent, steps,
                    gone, shown, stale>>
    BY <1>8 DEF StopRefused, settling, asking
  <2> QED
    BY <2>2, <2>4, <2>5 DEF Typed
<1>9. CASE \E m \in Models : PrecheckRun(c, m)
  BY <1>9, <1>1
<1>10. CASE \E id \in Ids : RecordOverride(c, id)
  BY <1>10, <1>2
<1>11. CASE \E m \in Models, b \in Budgets : AuthorizeRun(c, m, b) \/ AuthorizeRefused(c, m, b)
  BY <1>11, <1>3, <1>7
<1> QED
  BY <1>4, <1>5, <1>6, <1>8, <1>9, <1>10, <1>11 DEF Cockpit

LEMMA TypedGuard ==
    ASSUME Typed, Carrying, NEW g \in Guards, Guard(g)
    PROVE  Typed' /\ Carrying'
<1>0. g \in Hosts
  BY DEF Hosts
<1>1. ASSUME NEW budget \in Budgets, StartGuard(g, budget)
      PROVE  Typed' /\ Carrying'
  <2>1. PICK id \in Fresh : Authorize(id, budget) /\ Opened(g, id, budget)
    BY <1>1 DEF StartGuard
  <2>2. id \in Ids
    BY DEF Fresh
  <2>3. /\ rows' \in [Ids -> RowType]
        /\ decisions' \in [Ids -> Nat]
        /\ run' \in [Hosts -> [id : Ids \cup {None}, budget : Nat]]
        /\ tripped' \in [Hosts -> BOOLEAN] /\ spent' \in [Hosts -> Nat]
        /\ steps' \in [Hosts -> Nat]
        /\ phase' \in [Hosts -> Places]
        /\ Carrying'
    BY <1>0, <2>1, <2>2, TypedOpening
  <2>4. UNCHANGED <<overrides, stops, receipts, precheck, cost, gone, shown, stale, unrecorded>>
    BY <1>1 DEF StartGuard, asking
  <2> QED
    BY <2>3, <2>4 DEF Typed
<1>2. ASSUME ShouldStop(g)
      PROVE  Typed' /\ Carrying'
  <2>1. phase[g] # "idle"
    BY <1>2 DEF ShouldStop
  <2>2. tripped' \in [Hosts -> BOOLEAN]
    BY <1>2 DEF ShouldStop, Typed
  <2>3. Go(g, IF Exceeds(g) THEN StopOf(g) ELSE "running") /\ run' = run
    BY <1>2 DEF ShouldStop
  <2>4. (IF Exceeds(g) THEN StopOf(g) ELSE "running") \in Places \ {"idle"}
    BY DEF Places, StopOf
  <2>5. phase' \in [Hosts -> Places] /\ Carrying'
    BY <1>0, <2>1, <2>3, <2>4, TypedGoing
  <2>6. UNCHANGED <<rows, receipts, cost, decisions, overrides, stops, precheck, run, spent,
                    steps, gone, shown, stale, unrecorded>>
    BY <1>2 DEF ShouldStop, settling, asking
  <2> QED
    BY <2>2, <2>5, <2>6 DEF Typed
<1>3. ASSUME FrameworkStops(g)
      PROVE  Typed' /\ Carrying'
  <2>1. PICK place \in Places \ {"idle"} : phase[g] # "idle" /\ Go(g, place) /\ run' = run
    BY <1>3 DEF FrameworkStops, Places
  <2>2. phase' \in [Hosts -> Places] /\ Carrying'
    BY <1>0, <2>1, TypedGoing
  <2>3. UNCHANGED <<rows, receipts, cost, decisions, overrides, stops, precheck, run, tripped,
                    spent, steps, gone, shown, stale, unrecorded>>
    BY <1>3 DEF FrameworkStops, settling, asking
  <2> QED
    BY <2>2, <2>3 DEF Typed
<1>4. ASSUME Finish(g)
      PROVE  Typed' /\ Carrying'
  <2>1. phase[g] # "idle"
    BY <1>4 DEF Finish, Ending
  <2>2. run[g].id \in Ids /\ spent[g] \in Nat
    BY <1>0, <2>1, Carried
  <2>3. rows' \in [Ids -> RowType] /\ decisions' = decisions
    <3>1. PICK success \in BOOLEAN, actual \in {spent[g], NotReported} :
              MarkSettled(run[g].id, success, actual)
      BY <1>4 DEF Finish
    <3> QED
      BY <2>2, <3>1, TypedSettling
  <2>4. Go(g, "journalling") /\ run' = run /\ "journalling" \in Places \ {"idle"}
    BY <1>4 DEF Finish, Places
  <2>5. phase' \in [Hosts -> Places] /\ Carrying'
    BY <1>0, <2>1, <2>4, TypedGoing
  <2>6. cost' \in [Ids -> Nat \cup {NotReported}]
    BY <1>4, <2>2 DEF Finish, Typed
  <2>7. UNCHANGED <<overrides, stops, receipts, precheck, run, tripped, spent, steps,
                    gone, shown, stale, unrecorded>>
    BY <1>4 DEF Finish, asking
  <2> QED
    BY <2>3, <2>5, <2>6, <2>7 DEF Typed
<1>5. ASSUME NEW budget \in Budgets, StartRefused(g, budget)
      PROVE  Typed' /\ Carrying'
  <2>1. PICK id \in Fresh : Unjournalled(id, budget)
    BY <1>5 DEF StartRefused
  <2>2. id \in Ids
    BY DEF Fresh
  <2>3. precheck' \in [Cockpits -> [Models -> Ids \cup {None}]] /\ stale' \subseteq Ids
    BY <1>5 DEF StartRefused, Typed
  <2> QED
    BY <2>1, <2>2, <2>3, TypedRefusing
<1>6. CASE \E b \in Budgets : StartGuard(g, b) \/ StartRefused(g, b)
  BY <1>6, <1>1, <1>5
<1> QED
  BY <1>2, <1>3, <1>4, <1>6 DEF Guard

\* The steps that cockpits and guards share.
Hosted(h) == StepOfAgent(h) \/ JournalSettlement(h) \/ ReceiptRefused(h) \/ Crash(h)

LEMMA TypedHost ==
    ASSUME Typed, Carrying, NEW h \in Hosts, Hosted(h)
    PROVE  Typed' /\ Carrying'
<1>1. CASE StepOfAgent(h)
  <2>1. phase[h] # "idle" /\ Go(h, "stepped") /\ run' = run /\ "stepped" \in Places \ {"idle"}
    BY <1>1 DEF StepOfAgent, Places
  <2>2. phase' \in [Hosts -> Places] /\ Carrying'
    BY <2>1, TypedGoing
  <2>3. spent' \in [Hosts -> Nat]
    <3>1. PICK c \in Costs \cup (IF HasStepLimit(h) THEN {0} ELSE {}) :
              spent' = [spent EXCEPT ![h] = @ + c]
      BY <1>1 DEF StepOfAgent
    <3>2. c \in Costs \/ c = 0
      OBVIOUS
    <3>3. Costs \subseteq Nat
      BY AgentRunAssumption DEF AgentRunAssumption
    <3> QED
      BY <3>1, <3>2, <3>3 DEF Typed
  <2>4. steps' \in [Hosts -> Nat]
    BY <1>1 DEF StepOfAgent, Typed
  <2>5. UNCHANGED <<rows, receipts, cost, decisions, overrides, stops, precheck, run, tripped,
                    gone, shown, stale, unrecorded>>
    BY <1>1 DEF StepOfAgent, settling, asking
  <2> QED
    BY <2>2, <2>3, <2>4, <2>5 DEF Typed
<1>2. CASE JournalSettlement(h)
  <2>1. /\ Go(h, "idle") /\ run' = [run EXCEPT ![h] = NoRun]
        /\ spent' = [spent EXCEPT ![h] = 0] /\ steps' = [steps EXCEPT ![h] = 0]
        /\ phase[h] # "idle"
    BY <1>2 DEF JournalSettlement
  <2>2. /\ run' \in [Hosts -> [id : Ids \cup {None}, budget : Nat]]
        /\ spent' \in [Hosts -> Nat] /\ steps' \in [Hosts -> Nat]
        /\ phase' \in [Hosts -> Places]
        /\ Carrying'
    BY <2>1, TypedClosing
  <2>3. run[h].id \in Ids
    BY <2>1, Carried
  <2>4. receipts' \in [Ids -> Nat]
    BY <1>2, <2>3 DEF JournalSettlement, Typed
  <2>5. UNCHANGED <<rows, decisions, overrides, stops, precheck, tripped, cost, gone, shown,
                    stale, unrecorded>>
    BY <1>2 DEF JournalSettlement, asking
  <2> QED
    BY <2>2, <2>4, <2>5 DEF Typed
<1>3. CASE Crash(h)
  <2>1. /\ Go(h, "idle") /\ run' = [run EXCEPT ![h] = NoRun]
        /\ spent' = [spent EXCEPT ![h] = 0] /\ steps' = [steps EXCEPT ![h] = 0]
        /\ phase[h] # "idle"
    BY <1>3 DEF Crash
  <2>2. /\ run' \in [Hosts -> [id : Ids \cup {None}, budget : Nat]]
        /\ spent' \in [Hosts -> Nat] /\ steps' \in [Hosts -> Nat]
        /\ phase' \in [Hosts -> Places]
        /\ Carrying'
    BY <2>1, TypedClosing
  <2>3. run[h].id \in Ids
    BY <2>1, Carried
  <2>4. gone' \subseteq Ids /\ tripped' \in [Hosts -> BOOLEAN]
    BY <1>3, <2>3 DEF Crash, Typed
  <2>5. precheck' \in [Cockpits -> [Models -> Ids \cup {None}]]
    BY <1>3 DEF Crash, Typed
  <2>6. stale' \subseteq Ids
    BY <1>3 DEF Crash, Typed
  <2>7. UNCHANGED <<rows, receipts, cost, decisions, overrides, stops, shown, unrecorded>>
    BY <1>3 DEF Crash, settling
  <2> QED
    BY <2>2, <2>4, <2>5, <2>6, <2>7 DEF Typed
<1>4. CASE ReceiptRefused(h)
  <2>1. phase[h] # "idle" /\ Go(h, "raised") /\ run' = run /\ "raised" \in Places \ {"idle"}
    BY <1>4 DEF ReceiptRefused, Places
  <2>2. phase' \in [Hosts -> Places] /\ Carrying'
    BY <2>1, TypedGoing
  <2> QED
    BY <1>4, <2>2 DEF ReceiptRefused, settling, asking, Typed
<1> QED
  BY <1>1, <1>2, <1>3, <1>4 DEF Hosted

LEMMA TypedNext == Typed /\ Carrying /\ [Next]_vars => (Typed /\ Carrying)'
<1> SUFFICES ASSUME Typed, Carrying, [Next]_vars
             PROVE  (Typed /\ Carrying)'
  OBVIOUS
<1>1. CASE \E c \in Cockpits : Cockpit(c)
  BY <1>1, TypedCockpit
<1>2. CASE \E g \in Guards : Guard(g)
  BY <1>2, TypedGuard
<1>3. CASE \E h \in Hosts : Hosted(h)
  BY <1>3, TypedHost
<1>4. CASE UNCHANGED vars
  BY <1>4 DEF vars, Typed, Carrying, Open
<1> QED
  BY <1>1, <1>2, <1>3, <1>4 DEF Next, Hosted

\* Every variable of the runs keeps its type, and a host has a run exactly while it is busy.
THEOREM AgentRunTypeOK == Spec => []TypeOK
<1>1. Init => TypeOK
  BY TypedInit, TypesAre
<1>2. TypeOK /\ [Next]_vars => TypeOK'
  <2>1. TypeOK' <=> (Typed /\ Carrying)'
    BY DEF TypeOK, Typed, Carrying, RowType, Verdict
  <2> QED
    BY <2>1, TypedNext, TypesAre
<1> QED
  BY <1>1, <1>2, PTL DEF Spec

-----------------------------------------------------------------------------
(***************************************************************************)
(* The inductive invariant.                                                *)
(***************************************************************************)
\* No two hosts carry one run.
Apart == \A g, h \in Hosts : Open(g) /\ Open(h) /\ run[g].id = run[h].id => g = h

\* An id without a row has left no trace, and none was decided twice.
Standing ==
    \A id \in Ids :
        /\ rows[id].verdict = None =>
              /\ decisions[id] = 0 /\ stops[id] = 0 /\ receipts[id] = 0
              /\ ~rows[id].settled /\ cost[id] = NotReported
              /\ id \notin unrecorded
        /\ decisions[id] <= 1

\* A pre-check waits under an id that is not decided, and under no other's.
Previews ==
    \A c, d \in Cockpits, m, n \in Models :
        precheck[c][m] # None =>
            /\ rows[precheck[c][m]].verdict = None
            /\ precheck[c][m] \in shown
            /\ precheck[c][m] = precheck[d][n] => c = d /\ m = n

\* What is on record of the run a host carries, by the place where it is.
Looping(h) == phase[h] \in {"running", "stepped", "told"}

\* What a row counts when its settlement is through.
Due(id) == IF cost[id] = NotReported THEN rows[id].amount ELSE cost[id]

OnRecord(h) ==
    /\ rows[run[h].id].verdict = "APPROVE"
    /\ receipts[run[h].id] = 0
    /\ h \in Cockpits => rows[run[h].id].paid = NotReported
    /\ h \in Guards => rows[run[h].id].paid = cost[run[h].id]
    /\ Looping(h) => /\ rows[run[h].id].amount = run[h].budget
                     /\ ~rows[run[h].id].settled
                     /\ h \in Cockpits =>
                           (tripped[h] <=> stops[run[h].id] = 1 \/ run[h].id \in unrecorded)
    /\ phase[h] = "correcting" => /\ h \in Cockpits
                                  /\ rows[run[h].id].settled
                                  /\ cost[run[h].id] = spent[h]
    /\ phase[h] = "journalling" => /\ rows[run[h].id].settled
                                   /\ Counted(rows[run[h].id]) = Due(run[h].id)
    /\ phase[h] = "raised" /\ rows[run[h].id].settled =>
           Counted(rows[run[h].id]) = Due(run[h].id)

IInv ==
    /\ Typed /\ Carrying
    /\ Apart
    /\ Standing
    /\ Previews
    /\ \A h \in Hosts : Open(h) => OnRecord(h)
    /\ \A id \in Ids : stops[id] <= 1

LEMMA IInvInit == Init => IInv
<1> SUFFICES ASSUME Init
             PROVE  IInv
  OBVIOUS
<1>1. Typed /\ Carrying
  BY TypedInit
<1>2. \A h \in Hosts : ~Open(h)
  BY DEF Init, Open
<1>3. Standing
  BY DEF Init, Standing, NoRow
<1>4. Previews
  BY DEF Init, Previews
<1>5. \A id \in Ids : stops[id] <= 1
  BY DEF Init
<1> QED
  BY <1>1, <1>2, <1>3, <1>4, <1>5 DEF IInv, Apart

\* A host that a step does not touch, in a run that the step does not touch.
LEMMA OtherRuns ==
    ASSUME NEW g \in Hosts, OnRecord(g),
           phase'[g] = phase[g], run'[g] = run[g], tripped'[g] = tripped[g], spent'[g] = spent[g],
           rows'[run[g].id] = rows[run[g].id], receipts'[run[g].id] = receipts[run[g].id],
           cost'[run[g].id] = cost[run[g].id], stops'[run[g].id] = stops[run[g].id],
           run[g].id \in unrecorded' <=> run[g].id \in unrecorded
    PROVE  OnRecord(g)'
  BY DEF OnRecord, Looping, Counted, Due

\* The three kinds of steps: a run is opened under an id, ...
Opening(h, id, budget) ==
    /\ Authorize(id, budget)
    /\ Opened(h, id, budget)
    /\ UNCHANGED <<stops, receipts, cost, unrecorded>>

\* ... a busy host works on the run it carries, ...
Off(h) == Ids \ {run[h].id}

Working(h) ==
    /\ phase[h] # "idle" /\ phase'[h] # "idle"
    /\ \A g \in Hosts \ {h} : phase'[g] = phase[g] /\ tripped'[g] = tripped[g] /\ spent'[g] = spent[g]
    /\ \A id \in Off(h) : /\ rows'[id] = rows[id] /\ cost'[id] = cost[id]
                          /\ stops'[id] = stops[id]
                          /\ id \in unrecorded' <=> id \in unrecorded
    /\ rows'[run[h].id].verdict = rows[run[h].id].verdict
    /\ UNCHANGED <<run, decisions, receipts, precheck, shown>>

\* ... or lets go of it.
Closing(h) ==
    /\ phase[h] # "idle"
    /\ Go(h, "idle")
    /\ run' = [run EXCEPT ![h] = NoRun]
    /\ \A g \in Hosts \ {h} : tripped'[g] = tripped[g] /\ spent'[g] = spent[g]
    /\ \A id \in Off(h) : receipts'[id] = receipts[id]
    /\ UNCHANGED <<rows, cost, stops, unrecorded, decisions>>

LEMMA OpeningKeeps ==
    ASSUME IInv, NEW h \in Hosts, NEW id \in Ids, NEW budget \in Budgets,
           rows[id].verdict = None, Opening(h, id, budget)
    PROVE  /\ Apart' /\ Standing'
           /\ \A g \in Hosts : Open(g)' => OnRecord(g)'
           /\ \A i \in Ids : stops'[i] <= 1
           /\ \A i \in Ids \ {id} : rows'[i] = rows[i]
<1> USE AgentRunAssumption
<1> DEFINE verdict == IF Fits(budget) THEN "APPROVE" ELSE "REJECT"
<1>1. /\ rows' = [rows EXCEPT ![id] = Row(budget)]
      /\ decisions' = [decisions EXCEPT ![id] = @ + 1]
  BY DEF Opening, Authorize
<1>2. /\ run' = [run EXCEPT ![h] = IF Fits(budget) THEN [id |-> id, budget |-> budget] ELSE NoRun]
      /\ phase' = [phase EXCEPT ![h] = IF ~Fits(budget) THEN "idle"
                                       ELSE IF AsksFirst(h) THEN "stepped" ELSE "running"]
      /\ spent' = [spent EXCEPT ![h] = 0] /\ tripped' = [tripped EXCEPT ![h] = FALSE]
  BY DEF Opening, Opened, Go
<1>3. UNCHANGED <<stops, receipts, cost, unrecorded>>
  BY DEF Opening
<1>4. /\ rows'[id].verdict = verdict /\ rows'[id].amount = budget /\ ~rows'[id].settled
      /\ rows'[id].paid = NotReported
      /\ verdict # None
      /\ \A i \in Ids \ {id} : rows'[i] = rows[i]
  BY <1>1, RowIs DEF IInv, Typed
<1>5. /\ \A g \in Hosts \ {h} : /\ run'[g] = run[g] /\ phase'[g] = phase[g]
                                /\ spent'[g] = spent[g] /\ tripped'[g] = tripped[g]
      /\ Fits(budget) => /\ run'[h] = [id |-> id, budget |-> budget]
                         /\ phase'[h] \in {"stepped", "running"}
                         /\ ~tripped'[h]
      /\ ~Fits(budget) => phase'[h] = "idle"
  BY <1>2 DEF IInv, Typed
<1>6. ASSUME NEW g \in Hosts, Open(g)
      PROVE  run[g].id \in Ids /\ run[g].id # id /\ OnRecord(g)
  <2>1. run[g].id \in Ids
    BY <1>6, Carried DEF IInv, Open
  <2>2. OnRecord(g) /\ rows[run[g].id].verdict = "APPROVE"
    BY <1>6 DEF IInv, OnRecord
  <2> QED
    BY <2>1, <2>2 DEF AgentRunAssumption
<1>7. ASSUME NEW g \in Hosts \ {h}, Open(g)'
      PROVE  Open(g) /\ run'[g].id # id /\ OnRecord(g)'
  <2>1. Open(g)
    BY <1>5, <1>7 DEF Open
  <2>2. run[g].id \in Ids /\ run[g].id # id /\ OnRecord(g)
    BY <1>6, <2>1
  <2>3. rows'[run[g].id] = rows[run[g].id]
    BY <1>4, <2>2
  <2> QED
    BY <1>3, <1>5, <2>1, <2>2, <2>3, OtherRuns
<1>8. ASSUME Open(h)'
      PROVE  run'[h].id = id /\ OnRecord(h)'
  <2>1. Fits(budget)
    BY <1>5, <1>8 DEF Open
  <2>2. /\ run'[h].id = id /\ run'[h].budget = budget /\ ~tripped'[h]
        /\ phase'[h] \in {"stepped", "running"}
    BY <1>5, <2>1
  <2>3. rows'[id].verdict = "APPROVE"
    BY <1>4, <2>1
  <2>4. receipts'[id] = 0 /\ stops'[id] = 0 /\ id \notin unrecorded' /\ cost'[id] = NotReported
    BY <1>3 DEF IInv, Standing
  <2> QED
    BY <1>4, <2>2, <2>3, <2>4 DEF OnRecord, Looping
<1>9. Apart'
  <2> SUFFICES ASSUME NEW f \in Hosts, NEW g \in Hosts, Open(f)', Open(g)',
                      run'[f].id = run'[g].id
               PROVE  f = g
    BY DEF Apart
  <2>1. CASE f # h /\ g # h
    <3>1. Open(f) /\ Open(g) /\ run[f].id = run[g].id
      BY <2>1, <1>5, <1>7
    <3> QED
      BY <3>1 DEF IInv, Apart
  <2>2. CASE f = h \/ g = h
    BY <2>2, <1>7, <1>8
  <2> QED
    BY <2>1, <2>2
<1>10. Standing'
  <2> SUFFICES ASSUME NEW i \in Ids
               PROVE  /\ rows'[i].verdict = None =>
                            /\ decisions'[i] = 0 /\ stops'[i] = 0 /\ receipts'[i] = 0
                            /\ ~rows'[i].settled /\ cost'[i] = NotReported
                            /\ i \notin unrecorded'
                      /\ decisions'[i] <= 1
    BY DEF Standing
  <2>1. CASE i = id
    <3>1. decisions[id] = 0
      BY DEF IInv, Standing
    <3> QED
      BY <3>1, <2>1, <1>1, <1>4 DEF IInv, Typed
  <2>2. CASE i # id
    <3>1. rows'[i] = rows[i] /\ decisions'[i] = decisions[i]
      BY <2>2, <1>1, <1>4 DEF IInv, Typed
    <3> QED
      BY <3>1, <1>3 DEF IInv, Standing
  <2> QED
    BY <2>1, <2>2
<1>11. \A i \in Ids : stops'[i] <= 1
  BY <1>3 DEF IInv
<1> QED
  BY <1>4, <1>7, <1>8, <1>9, <1>10, <1>11

LEMMA WorkingKeeps ==
    ASSUME IInv, NEW h \in Hosts, Working(h), OnRecord(h)', stops'[run[h].id] <= 1
    PROVE  /\ Apart' /\ Standing' /\ Previews'
           /\ \A g \in Hosts : Open(g)' => OnRecord(g)'
           /\ \A id \in Ids : stops'[id] <= 1
<1>1. Open(h) /\ run[h].id \in Ids /\ OnRecord(h)
  BY Carried DEF Working, Open, IInv
<1>2. UNCHANGED <<run, decisions, receipts, precheck, shown>>
  BY DEF Working
<1>3. \A g \in Hosts : Open(g)' <=> Open(g)
  BY DEF Working, Open
<1>4. \A id \in Ids : rows'[id].verdict = rows[id].verdict
  BY DEF Working, Off
<1>5. Apart'
  BY <1>2, <1>3 DEF Apart, IInv
<1>6. ASSUME NEW id \in Ids
      PROVE  /\ rows'[id].verdict = None =>
                   /\ decisions'[id] = 0 /\ stops'[id] = 0 /\ receipts'[id] = 0
                   /\ ~rows'[id].settled /\ cost'[id] = NotReported
                   /\ id \notin unrecorded'
             /\ decisions'[id] <= 1
  <2>1. CASE id = run[h].id
    <3>1. rows[id].verdict = "APPROVE" /\ "APPROVE" # None
      BY <1>1, <2>1, AgentRunAssumption DEF OnRecord, AgentRunAssumption
    <3> QED
      BY <3>1, <1>2, <1>4 DEF IInv, Standing
  <2>2. CASE id # run[h].id
    <3>1. /\ rows'[id] = rows[id] /\ stops'[id] = stops[id] /\ cost'[id] = cost[id]
          /\ id \in unrecorded' <=> id \in unrecorded
      BY <2>2 DEF Working, Off
    <3> QED
      BY <3>1, <1>2 DEF IInv, Standing
  <2> QED
    BY <2>1, <2>2
<1>7. Standing'
  BY <1>6 DEF Standing
<1>8. Previews'
  <2>1. \A c \in Cockpits, m \in Models : precheck[c][m] # None => precheck[c][m] \in Ids
    BY DEF IInv, Typed
  <2> QED
    BY <2>1, <1>2, <1>4 DEF IInv, Previews
<1>9. ASSUME NEW g \in Hosts, Open(g)'
      PROVE  OnRecord(g)'
  <2>1. CASE g = h
    BY <2>1
  <2>2. CASE g # h
    <3>1. Open(g) /\ OnRecord(g) /\ run[g].id \in Ids
      BY <1>3, <1>9, Carried DEF IInv, Open
    <3>2. run[g].id \in Off(h)
      BY <3>1, <2>2, <1>1 DEF IInv, Apart, Off
    <3>3. phase'[g] = phase[g] /\ tripped'[g] = tripped[g] /\ spent'[g] = spent[g]
      BY <2>2 DEF Working
    <3>4. /\ rows'[run[g].id] = rows[run[g].id] /\ cost'[run[g].id] = cost[run[g].id]
          /\ stops'[run[g].id] = stops[run[g].id]
          /\ run[g].id \in unrecorded' <=> run[g].id \in unrecorded
      BY <3>2 DEF Working
    <3> QED
      BY <3>1, <3>3, <3>4, <1>2, OtherRuns
  <2> QED
    BY <2>1, <2>2
<1>10. ASSUME NEW id \in Ids
       PROVE  stops'[id] <= 1
  <2>1. CASE id # run[h].id
    BY <2>1 DEF Working, Off, IInv
  <2> QED
    BY <2>1
<1> QED
  BY <1>5, <1>7, <1>8, <1>9, <1>10

LEMMA ClosingKeeps ==
    ASSUME IInv, NEW h \in Hosts, Closing(h)
    PROVE  /\ Apart' /\ Standing'
           /\ \A g \in Hosts : Open(g)' => OnRecord(g)'
           /\ \A id \in Ids : stops'[id] <= 1
<1>1. Open(h) /\ run[h].id \in Ids /\ OnRecord(h)
  BY Carried DEF Closing, Open, IInv
<1>2. /\ UNCHANGED <<rows, cost, stops, unrecorded, decisions>>
      /\ \A id \in Off(h) : receipts'[id] = receipts[id]
  BY DEF Closing
<1>3. /\ phase'[h] = "idle"
      /\ \A g \in Hosts \ {h} : /\ phase'[g] = phase[g] /\ run'[g] = run[g]
                                /\ tripped'[g] = tripped[g] /\ spent'[g] = spent[g]
  BY DEF Closing, Go, IInv, Typed
<1>4. \A g \in Hosts : Open(g)' => g # h /\ Open(g) /\ run'[g] = run[g]
  BY <1>3 DEF Open
<1>5. Apart'
  BY <1>4 DEF Apart, IInv
<1>6. Standing'
  <2>1. \A id \in Ids : rows[id].verdict = None => id \in Off(h)
    BY <1>1, AgentRunAssumption DEF Off, OnRecord, AgentRunAssumption
  <2> QED
    BY <2>1, <1>2 DEF IInv, Standing
<1>7. ASSUME NEW g \in Hosts, Open(g)'
      PROVE  OnRecord(g)'
  <2>1. g # h /\ Open(g) /\ OnRecord(g) /\ run[g].id \in Ids
    BY <1>4, <1>7, Carried DEF IInv, Open
  <2>2. run[g].id \in Off(h)
    BY <2>1, <1>1 DEF IInv, Apart, Off
  <2> QED
    BY <2>1, <2>2, <1>2, <1>3, OtherRuns
<1> QED
  BY <1>2, <1>5, <1>6, <1>7 DEF IInv

\* An id that is fresh, or waits in a pre-check, has no row.
LEMMA FreshIsOpen ==
    ASSUME IInv, NEW id \in Fresh
    PROVE  /\ id \in Ids /\ rows[id].verdict = None
           /\ \A c \in Cockpits, m \in Models : precheck[c][m] # id
<1>1. id \in Ids /\ rows[id].verdict = None /\ id \notin shown
  BY DEF Fresh
<1>2. id # None
  BY <1>1, AgentRunAssumption DEF AgentRunAssumption
<1>3. \A c \in Cockpits, m \in Models : precheck[c][m] # id
  BY <1>1, <1>2 DEF IInv, Previews
<1> QED
  BY <1>1, <1>3

\* Nothing but what the invariant does not look at changes.
LEMMA Untouching ==
    ASSUME IInv,
           UNCHANGED <<rows, receipts, cost, decisions, stops, run, tripped, phase, spent, unrecorded>>
    PROVE  /\ Apart' /\ Standing'
           /\ \A h \in Hosts : Open(h)' => OnRecord(h)'
           /\ \A id \in Ids : stops'[id] <= 1
<1>1. Apart'
  BY DEF IInv, Apart, Open
<1>2. Standing'
  BY DEF IInv, Standing
<1>3. ASSUME NEW h \in Hosts, Open(h)'
      PROVE  OnRecord(h)'
  <2>1. OnRecord(h)
    BY <1>3 DEF IInv, Open
  <2> QED
    BY <2>1 DEF OnRecord, Looping, Counted, Due
<1>4. \A id \in Ids : stops'[id] <= 1
  BY DEF IInv
<1> QED
  BY <1>1, <1>2, <1>3, <1>4

LEMMA PrecheckKeeps ==
    ASSUME IInv, NEW c \in Cockpits, NEW m \in Models, PrecheckRun(c, m)
    PROVE  IInv'
<1>1. Typed' /\ Carrying'
  BY TypedCockpit DEF Cockpit, IInv
<1>2. UNCHANGED <<rows, receipts, cost, decisions, stops, run, tripped, phase, spent, unrecorded>>
  BY DEF PrecheckRun, settling
<1>3. PICK id \in Fresh : /\ precheck' = [precheck EXCEPT ![c][m] = id]
                          /\ shown' = shown \cup {id}
  BY DEF PrecheckRun
<1>4. /\ id \in Ids /\ rows[id].verdict = None
      /\ \A d \in Cockpits, n \in Models : precheck[d][n] # id
  BY FreshIsOpen
<1>5. \A d \in Cockpits, n \in Models :
          precheck'[d][n] = IF d = c /\ n = m THEN id ELSE precheck[d][n]
  BY <1>3 DEF IInv, Typed
<1>6. Previews'
  <2>1. \A d \in Cockpits, n \in Models : precheck'[d][n] # None => precheck'[d][n] \in shown'
    BY <1>3, <1>5 DEF IInv, Previews
  <2> QED
    BY <1>2, <1>4, <1>5, <2>1 DEF IInv, Previews
<1> QED
  BY <1>1, <1>2, <1>6, Untouching DEF IInv

LEMMA OverrideKeeps ==
    ASSUME IInv, NEW c \in Cockpits, NEW id \in Ids, RecordOverride(c, id)
    PROVE  IInv'
<1>1. Typed' /\ Carrying'
  BY TypedCockpit DEF Cockpit, IInv
<1>2. /\ UNCHANGED <<rows, receipts, cost, decisions, stops, run, tripped, phase, spent, unrecorded>>
      /\ precheck' = precheck /\ shown' = shown
  BY DEF RecordOverride, settling
<1>3. Previews'
  BY <1>2 DEF IInv, Previews
<1> QED
  BY <1>1, <1>2, <1>3, Untouching DEF IInv

\* The pre-checks that are left do not wait under the id a run was opened with.
LEMMA PreviewsLeft ==
    ASSUME IInv, NEW id \in Ids, \A i \in Ids \ {id} : rows'[i] = rows[i], shown' = shown,
           \A c \in Cockpits, m \in Models :
               /\ precheck'[c][m] \in {precheck[c][m], None}
               /\ precheck'[c][m] # id
    PROVE  Previews'
<1>1. \A c \in Cockpits, m \in Models :
          precheck'[c][m] # None => /\ precheck'[c][m] = precheck[c][m]
                                    /\ precheck'[c][m] \in Ids \ {id}
  BY DEF IInv, Typed
<1> QED
  BY <1>1 DEF IInv, Previews

\* The pre-check of the model is taken, and the run's id is nobody else's.
LEMMA TakenIs ==
    ASSUME IInv, NEW c \in Cockpits, NEW m \in Models, NEW id \in RunIds(c, m),
           precheck' = Taken(c, m)
    PROVE  /\ id \in Ids /\ rows[id].verdict = None
           /\ \A d \in Cockpits, n \in Models : /\ precheck'[d][n] \in {precheck[d][n], None}
                                                /\ precheck'[d][n] # id
<1>1. precheck' = [precheck EXCEPT ![c][m] = None]
  BY DEF Taken
<1>2. \A d \in Cockpits, n \in Models :
          precheck'[d][n] = IF d = c /\ n = m THEN None ELSE precheck[d][n]
  BY <1>1 DEF IInv, Typed
<1>3. /\ id \in Ids /\ rows[id].verdict = None
      /\ \A d \in Cockpits, n \in Models : precheck'[d][n] # id
  <2>1. CASE precheck[c][m] # None
    <3>1. id = precheck[c][m]
      BY <2>1 DEF RunIds
    <3>2. id \in Ids /\ rows[id].verdict = None
      BY <2>1, <3>1 DEF IInv, Typed, Previews
    <3>3. \A d \in Cockpits, n \in Models : precheck[d][n] = id => d = c /\ n = m
      BY <2>1, <3>1 DEF IInv, Previews
    <3> QED
      BY <2>1, <3>1, <3>2, <3>3, <1>2
  <2>2. CASE precheck[c][m] = None
    <3>1. id \in Fresh
      BY <2>2 DEF RunIds
    <3>2. /\ id \in Ids /\ rows[id].verdict = None
          /\ \A d \in Cockpits, n \in Models : precheck[d][n] # id
      BY <3>1, FreshIsOpen
    <3>3. id # None
      BY <3>2, AgentRunAssumption DEF AgentRunAssumption
    <3> QED
      BY <3>2, <3>3, <1>2
  <2> QED
    BY <2>1, <2>2
<1>4. \A d \in Cockpits, n \in Models : precheck'[d][n] \in {precheck[d][n], None}
  BY <1>2
<1> QED
  BY <1>3, <1>4

LEMMA AuthorizeRunKeeps ==
    ASSUME IInv, NEW c \in Cockpits, NEW m \in Models, NEW budget \in Budgets,
           AuthorizeRun(c, m, budget)
    PROVE  IInv' /\ \E id \in Ids : rows[id].verdict = None /\ Opening(c, id, budget)
<1>1. Typed' /\ Carrying'
  BY TypedCockpit DEF Cockpit, IInv
<1>2. PICK id \in RunIds(c, m) : Authorize(id, budget) /\ Opened(c, id, budget)
  BY DEF AuthorizeRun
<1>3. Opening(c, id, budget) /\ c \in Hosts
  BY <1>2 DEF AuthorizeRun, Opening, Hosts
<1>4. precheck' = Taken(c, m) /\ shown' = shown
  BY DEF AuthorizeRun
<1>5. /\ id \in Ids /\ rows[id].verdict = None
      /\ \A d \in Cockpits, n \in Models : /\ precheck'[d][n] \in {precheck[d][n], None}
                                           /\ precheck'[d][n] # id
  BY <1>4, TakenIs
<1>6. /\ Apart' /\ Standing'
      /\ \A g \in Hosts : Open(g)' => OnRecord(g)'
      /\ \A i \in Ids : stops'[i] <= 1
      /\ \A i \in Ids \ {id} : rows'[i] = rows[i]
  BY <1>3, <1>5, OpeningKeeps
<1>7. Previews'
  BY <1>4, <1>5, <1>6, PreviewsLeft
<1> QED
  BY <1>1, <1>3, <1>5, <1>6, <1>7 DEF IInv

LEMMA StartKeeps ==
    ASSUME IInv, NEW g \in Guards, NEW budget \in Budgets, StartGuard(g, budget)
    PROVE  IInv' /\ \E id \in Ids : rows[id].verdict = None /\ Opening(g, id, budget)
<1>1. Typed' /\ Carrying'
  BY TypedGuard DEF Guard, IInv
<1>2. PICK id \in Fresh : Authorize(id, budget) /\ Opened(g, id, budget)
  BY DEF StartGuard
<1>3. Opening(g, id, budget) /\ g \in Hosts /\ precheck' = precheck /\ shown' = shown
  BY <1>2 DEF StartGuard, Opening, Hosts, asking
<1>4. /\ id \in Ids /\ rows[id].verdict = None
      /\ \A d \in Cockpits, n \in Models : precheck[d][n] # id
  BY FreshIsOpen
<1>5. /\ Apart' /\ Standing'
      /\ \A h \in Hosts : Open(h)' => OnRecord(h)'
      /\ \A i \in Ids : stops'[i] <= 1
      /\ \A i \in Ids \ {id} : rows'[i] = rows[i]
  BY <1>3, <1>4, OpeningKeeps
<1>6. Previews'
  BY <1>3, <1>4, <1>5, PreviewsLeft
<1> QED
  BY <1>1, <1>3, <1>4, <1>5, <1>6 DEF IInv

\* A decision that the journal refuses leaves the hosts and their runs alone.
LEMMA RefusingKeeps ==
    ASSUME IInv, NEW id \in Ids, NEW budget \in Budgets, rows[id].verdict = None,
           Unjournalled(id, budget)
    PROVE  /\ Apart' /\ Standing'
           /\ \A h \in Hosts : Open(h)' => OnRecord(h)'
           /\ \A i \in Ids : stops'[i] <= 1
           /\ \A i \in Ids \ {id} : rows'[i] = rows[i]
<1>1. /\ rows' = [rows EXCEPT ![id] = Row(budget)]
      /\ UNCHANGED <<decisions, stops, receipts, run, tripped, phase, spent, cost, unrecorded>>
  BY DEF Unjournalled
<1>2. /\ rows'[id].verdict # None
      /\ \A i \in Ids \ {id} : rows'[i] = rows[i]
  BY <1>1, RowIs DEF IInv, Typed
<1>3. Apart'
  BY <1>1 DEF IInv, Apart, Open
<1>4. Standing'
  BY <1>1, <1>2 DEF IInv, Standing
<1>5. ASSUME NEW h \in Hosts, Open(h)'
      PROVE  OnRecord(h)'
  <2>1. Open(h) /\ OnRecord(h)
    BY <1>1, <1>5 DEF IInv, Open
  <2>2. run[h].id \in Ids /\ rows[run[h].id].verdict # None
    BY <2>1, Carried, AgentRunAssumption DEF IInv, Open, OnRecord, AgentRunAssumption
  <2>3. rows'[run[h].id] = rows[run[h].id]
    BY <1>2, <2>2
  <2> QED
    BY <1>1, <2>1, <2>3, OtherRuns
<1>6. \A i \in Ids : stops'[i] <= 1
  BY <1>1 DEF IInv
<1> QED
  BY <1>2, <1>3, <1>4, <1>5, <1>6

LEMMA AuthorizeRefusedKeeps ==
    ASSUME IInv, NEW c \in Cockpits, NEW m \in Models, NEW budget \in Budgets,
           AuthorizeRefused(c, m, budget)
    PROVE  IInv' /\ \E id \in Ids : rows[id].verdict = None /\ Unjournalled(id, budget)
<1>1. Typed' /\ Carrying'
  BY TypedCockpit DEF Cockpit, IInv
<1>2. PICK id \in RunIds(c, m) : Unjournalled(id, budget)
  BY DEF AuthorizeRefused
<1>3. precheck' = Taken(c, m) /\ shown' = shown
  BY <1>2 DEF AuthorizeRefused, Unjournalled
<1>4. /\ id \in Ids /\ rows[id].verdict = None
      /\ \A d \in Cockpits, n \in Models : /\ precheck'[d][n] \in {precheck[d][n], None}
                                           /\ precheck'[d][n] # id
  BY <1>3, TakenIs
<1>5. /\ Apart' /\ Standing'
      /\ \A h \in Hosts : Open(h)' => OnRecord(h)'
      /\ \A i \in Ids : stops'[i] <= 1
      /\ \A i \in Ids \ {id} : rows'[i] = rows[i]
  BY <1>2, <1>4, RefusingKeeps
<1>6. Previews'
  BY <1>3, <1>4, <1>5, PreviewsLeft
<1> QED
  BY <1>1, <1>2, <1>4, <1>5, <1>6 DEF IInv

LEMMA StartRefusedKeeps ==
    ASSUME IInv, NEW g \in Guards, NEW budget \in Budgets, StartRefused(g, budget)
    PROVE  IInv' /\ \E id \in Ids : rows[id].verdict = None /\ Unjournalled(id, budget)
<1>1. Typed' /\ Carrying'
  BY TypedGuard DEF Guard, IInv
<1>2. PICK id \in Fresh : Unjournalled(id, budget)
  BY DEF StartRefused
<1>3. precheck' = precheck /\ shown' = shown
  BY <1>2 DEF StartRefused, Unjournalled
<1>4. /\ id \in Ids /\ rows[id].verdict = None
      /\ \A d \in Cockpits, n \in Models : precheck[d][n] # id
  BY FreshIsOpen
<1>5. /\ Apart' /\ Standing'
      /\ \A h \in Hosts : Open(h)' => OnRecord(h)'
      /\ \A i \in Ids : stops'[i] <= 1
      /\ \A i \in Ids \ {id} : rows'[i] = rows[i]
  BY <1>2, <1>4, RefusingKeeps
<1>6. Previews'
  BY <1>3, <1>4, <1>5, PreviewsLeft
<1> QED
  BY <1>1, <1>2, <1>4, <1>5, <1>6 DEF IInv

\* The steps of a busy host, and what they leave on record.
LEMMA StepsWork ==
    ASSUME IInv, NEW h \in Hosts, StepOfAgent(h)
    PROVE  Working(h) /\ OnRecord(h)' /\ stops'[run[h].id] <= 1
<1>1. Open(h) /\ run[h].id \in Ids /\ OnRecord(h) /\ phase[h] = "running"
  BY Carried DEF StepOfAgent, Open, IInv
<1>2. /\ phase' = [phase EXCEPT ![h] = "stepped"]
      /\ \A g \in Hosts \ {h} : spent'[g] = spent[g]
      /\ UNCHANGED <<rows, receipts, cost, decisions, stops, precheck, shown, run, tripped,
                     unrecorded>>
  BY DEF StepOfAgent, Go, settling, asking, IInv, Typed
<1>3. phase'[h] = "stepped" /\ \A g \in Hosts \ {h} : phase'[g] = phase[g]
  BY <1>2 DEF IInv, Typed
<1>4. Working(h)
  BY <1>1, <1>2, <1>3 DEF Working, Off
<1>5. OnRecord(h)'
  BY <1>1, <1>2, <1>3 DEF OnRecord, Looping
<1> QED
  BY <1>1, <1>2, <1>4, <1>5 DEF IInv

\* An exception leaves a run on record as it was.
LEMMA RaisedOnRecord ==
    ASSUME NEW h \in Hosts, OnRecord(h), phase'[h] = "raised",
           Looping(h) \/ phase[h] = "journalling",
           run' = run, rows' = rows, receipts' = receipts, cost' = cost
    PROVE  OnRecord(h)'
<1>1. rows[run[h].id].settled => Counted(rows[run[h].id]) = Due(run[h].id)
  BY DEF OnRecord
<1> QED
  BY <1>1 DEF OnRecord, Looping, Counted, Due

LEMMA StopRefusedWorks ==
    ASSUME IInv, NEW c \in Cockpits, StopRefused(c)
    PROVE  Working(c) /\ OnRecord(c)' /\ stops'[run[c].id] <= 1
<1>0. c \in Hosts
  BY DEF Hosts
<1>1. Open(c) /\ run[c].id \in Ids /\ OnRecord(c) /\ Looping(c)
  BY <1>0, Carried DEF StopRefused, Open, IInv, Looping
<1>2. /\ phase' = [phase EXCEPT ![c] = "raised"]
      /\ tripped' = [tripped EXCEPT ![c] = TRUE]
      /\ unrecorded' = unrecorded \cup {run[c].id}
      /\ UNCHANGED <<rows, receipts, cost, decisions, stops, precheck, shown, run, spent>>
  BY DEF StopRefused, Go, settling, asking
<1>3. phase'[c] = "raised" /\ \A g \in Hosts \ {c} : phase'[g] = phase[g] /\ tripped'[g] = tripped[g]
  BY <1>0, <1>2 DEF IInv, Typed
<1>4. Working(c)
  BY <1>1, <1>2, <1>3 DEF Working, Off, Open
<1>5. OnRecord(c)'
  BY <1>0, <1>1, <1>2, <1>3, RaisedOnRecord
<1> QED
  BY <1>1, <1>2, <1>4, <1>5 DEF IInv

LEMMA ReceiptRefusedWorks ==
    ASSUME IInv, NEW h \in Hosts, ReceiptRefused(h)
    PROVE  Working(h) /\ OnRecord(h)' /\ stops'[run[h].id] <= 1
<1>1. Open(h) /\ run[h].id \in Ids /\ OnRecord(h) /\ phase[h] = "journalling"
  BY Carried DEF ReceiptRefused, Open, IInv
<1>2. /\ phase' = [phase EXCEPT ![h] = "raised"]
      /\ UNCHANGED <<rows, receipts, cost, decisions, stops, precheck, shown, run, tripped, spent,
                     unrecorded>>
  BY DEF ReceiptRefused, Go, settling, asking
<1>3. phase'[h] = "raised" /\ \A g \in Hosts \ {h} : phase'[g] = phase[g]
  BY <1>2 DEF IInv, Typed
<1>4. Working(h)
  BY <1>1, <1>2, <1>3 DEF Working, Off, Open
<1>5. OnRecord(h)'
  BY <1>1, <1>2, <1>3, RaisedOnRecord
<1> QED
  BY <1>1, <1>2, <1>4, <1>5 DEF IInv

LEMMA ChecksWork ==
    ASSUME IInv, NEW c \in Cockpits, CheckSpend(c)
    PROVE  Working(c) /\ OnRecord(c)' /\ stops'[run[c].id] <= 1
<1>0. c \in Hosts
  BY DEF Hosts
<1> DEFINE id == run[c].id
<1>1. Open(c) /\ id \in Ids /\ OnRecord(c) /\ Looping(c)
  BY <1>0, Carried DEF CheckSpend, Open, IInv, Looping
<1>2. /\ tripped' = [tripped EXCEPT ![c] = @ \/ spent[c] >= run[c].budget]
      /\ phase' = [phase EXCEPT ![c] = IF tripped'[c] THEN "told" ELSE "running"]
      /\ UNCHANGED <<rows, receipts, cost, decisions, precheck, shown, run, spent, unrecorded>>
  BY DEF CheckSpend, Go, settling, asking
<1>3. /\ phase'[c] \in {"told", "running"}
      /\ \A g \in Hosts \ {c} : phase'[g] = phase[g] /\ tripped'[g] = tripped[g]
      /\ tripped'[c] <=> tripped[c] \/ spent[c] >= run[c].budget
  BY <1>0, <1>2 DEF IInv, Typed
<1>4. \/ ~Trips(c) /\ stops' = stops
      \/ Trips(c) /\ stops' = [stops EXCEPT ![id] = @ + 1]
  BY DEF CheckSpend
<1>5. tripped[c] <=> stops[id] = 1 \/ id \in unrecorded
  BY <1>1 DEF OnRecord
<1>6. stops[id] \in Nat /\ stops[id] <= 1
  BY <1>1 DEF IInv, Typed
<1>7. /\ stops'[id] <= 1
      /\ tripped'[c] <=> stops'[id] = 1 \/ id \in unrecorded'
      /\ \A i \in Off(c) : /\ stops'[i] = stops[i]
                           /\ i \in unrecorded' <=> i \in unrecorded
  <2>1. CASE ~Trips(c) /\ stops' = stops
    <3>1. tripped'[c] <=> tripped[c]
      BY <2>1, <1>3 DEF Trips
    <3> QED
      BY <3>1, <2>1, <1>2, <1>5, <1>6
  <2>2. CASE Trips(c) /\ stops' = [stops EXCEPT ![id] = @ + 1]
    <3>1. ~tripped[c] /\ tripped'[c]
      BY <2>2, <1>3 DEF Trips
    <3>2. stops[id] = 0 /\ stops'[id] = 1
      <4>1. stops[id] # 1
        BY <3>1, <1>5
      <4>2. stops[id] = 0
        BY <4>1, <1>6
      <4>3. stops'[id] = stops[id] + 1
        BY <2>2, <1>1 DEF IInv, Typed
      <4> QED
        BY <4>2, <4>3
    <3>3. \A i \in Off(c) : stops'[i] = stops[i]
      BY <2>2 DEF Off, IInv, Typed
    <3> QED
      BY <3>1, <3>2, <3>3, <1>2
  <2> QED
    BY <2>1, <2>2, <1>4
<1>8. Working(c)
  BY <1>1, <1>2, <1>3, <1>7 DEF Working, Off, Open
<1>9. OnRecord(c)'
  BY <1>1, <1>2, <1>3, <1>7 DEF OnRecord, Looping
<1> QED
  BY <1>7, <1>8, <1>9

\* A guard between two checks; what only a cockpit keeps on record is not asked of it.
LEMMA GuardsWork ==
    ASSUME IInv, NEW g \in Guards, ShouldStop(g) \/ FrameworkStops(g)
    PROVE  Working(g) /\ OnRecord(g)' /\ stops'[run[g].id] <= 1
<1>0. g \in Hosts /\ g \notin Cockpits
  BY AgentRunAssumption DEF Hosts, AgentRunAssumption
<1>1. Open(g) /\ run[g].id \in Ids /\ OnRecord(g) /\ Looping(g)
  BY <1>0, Carried DEF ShouldStop, FrameworkStops, Open, IInv, Looping
<1>2. /\ \E place \in {"told", "running", "raised"} : phase' = [phase EXCEPT ![g] = place]
      /\ \A h \in Hosts \ {g} : tripped'[h] = tripped[h]
      /\ UNCHANGED <<rows, receipts, cost, decisions, stops, precheck, shown, run, spent, unrecorded>>
  BY DEF ShouldStop, FrameworkStops, StopOf, Go, settling, asking, IInv, Typed
<1>3. /\ phase'[g] \in {"told", "running", "raised"}
      /\ \A h \in Hosts \ {g} : phase'[h] = phase[h]
  BY <1>0, <1>2 DEF IInv, Typed
<1>4. Working(g)
  BY <1>1, <1>2, <1>3 DEF Working, Off, Open
<1>5. OnRecord(g)'
  <2>1. CASE phase'[g] = "raised"
    BY <1>0, <1>1, <1>2, <2>1, RaisedOnRecord
  <2>2. CASE phase'[g] # "raised"
    BY <1>0, <1>1, <1>2, <1>3, <2>2 DEF OnRecord, Looping
  <2> QED
    BY <2>1, <2>2
<1> QED
  BY <1>1, <1>2, <1>4, <1>5 DEF IInv

LEMMA SettleRunWorks ==
    ASSUME IInv, NEW c \in Cockpits, SettleRun(c)
    PROVE  Working(c) /\ OnRecord(c)' /\ stops'[run[c].id] <= 1
<1>0. c \in Hosts
  BY DEF Hosts
<1>1. Open(c) /\ run[c].id \in Ids /\ OnRecord(c)
  BY <1>0, Carried DEF SettleRun, Ending, Open, IInv
<1>2. PICK success \in BOOLEAN : MarkSettled(run[c].id, success, NotReported)
  BY DEF SettleRun
<1>3. /\ rows'[run[c].id].verdict = rows[run[c].id].verdict
      /\ rows'[run[c].id].settled /\ rows'[run[c].id].paid = rows[run[c].id].paid
      /\ \A i \in Off(c) : rows'[i] = rows[i]
      /\ decisions' = decisions
  BY <1>1, <1>2, SettlingMarks DEF IInv, Off
<1>4. /\ phase'[c] = "correcting" /\ \A h \in Hosts \ {c} : phase'[h] = phase[h]
      /\ cost'[run[c].id] = spent[c] /\ \A i \in Off(c) : cost'[i] = cost[i]
      /\ UNCHANGED <<receipts, stops, precheck, shown, run, tripped, spent, unrecorded>>
  BY <1>0, <1>1 DEF SettleRun, Go, Off, asking, IInv, Typed
<1>5. Working(c)
  BY <1>1, <1>3, <1>4 DEF Working, Open
<1>6. OnRecord(c)'
  <2>1. c \notin Guards
    BY AgentRunAssumption DEF AgentRunAssumption
  <2>2. /\ rows[run[c].id].verdict = "APPROVE" /\ receipts[run[c].id] = 0
        /\ rows[run[c].id].paid = NotReported
    BY <1>1 DEF OnRecord
  <2> QED
    BY <1>3, <1>4, <2>1, <2>2 DEF OnRecord, Looping
<1> QED
  BY <1>1, <1>4, <1>5, <1>6 DEF IInv

LEMMA CorrectWorks ==
    ASSUME IInv, NEW c \in Cockpits, CorrectAmount(c)
    PROVE  Working(c) /\ OnRecord(c)' /\ stops'[run[c].id] <= 1
<1>0. c \in Hosts
  BY DEF Hosts
<1> DEFINE id == run[c].id
<1>1. Open(c) /\ id \in Ids /\ OnRecord(c) /\ phase[c] = "correcting"
  BY <1>0, Carried DEF CorrectAmount, Open, IInv
<1>2. rows \in [Ids -> RowType] /\ rows[id] \in RowType
  BY <1>1 DEF IInv, Typed
<1>3. rows' = [rows EXCEPT ![id] = [rows[id] EXCEPT !.amount = spent[c]]]
  BY <1>2 DEF CorrectAmount, Corrected, RowType
<1>4. rows'[id] = [rows[id] EXCEPT !.amount = spent[c]] /\ \A i \in Off(c) : rows'[i] = rows[i]
  <2> HIDE DEF id
  <2>1. Off(c) = Ids \ {id}
    BY DEF Off, id
  <2> QED
    BY <1>1, <1>2, <1>3, <2>1
<1>5. /\ rows'[id].verdict = rows[id].verdict /\ rows'[id].settled = rows[id].settled
      /\ rows'[id].paid = rows[id].paid /\ rows'[id].amount = spent[c]
  BY <1>2, <1>4 DEF RowType
<1>6. /\ phase'[c] = "journalling" /\ \A h \in Hosts \ {c} : phase'[h] = phase[h]
      /\ UNCHANGED <<decisions, receipts, stops, precheck, shown, run, tripped, spent, cost,
                     unrecorded>>
  BY <1>0 DEF CorrectAmount, Go, asking, IInv, Typed
<1>7. Working(c)
  BY <1>1, <1>4, <1>5, <1>6 DEF Working, Open
<1>8. OnRecord(c)'
  <2>1. /\ rows[id].verdict = "APPROVE" /\ receipts[id] = 0
        /\ rows[id].settled /\ rows[id].paid = NotReported /\ cost[id] = spent[c]
    BY <1>1 DEF OnRecord
  <2>2. Counted(rows'[id]) = spent[c] /\ rows'[id].amount = spent[c] /\ cost'[id] = spent[c]
    BY <2>1, <1>5, <1>6 DEF Counted
  <2>3. c \notin Guards
    BY AgentRunAssumption DEF AgentRunAssumption
  <2> QED
    BY <2>1, <2>2, <2>3, <1>5, <1>6 DEF OnRecord, Looping, Counted, Due
<1> QED
  BY <1>1, <1>6, <1>7, <1>8 DEF IInv

LEMMA FinishWorks ==
    ASSUME IInv, NEW g \in Guards, Finish(g)
    PROVE  Working(g) /\ OnRecord(g)' /\ stops'[run[g].id] <= 1
<1>0. g \in Hosts /\ g \notin Cockpits
  BY AgentRunAssumption DEF Hosts, AgentRunAssumption
<1> DEFINE id == run[g].id
<1>1. Open(g) /\ id \in Ids /\ OnRecord(g) /\ spent[g] \in Nat
  BY <1>0, Carried DEF Finish, Ending, Open, IInv
<1>2. PICK success \in BOOLEAN, actual \in {spent[g], NotReported} :
          /\ MarkSettled(id, success, actual)
          /\ cost' = [cost EXCEPT ![id] = IF actual = NotReported THEN @ ELSE actual]
  BY DEF Finish
<1>3. /\ rows'[id].verdict = rows[id].verdict
      /\ rows'[id].settled
      /\ rows'[id].paid = (IF actual = NotReported THEN rows[id].paid ELSE actual)
      /\ \A i \in Off(g) : rows'[i] = rows[i]
      /\ decisions' = decisions
  BY <1>1, <1>2, SettlingMarks DEF IInv, Off
<1>4. /\ phase'[g] = "journalling" /\ \A h \in Hosts \ {g} : phase'[h] = phase[h]
      /\ UNCHANGED <<receipts, stops, precheck, shown, run, tripped, spent, unrecorded>>
  BY <1>0, <1>1 DEF Finish, Go, asking, IInv, Typed
<1>5. /\ cost'[id] = IF actual = NotReported THEN cost[id] ELSE actual
      /\ \A i \in Off(g) : cost'[i] = cost[i]
  <2>1. cost \in [Ids -> Nat \cup {NotReported}]
    BY DEF IInv, Typed
  <2>2. Off(g) = Ids \ {id}
    BY DEF Off
  <2> HIDE DEF id
  <2> QED
    BY <1>1, <1>2, <2>1, <2>2
<1>6. Working(g)
  BY <1>1, <1>3, <1>4, <1>5 DEF Working, Open
<1>7. OnRecord(g)'
  <2>1. rows[id].verdict = "APPROVE" /\ receipts[id] = 0 /\ rows[id].paid = cost[id]
    BY <1>1 DEF OnRecord
  <2>2. rows'[id].paid = cost'[id]
    BY <2>1, <1>3, <1>5
  <2>3. Counted(rows'[id]) = IF cost'[id] = NotReported THEN rows'[id].amount ELSE cost'[id]
    BY <2>2 DEF Counted
  <2> QED
    BY <1>0, <1>3, <1>4, <2>1, <2>2, <2>3 DEF OnRecord, Looping, Counted, Due
<1> QED
  BY <1>1, <1>4, <1>6, <1>7 DEF IInv

\* What ends a run: its entry in the journal, or a crash.
LEMMA JournallingCloses ==
    ASSUME IInv, NEW h \in Hosts, JournalSettlement(h)
    PROVE  Closing(h) /\ Previews'
<1>1. Closing(h)
  BY DEF JournalSettlement, Closing, Go, Off, IInv, Typed
<1>2. Previews'
  BY DEF JournalSettlement, asking, IInv, Previews
<1> QED
  BY <1>1, <1>2

LEMMA CrashCloses ==
    ASSUME IInv, NEW h \in Hosts, Crash(h)
    PROVE  Closing(h) /\ Previews'
<1>1. Closing(h)
  <2>1. \A g \in Hosts \ {h} : tripped'[g] = tripped[g] /\ spent'[g] = spent[g]
    BY DEF Crash, IInv, Typed
  <2>2. UNCHANGED <<rows, cost, stops, unrecorded, decisions, receipts>>
    BY DEF Crash, settling
  <2> QED
    BY <2>1, <2>2 DEF Crash, Closing
<1>2. \A c \in Cockpits, m \in Models : precheck'[c][m] \in {precheck[c][m], None}
  BY DEF Crash, IInv, Typed
<1>3. rows' = rows /\ shown' = shown
  BY DEF Crash, settling
<1>4. Previews'
  BY <1>2, <1>3 DEF IInv, Previews
<1> QED
  BY <1>1, <1>4

\* The steps of the three kinds.
Works(h) ==
    \/ StepOfAgent(h) \/ ReceiptRefused(h)
    \/ h \in Cockpits /\ (CheckSpend(h) \/ StopRefused(h) \/ SettleRun(h) \/ CorrectAmount(h))
    \/ h \in Guards /\ (ShouldStop(h) \/ FrameworkStops(h) \/ Finish(h))

LEMMA WorksWork ==
    ASSUME IInv, NEW h \in Hosts, Works(h)
    PROVE  IInv' /\ Working(h)
<1>1. Working(h) /\ OnRecord(h)' /\ stops'[run[h].id] <= 1
  BY StepsWork, ChecksWork, StopRefusedWorks, ReceiptRefusedWorks, SettleRunWorks, CorrectWorks,
     GuardsWork, FinishWorks DEF Works
<1>2. Typed' /\ Carrying'
  BY TypedHost, TypedCockpit, TypedGuard DEF Works, Hosted, Cockpit, Guard, IInv
<1>3. /\ Apart' /\ Standing' /\ Previews'
      /\ \A g \in Hosts : Open(g)' => OnRecord(g)'
      /\ \A id \in Ids : stops'[id] <= 1
  BY <1>1, WorkingKeeps
<1> QED
  BY <1>1, <1>2, <1>3 DEF IInv

Ends(h) == JournalSettlement(h) \/ Crash(h)

LEMMA EndsEnd ==
    ASSUME IInv, NEW h \in Hosts, Ends(h)
    PROVE  IInv' /\ Closing(h)
<1>1. Closing(h) /\ Previews'
  BY JournallingCloses, CrashCloses DEF Ends
<1>2. Typed' /\ Carrying'
  BY TypedHost DEF Ends, Hosted, IInv
<1> QED
  BY <1>1, <1>2, ClosingKeeps DEF IInv

Asks(c) == (\E m \in Models : PrecheckRun(c, m)) \/ (\E id \in Ids : RecordOverride(c, id))

Starts(h, budget) ==
    \/ h \in Cockpits /\ \E m \in Models : AuthorizeRun(h, m, budget)
    \/ h \in Guards /\ StartGuard(h, budget)

LEMMA StartsStart ==
    ASSUME IInv, NEW h \in Hosts, NEW budget \in Budgets, Starts(h, budget)
    PROVE  IInv' /\ \E id \in Ids : rows[id].verdict = None /\ Opening(h, id, budget)
BY AuthorizeRunKeeps, StartKeeps DEF Starts

Refuses(h, budget) ==
    \/ h \in Cockpits /\ \E m \in Models : AuthorizeRefused(h, m, budget)
    \/ h \in Guards /\ StartRefused(h, budget)

LEMMA RefusesRefuse ==
    ASSUME IInv, NEW h \in Hosts, NEW budget \in Budgets, Refuses(h, budget)
    PROVE  IInv' /\ \E id \in Ids : rows[id].verdict = None /\ Unjournalled(id, budget)
BY AuthorizeRefusedKeeps, StartRefusedKeeps DEF Refuses

\* Every step is of one of the five kinds, or stutters.
LEMMA Kinds ==
    ASSUME [Next]_vars
    PROVE  \/ \E c \in Cockpits : Asks(c)
           \/ \E h \in Hosts, budget \in Budgets : Starts(h, budget)
           \/ \E h \in Hosts, budget \in Budgets : Refuses(h, budget)
           \/ \E h \in Hosts : Works(h)
           \/ \E h \in Hosts : Ends(h)
           \/ UNCHANGED vars
<1>1. ASSUME NEW c \in Cockpits, Cockpit(c)
      PROVE  \/ Asks(c)
             \/ \E budget \in Budgets : Starts(c, budget)
             \/ \E budget \in Budgets : Refuses(c, budget)
             \/ Works(c)
  BY <1>1 DEF Cockpit, Asks, Starts, Refuses, Works
<1>2. ASSUME NEW g \in Guards, Guard(g)
      PROVE  \/ \E budget \in Budgets : Starts(g, budget)
             \/ \E budget \in Budgets : Refuses(g, budget)
             \/ Works(g)
  BY <1>2 DEF Guard, Starts, Refuses, Works
<1>3. ASSUME NEW h \in Hosts, Hosted(h)
      PROVE  Works(h) \/ Ends(h)
  BY <1>3 DEF Hosted, Works, Ends
<1>4. CASE \E c \in Cockpits : Cockpit(c)
  BY <1>1, <1>4 DEF Hosts
<1>5. CASE \E g \in Guards : Guard(g)
  BY <1>2, <1>5 DEF Hosts
<1>6. CASE \E h \in Hosts : Hosted(h)
  BY <1>3, <1>6
<1> QED
  BY <1>4, <1>5, <1>6 DEF Next, Hosted

LEMMA IInvStutters == IInv /\ UNCHANGED vars => IInv'
<1> SUFFICES ASSUME IInv, UNCHANGED vars
             PROVE  IInv'
  OBVIOUS
<1>1. Typed' /\ Carrying'
  BY TypedNext DEF IInv
<1>2. Previews'
  BY DEF vars, IInv, Previews
<1> QED
  BY <1>1, <1>2, Untouching DEF vars, IInv

LEMMA IInvNext == IInv /\ [Next]_vars => IInv'
<1> SUFFICES ASSUME IInv, [Next]_vars
             PROVE  IInv'
  OBVIOUS
<1>1. CASE \E c \in Cockpits : Asks(c)
  BY <1>1, PrecheckKeeps, OverrideKeeps DEF Asks
<1>2. CASE \E h \in Hosts, budget \in Budgets : Starts(h, budget)
  BY <1>2, StartsStart
<1>3. CASE \E h \in Hosts : Works(h)
  BY <1>3, WorksWork
<1>4. CASE \E h \in Hosts : Ends(h)
  BY <1>4, EndsEnd
<1>5. CASE \E h \in Hosts, budget \in Budgets : Refuses(h, budget)
  BY <1>5, RefusesRefuse
<1> QED
  BY <1>1, <1>2, <1>3, <1>4, <1>5, Kinds, IInvStutters

LEMMA IInvHolds == Spec => []IInv
BY IInvInit, IInvNext, PTL DEF Spec

\* Whatever is previewed, overridden, dropped or crashed, no id is decided twice, no two hosts
\* carry one run, and a host that is busy was approved (plugin.py, inference.py).
THEOREM AgentRunOneDecisionPerId == Spec => []OneDecisionPerId
<1>1. IInv => OneDecisionPerId
  <2> SUFFICES ASSUME IInv
               PROVE  OneDecisionPerId
    OBVIOUS
  <2>1. ASSUME NEW id \in Ids
        PROVE  decisions[id] <= 1
    BY DEF IInv, Standing
  <2>2. \A g, h \in Hosts : Open(g) /\ Open(h) /\ g # h => run[g].id # run[h].id
    BY DEF IInv, Apart
  <2>3. \A h \in Hosts : Open(h) => rows[run[h].id].verdict = "APPROVE"
    BY DEF IInv, OnRecord
  <2> QED
    BY <2>1, <2>2, <2>3 DEF OneDecisionPerId
<1> QED
  BY <1>1, IInvHolds, PTL

\* A stop is journalled once, when the run first reaches its budget, however often the loop asks
\* afterwards; only a journal that refuses the entry leaves none (plugin.py, check_spend).
THEOREM AgentRunStopIsJournalledOnce == Spec => []StopIsJournalledOnce
<1>1. IInv => StopIsJournalledOnce
  <2> SUFFICES ASSUME IInv
               PROVE  StopIsJournalledOnce
    OBVIOUS
  <2>1. \A id \in Ids : stops[id] <= 1
    BY DEF IInv
  <2>2. ASSUME NEW c \in Cockpits, Open(c), phase[c] \in {"stepped", "told"}
        PROVE  tripped[c] <=> stops[run[c].id] = 1 \/ run[c].id \in unrecorded
    <3>1. OnRecord(c) /\ Looping(c)
      BY <2>2 DEF IInv, Looping, Hosts
    <3> QED
      BY <3>1 DEF OnRecord
  <2> QED
    BY <2>1, <2>2 DEF StopIsJournalledOnce
<1> QED
  BY <1>1, IInvHolds, PTL

-----------------------------------------------------------------------------
(***************************************************************************)
(* What the three kinds of steps do to the other properties.               *)
(***************************************************************************)
\* A run that another one takes the place of is dropped, and so is one that crashes.
LEMMA StartsDrop ==
    ASSUME IInv, NEW h \in Hosts, NEW budget \in Budgets, Starts(h, budget)
    PROVE  /\ phase[h] # "correcting"
           /\ gone \subseteq gone'
           /\ Open(h) => run[h].id \in gone'
<1>1. ASSUME NEW m \in Models, AuthorizeRun(h, m, budget)
      PROVE  phase[h] # "correcting" /\ gone' = gone \cup ({run[h].id} \ {None})
  BY <1>1 DEF AuthorizeRun
<1>2. ASSUME StartGuard(h, budget)
      PROVE  phase[h] # "correcting" /\ gone' = gone /\ ~Open(h)
  BY <1>2 DEF StartGuard, Open
<1>3. Open(h) => run[h].id # None
  BY DEF IInv, Carrying, Open
<1> QED
  BY <1>1, <1>2, <1>3 DEF Starts

LEMMA EndsDrop ==
    ASSUME IInv, NEW h \in Hosts, Ends(h)
    PROVE  /\ gone \subseteq gone'
           /\ run[h].id \in gone' \/ (phase[h] = "journalling" /\ receipts'[run[h].id] = 1)
<1>1. CASE JournalSettlement(h)
  <2>1. phase[h] = "journalling" /\ gone' = gone
    BY <1>1 DEF JournalSettlement
  <2>2. run[h].id \in Ids /\ receipts[run[h].id] = 0
    BY <2>1, Carried DEF IInv, Open, OnRecord
  <2>3. receipts' = [receipts EXCEPT ![run[h].id] = @ + 1] /\ receipts \in [Ids -> Nat]
    BY <1>1 DEF JournalSettlement, IInv, Typed
  <2>4. receipts'[run[h].id] = 1
    BY <2>2, <2>3
  <2> QED
    BY <2>1, <2>4
<1>2. CASE Crash(h)
  BY <1>2 DEF Crash
<1> QED
  BY <1>1, <1>2 DEF Ends

\* The other operations of a cockpit leave runs and rows alone.
Runs == <<rows, receipts, cost, decisions, stops, run, tripped, phase, spent, gone, unrecorded>>

LEMMA AsksNothing ==
    ASSUME NEW c \in Cockpits, Asks(c)
    PROVE  UNCHANGED Runs
BY DEF Asks, PrecheckRun, RecordOverride, settling, Runs

LEMMA WorksInside ==
    ASSUME NEW h \in Hosts, Works(h)
    PROVE  gone' = gone
BY DEF Works, StepOfAgent, ReceiptRefused, CheckSpend, StopRefused, SettleRun, CorrectAmount,
       ShouldStop, FrameworkStops, Finish

\* A decision that the journal refuses is dropped, and changes its own row alone.
LEMMA RefusesDrop ==
    ASSUME IInv, NEW h \in Hosts, NEW budget \in Budgets, Refuses(h, budget)
    PROVE  \E id \in Ids :
              /\ rows[id].verdict = None
              /\ \A i \in Ids \ {id} : rows'[i] = rows[i]
              /\ ~rows'[id].settled /\ receipts'[id] = 0
              /\ gone' = gone \cup {id}
              /\ UNCHANGED <<decisions, overrides, receipts, run, phase, spent, cost, shown>>
<1>1. PICK id \in Ids : rows[id].verdict = None /\ Unjournalled(id, budget)
  BY RefusesRefuse
<1>2. /\ rows' = [rows EXCEPT ![id] = Row(budget)]
      /\ gone' = gone \cup {id}
      /\ UNCHANGED <<decisions, overrides, receipts, run, phase, spent, cost, shown>>
  BY <1>1 DEF Unjournalled
<1>3. \A i \in Ids \ {id} : rows'[i] = rows[i]
  BY <1>2 DEF IInv, Typed
<1>4. ~rows'[id].settled
  BY <1>2, RowIs DEF IInv, Typed
<1>5. receipts'[id] = 0
  BY <1>1, <1>2 DEF IInv, Standing
<1> QED
  BY <1>1, <1>2, <1>3, <1>4, <1>5

Remembered(id) ==
    /\ rows[id].verdict = "APPROVE" =>
          \/ \E h \in Hosts : run[h].id = id
          \/ rows[id].settled /\ receipts[id] = 1
          \/ id \in gone
    /\ rows[id].verdict = "REJECT" => ~rows[id].settled /\ receipts[id] = 0

LEMMA StartsRemember ==
    ASSUME IInv, NEW h \in Hosts, NEW budget \in Budgets, Starts(h, budget),
           NEW i \in Ids, Remembered(i)
    PROVE  Remembered(i)'
<1>1. PICK id \in Ids : rows[id].verdict = None /\ Opening(h, id, budget)
  BY StartsStart
<1>2. /\ rows' = [rows EXCEPT ![id] = Row(budget)]
      /\ run' = [run EXCEPT ![h] = IF Fits(budget) THEN [id |-> id, budget |-> budget] ELSE NoRun]
      /\ receipts' = receipts
  BY <1>1 DEF Opening, Authorize, Opened
<1>3. CASE i = id
  <2>1. /\ rows'[i].verdict = IF Fits(budget) THEN "APPROVE" ELSE "REJECT"
        /\ ~rows'[i].settled
    BY <1>2, <1>3, RowIs DEF IInv, Typed
  <2>2. Fits(budget) => run'[h].id = i
    BY <1>2, <1>3 DEF IInv, Typed
  <2>3. receipts'[i] = 0
    BY <1>1, <1>2, <1>3 DEF IInv, Standing
  <2> QED
    BY <2>1, <2>2, <2>3 DEF Remembered
<1>4. CASE i # id
  <2>1. rows'[i] = rows[i]
    BY <1>2, <1>4 DEF IInv, Typed
  <2>2. gone \subseteq gone' /\ (Open(h) => run[h].id \in gone')
    BY StartsDrop
  <2>3. ASSUME NEW g \in Hosts, run[g].id = i
        PROVE  i \in gone' \/ run'[g].id = i
    <3>1. CASE g = h
      <4>1. Open(h)
        BY <2>3, <3>1, AgentRunAssumption DEF IInv, Carrying, Open, AgentRunAssumption
      <4> QED
        BY <4>1, <2>2, <2>3, <3>1
    <3>2. CASE g # h
      BY <1>2, <2>3, <3>2 DEF IInv, Typed
    <3> QED
      BY <3>1, <3>2
  <2> QED
    BY <1>2, <2>1, <2>2, <2>3 DEF Remembered
<1> QED
  BY <1>3, <1>4

LEMMA RefusesRemember ==
    ASSUME IInv, NEW h \in Hosts, NEW budget \in Budgets, Refuses(h, budget),
           NEW i \in Ids, Remembered(i)
    PROVE  Remembered(i)'
<1>1. PICK id \in Ids :
          /\ rows[id].verdict = None
          /\ \A j \in Ids \ {id} : rows'[j] = rows[j]
          /\ ~rows'[id].settled /\ receipts'[id] = 0
          /\ gone' = gone \cup {id}
          /\ UNCHANGED <<decisions, overrides, receipts, run, phase, spent, cost, shown>>
  BY RefusesDrop
<1>2. CASE i = id
  BY <1>1, <1>2 DEF Remembered
<1>3. CASE i # id
  <2>1. rows'[i] = rows[i]
    BY <1>1, <1>3
  <2> QED
    BY <1>1, <2>1 DEF Remembered
<1> QED
  BY <1>2, <1>3

LEMMA WorksRemember ==
    ASSUME IInv, NEW h \in Hosts, Works(h), NEW i \in Ids, Remembered(i)
    PROVE  Remembered(i)'
<1>1. Working(h) /\ gone' = gone
  BY WorksWork, WorksInside
<1>2. run' = run /\ receipts' = receipts
  BY <1>1 DEF Working
<1>3. CASE i = run[h].id
  <2>1. rows[i].verdict = "APPROVE"
    BY <1>1, <1>3 DEF Working, IInv, Open, OnRecord
  <2>2. rows'[i].verdict = rows[i].verdict
    BY <1>1, <1>3 DEF Working
  <2> QED
    BY <1>2, <1>3, <2>1, <2>2 DEF Remembered
<1>4. CASE i # run[h].id
  <2>1. rows'[i] = rows[i]
    BY <1>1, <1>4 DEF Working, Off
  <2> QED
    BY <1>1, <1>2, <2>1 DEF Remembered
<1> QED
  BY <1>3, <1>4

LEMMA EndsRemember ==
    ASSUME IInv, NEW h \in Hosts, Ends(h), NEW i \in Ids, Remembered(i)
    PROVE  Remembered(i)'
<1>1. /\ Closing(h)
      /\ gone \subseteq gone'
      /\ run[h].id \in gone' \/ (phase[h] = "journalling" /\ receipts'[run[h].id] = 1)
  BY EndsEnd, EndsDrop
<1>2. rows' = rows /\ run' = [run EXCEPT ![h] = NoRun]
  BY <1>1 DEF Closing
<1>3. rows[run[h].id].verdict = "APPROVE" /\ (phase[h] = "journalling" => rows[run[h].id].settled)
  BY <1>1 DEF Closing, IInv, Open, OnRecord
<1>4. CASE i = run[h].id
  BY <1>1, <1>2, <1>3, <1>4 DEF Remembered
<1>5. CASE i # run[h].id
  <2>1. receipts'[i] = receipts[i]
    BY <1>1, <1>5 DEF Closing, Off
  <2>2. \A g \in Hosts : run[g].id = i => run'[g].id = i
    BY <1>2, <1>5 DEF IInv, Typed
  <2> QED
    BY <1>1, <1>2, <2>1, <2>2 DEF Remembered
<1> QED
  BY <1>4, <1>5

\* No run is forgotten: an approved one is open, or settled with exactly one receipt, or was
\* dropped by a crash, the next authorize_run or a journal that refused its decision; a refused
\* one never settles (inference.py).
THEOREM AgentRunNoRunForgotten == Spec => []NoRunForgotten
<1>1. NoRunForgotten <=> \A i \in Ids : Remembered(i)
  BY DEF NoRunForgotten, Remembered
<1>2. Init => NoRunForgotten
  BY AgentRunAssumption DEF Init, NoRow, NoRunForgotten, AgentRunAssumption
<1>3. IInv /\ NoRunForgotten /\ [Next]_vars => NoRunForgotten'
  <2> SUFFICES ASSUME IInv, [Next]_vars, NEW i \in Ids, Remembered(i)
               PROVE  Remembered(i)'
    BY <1>1 DEF NoRunForgotten, Remembered
  <2>1. CASE UNCHANGED Runs
    BY <2>1 DEF Runs, Remembered
  <2>2. CASE UNCHANGED vars
    BY <2>2 DEF vars, Remembered
  <2> QED
    BY <2>1, <2>2, Kinds, AsksNothing, StartsRemember, RefusesRemember, WorksRemember, EndsRemember
<1> QED
  BY <1>2, <1>3, IInvHolds, PTL DEF Spec

-----------------------------------------------------------------------------
Costed(id) ==
    rows[id].settled =>
        \/ Counted(rows[id]) = Due(id)
        \/ id \in gone
        \/ \E c \in Cockpits : run[c].id = id /\ phase[c] = "correcting"

LEMMA StartsCosted ==
    ASSUME IInv, NEW h \in Hosts, NEW budget \in Budgets, Starts(h, budget),
           NEW i \in Ids, Costed(i)
    PROVE  Costed(i)'
<1>1. PICK id \in Ids : rows[id].verdict = None /\ Opening(h, id, budget)
  BY StartsStart
<1>2. /\ rows' = [rows EXCEPT ![id] = Row(budget)]
      /\ cost' = cost
      /\ \A g \in Hosts \ {h} : run'[g] = run[g] /\ phase'[g] = phase[g]
  BY <1>1 DEF Opening, Authorize, Opened, Go, IInv, Typed
<1>3. CASE i = id
  <2>1. ~rows'[i].settled
    BY <1>2, <1>3, RowIs DEF IInv, Typed
  <2> QED
    BY <2>1 DEF Costed
<1>4. CASE i # id
  <2>1. rows'[i] = rows[i]
    BY <1>2, <1>4 DEF IInv, Typed
  <2>2. gone \subseteq gone' /\ phase[h] # "correcting"
    BY StartsDrop
  <2>3. ASSUME NEW c \in Cockpits, run[c].id = i, phase[c] = "correcting"
        PROVE  run'[c].id = i /\ phase'[c] = "correcting"
    <3>1. c \in Hosts \ {h}
      BY <2>2, <2>3 DEF Hosts
    <3> QED
      BY <1>2, <2>3, <3>1
  <2> QED
    BY <1>2, <2>1, <2>2, <2>3 DEF Costed, Counted, Due
<1> QED
  BY <1>3, <1>4

LEMMA RefusesCosted ==
    ASSUME IInv, NEW h \in Hosts, NEW budget \in Budgets, Refuses(h, budget),
           NEW i \in Ids, Costed(i)
    PROVE  Costed(i)'
<1>1. PICK id \in Ids :
          /\ rows[id].verdict = None
          /\ \A j \in Ids \ {id} : rows'[j] = rows[j]
          /\ ~rows'[id].settled /\ receipts'[id] = 0
          /\ gone' = gone \cup {id}
          /\ UNCHANGED <<decisions, overrides, receipts, run, phase, spent, cost, shown>>
  BY RefusesDrop
<1>2. CASE i = id
  BY <1>1, <1>2 DEF Costed
<1>3. CASE i # id
  <2>1. rows'[i] = rows[i]
    BY <1>1, <1>3
  <2> QED
    BY <1>1, <2>1 DEF Costed, Counted, Due
<1> QED
  BY <1>2, <1>3

LEMMA WorksCosted ==
    ASSUME IInv, NEW h \in Hosts, Works(h), NEW i \in Ids, Costed(i)
    PROVE  Costed(i)'
<1>1. Working(h) /\ gone' = gone /\ IInv'
  BY WorksWork, WorksInside
<1>2. run' = run /\ Open(h)'
  BY <1>1 DEF Working, Open
<1>3. CASE i = run[h].id
  <2>1. OnRecord(h)'
    BY <1>1, <1>2 DEF IInv
  <2>2. phase'[h] \in {"running", "stepped", "told", "raised", "correcting", "journalling"}
    BY <1>1, <1>2 DEF IInv, Typed, Places, Open
  <2>3. CASE phase'[h] \in {"running", "stepped", "told"}
    <3>1. ~rows'[i].settled
      BY <1>2, <1>3, <2>1, <2>3 DEF OnRecord, Looping
    <3> QED
      BY <3>1 DEF Costed
  <2>4. CASE phase'[h] = "correcting"
    <3>1. h \in Cockpits /\ run'[h].id = i
      BY <1>2, <1>3, <2>1, <2>4 DEF OnRecord
    <3> QED
      BY <3>1, <2>4 DEF Costed
  <2>5. CASE phase'[h] \in {"journalling", "raised"}
    <3>1. rows'[i].settled => (Counted(rows[i]) = Due(i))'
      BY <1>2, <1>3, <2>1, <2>5 DEF OnRecord, Counted, Due
    <3> QED
      BY <3>1 DEF Costed, Counted, Due
  <2> QED
    BY <2>2, <2>3, <2>4, <2>5
<1>4. CASE i # run[h].id
  <2>1. rows'[i] = rows[i] /\ cost'[i] = cost[i]
    BY <1>1, <1>4 DEF Working, Off
  <2>2. ASSUME NEW c \in Cockpits, run[c].id = i, phase[c] = "correcting"
        PROVE  run'[c].id = i /\ phase'[c] = "correcting"
    <3>1. c \in Hosts \ {h}
      BY <1>4, <2>2 DEF Hosts
    <3> QED
      BY <1>1, <1>2, <2>2, <3>1 DEF Working
  <2> QED
    BY <1>1, <2>1, <2>2 DEF Costed, Counted, Due
<1> QED
  BY <1>3, <1>4

LEMMA EndsCosted ==
    ASSUME IInv, NEW h \in Hosts, Ends(h), NEW i \in Ids, Costed(i)
    PROVE  Costed(i)'
<1>1. /\ Closing(h)
      /\ gone \subseteq gone'
      /\ run[h].id \in gone' \/ phase[h] = "journalling"
  BY EndsEnd, EndsDrop
<1>2. /\ rows' = rows /\ cost' = cost
      /\ \A g \in Hosts \ {h} : run'[g] = run[g] /\ phase'[g] = phase[g]
  BY <1>1 DEF Closing, Go, IInv, Typed
<1>3. ASSUME NEW c \in Cockpits, run[c].id = i, phase[c] = "correcting"
      PROVE  i \in gone' \/ (run'[c].id = i /\ phase'[c] = "correcting")
  <2>1. CASE c = h
    BY <1>1, <1>3, <2>1
  <2>2. CASE c # h
    <3>1. c \in Hosts \ {h}
      BY <2>2 DEF Hosts
    <3> QED
      BY <1>2, <1>3, <3>1
  <2> QED
    BY <2>1, <2>2
<1> QED
  BY <1>1, <1>2, <1>3 DEF Costed, Counted, Due

\* What the envelopes of later runs are computed from is what the earlier ones cost, or their
\* budget if finish was not told: a settled row whose cost is known counts its budget only
\* between the two commits of settle_run, or after a crash there (inference.py).
THEOREM AgentRunSpendIsTheCost == Spec => []SpendIsTheCost
<1>1. SpendIsTheCost <=> \A i \in Ids : Costed(i)
  BY DEF SpendIsTheCost, Costed, Due
<1>2. Init => SpendIsTheCost
  BY DEF Init, NoRow, SpendIsTheCost
<1>3. IInv /\ SpendIsTheCost /\ [Next]_vars => SpendIsTheCost'
  <2> SUFFICES ASSUME IInv, [Next]_vars, NEW i \in Ids, Costed(i)
               PROVE  Costed(i)'
    BY <1>1 DEF SpendIsTheCost, Costed, Due
  <2>1. CASE UNCHANGED Runs
    BY <2>1 DEF Runs, Costed, Counted, Due
  <2>2. CASE UNCHANGED vars
    BY <2>2 DEF vars, Costed, Counted, Due
  <2> QED
    BY <2>1, <2>2, Kinds, AsksNothing, StartsCosted, RefusesCosted, WorksCosted, EndsCosted
<1> QED
  BY <1>2, <1>3, IInvHolds, PTL DEF Spec

-----------------------------------------------------------------------------
\* An id that was decided stays decided.
LEMMA DecidedStays ==
    ASSUME IInv, [Next]_vars
    PROVE  Decided \subseteq Decided'
<1>1. ASSUME NEW h \in Hosts, NEW budget \in Budgets, Starts(h, budget)
      PROVE  Decided \subseteq Decided'
  <2>1. PICK id \in Ids : Opening(h, id, budget)
    BY <1>1, StartsStart
  <2>2. decisions' = [decisions EXCEPT ![id] = @ + 1] /\ decisions \in [Ids -> Nat]
    BY <2>1 DEF Opening, Authorize, IInv, Typed
  <2>3. \A i \in Ids : decisions[i] > 0 => decisions'[i] > 0
    BY <2>2
  <2> QED
    BY <2>3 DEF Decided
<1>2. CASE decisions' = decisions
  BY <1>2 DEF Decided
<1>3. ASSUME NEW h \in Hosts, Works(h) \/ Ends(h)
      PROVE  decisions' = decisions
  BY <1>3, WorksWork, EndsEnd DEF Working, Closing
<1>4. ASSUME NEW c \in Cockpits, Asks(c)
      PROVE  decisions' = decisions
  BY <1>4, AsksNothing DEF Runs
<1>5. UNCHANGED vars => decisions' = decisions
  BY DEF vars
<1>6. ASSUME NEW h \in Hosts, NEW budget \in Budgets, Refuses(h, budget)
      PROVE  decisions' = decisions
  BY <1>6, RefusesDrop
<1> QED
  BY <1>1, <1>2, <1>3, <1>4, <1>5, <1>6, Kinds

\* What a person was shown is accounted for: the id is decided, or its pre-check is still
\* pending, or that was replaced or lost.
Shown == shown \subseteq Decided \cup Previewed \cup stale

LEMMA ShownKept ==
    ASSUME IInv, Shown, [Next]_vars, stale \subseteq stale',
           \A id \in shown' \ shown : id \in Previewed',
           \A c \in Cockpits, m \in Models :
               \/ precheck'[c][m] = precheck[c][m]
               \/ precheck[c][m] \in Decided' \cup stale' \cup {None}
    PROVE  Shown'
<1>1. Decided \subseteq Decided'
  BY DecidedStays
<1>2. ASSUME NEW id \in Previewed
      PROVE  id \in Previewed' \cup Decided' \cup stale'
  <2>1. PICK c \in Cockpits, m \in Models : id = precheck[c][m] /\ id # None
    BY <1>2 DEF Previewed
  <2>2. CASE precheck'[c][m] = precheck[c][m]
    BY <2>1, <2>2 DEF Previewed
  <2>3. CASE precheck[c][m] \in Decided' \cup stale' \cup {None}
    BY <2>1, <2>3
  <2> QED
    BY <2>2, <2>3
<1> QED
  BY <1>1, <1>2 DEF Shown

\* The steps that do not touch the pre-checks.
LEMMA ElsewhereShown ==
    ASSUME IInv, Shown, [Next]_vars, precheck' = precheck, shown' = shown, stale' = stale
    PROVE  Shown'
BY ShownKept

LEMMA AsksShown ==
    ASSUME IInv, Shown, [Next]_vars, NEW c \in Cockpits, Asks(c)
    PROVE  Shown'
<1>0. precheck \in [Cockpits -> [Models -> Ids \cup {None}]]
  BY DEF IInv, Typed
<1>1. ASSUME NEW m \in Models, PrecheckRun(c, m)
      PROVE  Shown'
  <2>1. PICK id \in Fresh : /\ precheck' = [precheck EXCEPT ![c][m] = id]
                            /\ shown' = shown \cup {id}
    BY <1>1 DEF PrecheckRun
  <2>2. stale' = stale \cup ({precheck[c][m]} \ {None})
    BY <1>1 DEF PrecheckRun
  <2>3. \A d \in Cockpits, n \in Models :
            precheck'[d][n] = IF d = c /\ n = m THEN id ELSE precheck[d][n]
    BY <1>0, <2>1
  <2>4. id \in Previewed'
    <3>1. id # None
      BY AgentRunAssumption DEF AgentRunAssumption, Fresh
    <3> QED
      BY <2>3, <3>1 DEF Previewed
  <2> QED
    BY <2>1, <2>2, <2>3, <2>4, ShownKept
<1>2. ASSUME NEW id \in Ids, RecordOverride(c, id)
      PROVE  Shown'
  BY <1>2, ElsewhereShown DEF RecordOverride
<1> QED
  BY <1>1, <1>2 DEF Asks

LEMMA StartsShown ==
    ASSUME IInv, Shown, [Next]_vars, NEW h \in Hosts, NEW budget \in Budgets,
           Starts(h, budget) \/ Refuses(h, budget)
    PROVE  Shown'
<1>0. precheck \in [Cockpits -> [Models -> Ids \cup {None}]]
  BY DEF IInv, Typed
<1>1. ASSUME NEW m \in Models, h \in Cockpits, AuthorizeRun(h, m, budget)
      PROVE  Shown'
  <2>1. PICK id \in RunIds(h, m) : Authorize(id, budget)
    BY <1>1 DEF AuthorizeRun
  <2>2. /\ precheck' = [precheck EXCEPT ![h][m] = None]
        /\ shown' = shown /\ stale' = stale
    BY <1>1 DEF AuthorizeRun, Taken
  <2>3. \A d \in Cockpits, n \in Models : d # h \/ n # m => precheck'[d][n] = precheck[d][n]
    BY <1>0, <2>2
  <2>4. precheck[h][m] # None => precheck[h][m] \in Decided'
    <3>1. SUFFICES ASSUME precheck[h][m] # None
                   PROVE  precheck[h][m] \in Decided'
      OBVIOUS
    <3>2. id = precheck[h][m] /\ id \in Ids
      BY <1>0, <1>1, <2>1, <3>1 DEF RunIds
    <3>3. decisions' = [decisions EXCEPT ![id] = @ + 1] /\ decisions \in [Ids -> Nat]
      BY <2>1 DEF Authorize, IInv, Typed
    <3>4. decisions'[id] > 0
      BY <3>2, <3>3
    <3> QED
      BY <3>2, <3>4 DEF Decided
  <2> QED
    BY <2>2, <2>3, <2>4, ShownKept
<1>2. ASSUME NEW m \in Models, h \in Cockpits, AuthorizeRefused(h, m, budget)
      PROVE  Shown'
  <2>1. /\ precheck' = [precheck EXCEPT ![h][m] = None]
        /\ shown' = shown /\ stale' = stale \cup ({precheck[h][m]} \ {None})
    BY <1>2 DEF AuthorizeRefused, Unjournalled, Taken
  <2>2. \A d \in Cockpits, n \in Models : d # h \/ n # m => precheck'[d][n] = precheck[d][n]
    BY <1>0, <2>1
  <2> QED
    BY <2>1, <2>2, ShownKept
<1>3. ASSUME StartGuard(h, budget) \/ StartRefused(h, budget)
      PROVE  Shown'
  <2>1. precheck' = precheck /\ shown' = shown /\ stale' = stale
    BY <1>3 DEF StartGuard, StartRefused, Unjournalled, asking
  <2> QED
    BY <2>1, ElsewhereShown
<1> QED
  BY <1>1, <1>2, <1>3 DEF Starts, Refuses

LEMMA CrashShown ==
    ASSUME IInv, Shown, [Next]_vars, NEW h \in Hosts, Crash(h)
    PROVE  Shown'
<1>0. precheck \in [Cockpits -> [Models -> Ids \cup {None}]] /\ shown' = shown
  BY DEF Crash, IInv, Typed
<1>1. CASE h \notin Cockpits
  BY <1>0, <1>1, ElsewhereShown DEF Crash
<1>2. CASE h \in Cockpits
  <2>1. /\ precheck' = [precheck EXCEPT ![h] = [m \in Models |-> None]]
        /\ stale' = stale \cup ({precheck[h][m] : m \in Models} \ {None})
    BY <1>2 DEF Crash
  <2>2. \A d \in Cockpits, n \in Models : d # h => precheck'[d][n] = precheck[d][n]
    BY <1>0, <2>1
  <2>3. \A n \in Models : precheck[h][n] \in stale' \cup {None}
    BY <2>1
  <2> QED
    BY <1>0, <2>1, <2>2, <2>3, ShownKept
<1> QED
  BY <1>1, <1>2

\* A person overrides what was shown.
Recorded == overrides \subseteq shown

\* Whenever it is recorded, an override names a decision that was made, or that is still to be
\* made, under the id a person was shown; unless that pre-check was replaced by another, or lost
\* with its process or with a decision the journal refused (plugin.py).
THEOREM AgentRunOverrideNamesADecision == Spec => []OverrideNamesADecision
<1>1. Init => Shown /\ Recorded
  BY DEF Init, Shown, Recorded
<1>2. IInv /\ Shown /\ [Next]_vars => Shown'
  <2> SUFFICES ASSUME IInv, Shown, [Next]_vars
               PROVE  Shown'
    OBVIOUS
  <2>1. ASSUME NEW h \in Hosts, Works(h) \/ JournalSettlement(h)
        PROVE  precheck' = precheck /\ shown' = shown /\ stale' = stale
    BY <2>1 DEF Works, StepOfAgent, ReceiptRefused, CheckSpend, StopRefused, SettleRun,
                CorrectAmount, ShouldStop, FrameworkStops, Finish, JournalSettlement, asking
  <2>2. CASE \E c \in Cockpits : Asks(c)
    BY <2>2, AsksShown
  <2>3. CASE \E h \in Hosts, budget \in Budgets : Starts(h, budget) \/ Refuses(h, budget)
    BY <2>3, StartsShown
  <2>4. CASE \E h \in Hosts : Works(h) \/ Ends(h)
    BY <2>4, <2>1, ElsewhereShown, CrashShown DEF Ends
  <2>5. CASE UNCHANGED vars
    BY <2>5, ElsewhereShown DEF vars
  <2> QED
    BY <2>2, <2>3, <2>4, <2>5, Kinds
<1>3. Recorded /\ IInv /\ [Next]_vars => Recorded'
  <2> SUFFICES ASSUME Recorded, IInv, [Next]_vars
               PROVE  overrides' \subseteq shown'
    BY DEF Recorded
  <2>1. ASSUME NEW c \in Cockpits, Asks(c)
        PROVE  overrides' \subseteq shown'
    BY <2>1 DEF Asks, PrecheckRun, RecordOverride, Recorded
  <2>2. ASSUME NEW h \in Hosts, NEW budget \in Budgets, Starts(h, budget) \/ Refuses(h, budget)
        PROVE  overrides' = overrides /\ shown' = shown
    BY <2>2 DEF Starts, Refuses, AuthorizeRun, AuthorizeRefused, StartGuard, StartRefused,
                Unjournalled, asking
  <2>3. ASSUME NEW h \in Hosts, Works(h) \/ Ends(h)
        PROVE  overrides' = overrides /\ shown' = shown
    BY <2>3 DEF Works, StepOfAgent, ReceiptRefused, CheckSpend, StopRefused, SettleRun,
                CorrectAmount, ShouldStop, FrameworkStops, Finish, Ends, JournalSettlement, Crash,
                asking
  <2> QED
    BY <2>1, <2>2, <2>3, Kinds DEF vars, Recorded
<1>4. Shown /\ Recorded => OverrideNamesADecision
  BY DEF Shown, Recorded, OverrideNamesADecision
<1> QED
  BY <1>1, <1>2, <1>3, <1>4, IInvHolds, PTL DEF Spec

-----------------------------------------------------------------------------
(***************************************************************************)
(* The ceiling.  One step of an agent costs at most so much.               *)
(***************************************************************************)
LargestCost == \E c \in Costs : \A d \in Costs : d <= c

LEMMA LargestIsMax ==
    ASSUME LargestCost
    PROVE  Max(Costs) \in Nat /\ \A c \in Costs : c <= Max(Costs)
<1>1. Costs \subseteq Nat
  BY AgentRunAssumption DEF AgentRunAssumption
<1>2. \E c \in Costs : \A d \in Costs : c >= d
  BY <1>1 DEF LargestCost
<1>3. Max(Costs) \in Costs /\ \A d \in Costs : Max(Costs) >= d
  BY <1>2 DEF Max
<1> QED
  BY <1>1, <1>3

LEMMA SdkCeilingNarrows ==
    ASSUME IInv, NEW g \in Hosts
    PROVE  SdkCeiling(g) \in Nat /\ SdkCeiling(g) <= CallerCeiling
<1>1. CallerCeiling \in Nat /\ run[g].budget \in Nat
  BY AgentRunAssumption DEF AgentRunAssumption, IInv, Typed
<1> DEFINE two == {CallerCeiling, run[g].budget}
<1>2. \E x \in two : \A y \in two : x =< y
  <2>1. CASE CallerCeiling <= run[g].budget
    BY <1>1, <2>1
  <2>2. CASE ~(CallerCeiling <= run[g].budget)
    BY <1>1, <2>2
  <2> QED
    BY <2>1, <2>2
<1>3. Min(two) \in two /\ \A y \in two : Min(two) =< y
  <2> HIDE DEF two
  <2> QED
    BY <1>2 DEF Min
<1> QED
  BY <1>1, <1>3 DEF SdkCeiling

WithinCeiling(h) ==
    /\ phase[h] = "running" => spent[h] <= run[h].budget
    /\ phase[h] \in {"stepped", "told"} => spent[h] <= run[h].budget + Max(Costs)
    /\ HasSdkCeiling(h) => spent[h] = 0 \/ spent[h] < CallerCeiling + Max(Costs)

LEMMA OthersWithin ==
    ASSUME NEW g \in Hosts, WithinCeiling(g),
           phase'[g] = phase[g], spent'[g] = spent[g], run'[g] = run[g]
    PROVE  WithinCeiling(g)'
BY DEF WithinCeiling, HasSdkCeiling

LEMMA StartsWithin ==
    ASSUME LargestCost, IInv, NEW h \in Hosts, NEW budget \in Budgets, Starts(h, budget),
           NEW g \in Hosts, WithinCeiling(g)
    PROVE  WithinCeiling(g)'
<1>1. PICK id \in Ids : Opening(h, id, budget)
  BY StartsStart
<1>2. /\ run' = [run EXCEPT ![h] = IF Fits(budget) THEN [id |-> id, budget |-> budget] ELSE NoRun]
      /\ phase' = [phase EXCEPT ![h] = IF ~Fits(budget) THEN "idle"
                                       ELSE IF AsksFirst(h) THEN "stepped" ELSE "running"]
      /\ spent' = [spent EXCEPT ![h] = 0]
  BY <1>1 DEF Opening, Opened, Go
<1>3. CASE g # h
  BY <1>2, <1>3, OthersWithin DEF IInv, Typed
<1>4. CASE g = h
  <2>1. spent'[g] = 0 /\ run'[g].budget \in Nat
    <3>1. IInv'
      BY StartsStart
    <3>2. run'[g].budget \in Nat
      BY <3>1 DEF IInv, Typed
    <3> QED
      BY <1>2, <1>4, <3>2 DEF IInv, Typed
  <2>2. Max(Costs) \in Nat
    BY LargestIsMax
  <2>3. spent'[g] <= run'[g].budget /\ spent'[g] <= run'[g].budget + Max(Costs)
    BY <2>1, <2>2
  <2> QED
    BY <2>1, <2>3 DEF WithinCeiling
<1> QED
  BY <1>3, <1>4

LEMMA StepWithin ==
    ASSUME LargestCost, IInv, NEW h \in Hosts, StepOfAgent(h), WithinCeiling(h)
    PROVE  WithinCeiling(h)'
<1>1. PICK c \in Costs \cup (IF HasStepLimit(h) THEN {0} ELSE {}) :
          spent' = [spent EXCEPT ![h] = @ + c]
  BY DEF StepOfAgent
<1>2. Max(Costs) \in Nat /\ c \in Nat /\ c <= Max(Costs)
  <2>1. c \in Costs \/ c = 0
    BY <1>1
  <2>2. Costs \subseteq Nat
    BY AgentRunAssumption DEF AgentRunAssumption
  <2> QED
    BY <2>1, <2>2, LargestIsMax
<1>3. /\ spent[h] \in Nat /\ run[h].budget \in Nat
      /\ spent'[h] = spent[h] + c /\ phase'[h] = "stepped" /\ run' = run
  BY <1>1 DEF StepOfAgent, Go, IInv, Typed
<1>4. spent[h] <= run[h].budget
  BY DEF StepOfAgent, WithinCeiling
<1>5. spent'[h] <= run'[h].budget + Max(Costs)
  BY <1>2, <1>3, <1>4
<1>6. ASSUME HasSdkCeiling(h)
      PROVE  spent'[h] < CallerCeiling + Max(Costs)
  <2>1. ~(spent[h] >= SdkCeiling(h))
    BY <1>6 DEF StepOfAgent, AtOwnCeiling
  <2>2. SdkCeiling(h) \in Nat /\ SdkCeiling(h) <= CallerCeiling /\ CallerCeiling \in Nat
    BY SdkCeilingNarrows, AgentRunAssumption DEF AgentRunAssumption
  <2> QED
    BY <1>2, <1>3, <2>1, <2>2
<1> QED
  BY <1>3, <1>5, <1>6 DEF WithinCeiling, HasSdkCeiling

\* The checks: a loop goes on only within its budget.
LEMMA ChecksWithin ==
    ASSUME LargestCost, IInv, NEW h \in Hosts, Works(h), ~StepOfAgent(h), WithinCeiling(h)
    PROVE  WithinCeiling(h)'
<1>1. run' = run /\ spent' = spent
  BY DEF Works, ReceiptRefused, CheckSpend, StopRefused, SettleRun, CorrectAmount, ShouldStop,
         FrameworkStops, Finish
<1>2. spent[h] \in Nat /\ run[h].budget \in Nat /\ Max(Costs) \in Nat
  BY LargestIsMax DEF IInv, Typed
<1>3. ASSUME h \in Cockpits, CheckSpend(h)
      PROVE  /\ phase[h] \in {"stepped", "told"}
             /\ phase'[h] = "running" => spent[h] <= run[h].budget
  <2>1. /\ tripped' = [tripped EXCEPT ![h] = @ \/ spent[h] >= run[h].budget]
        /\ phase' = [phase EXCEPT ![h] = IF tripped'[h] THEN "told" ELSE "running"]
        /\ phase[h] \in {"stepped", "told"}
    BY <1>3 DEF CheckSpend, Go
  <2>2. spent[h] >= run[h].budget => tripped'[h]
    BY <2>1 DEF IInv, Typed
  <2>3. tripped'[h] => phase'[h] = "told"
    BY <2>1 DEF IInv, Typed
  <2>4. phase'[h] = "running" => ~(spent[h] >= run[h].budget)
    BY <2>2, <2>3
  <2> QED
    BY <2>1, <2>4, <1>2
<1>4. ASSUME h \in Guards, ShouldStop(h)
      PROVE  /\ phase[h] \in {"stepped", "told"}
             /\ phase'[h] = "running" => spent[h] <= run[h].budget
  <2>1. /\ phase' = [phase EXCEPT ![h] = IF Exceeds(h) THEN StopOf(h) ELSE "running"]
        /\ phase[h] = "stepped" /\ StopOf(h) # "running"
    BY <1>4 DEF ShouldStop, StopOf, Go
  <2>2. phase'[h] = "running" => ~Exceeds(h)
    BY <2>1 DEF IInv, Typed
  <2>3. phase'[h] = "running" => ~(spent[h] > run[h].budget)
    BY <2>2 DEF Exceeds
  <2> QED
    BY <2>1, <2>3, <1>2
<1>5. ASSUME h \in Guards, FrameworkStops(h)
      PROVE  spent[h] <= run[h].budget /\ phase'[h] # "running"
  BY <1>5 DEF FrameworkStops, Go, WithinCeiling, IInv, Typed
<1>6. ASSUME \/ h \in Cockpits /\ (StopRefused(h) \/ SettleRun(h) \/ CorrectAmount(h))
             \/ h \in Guards /\ Finish(h)
             \/ ReceiptRefused(h)
      PROVE  phase'[h] \in {"raised", "correcting", "journalling"}
  BY <1>6 DEF StopRefused, ReceiptRefused, SettleRun, CorrectAmount, Finish, Go, IInv, Typed
<1>7. /\ phase'[h] = "running" => spent[h] <= run[h].budget
      /\ phase'[h] \in {"stepped", "told"} => spent[h] <= run[h].budget + Max(Costs)
  <2>1. spent[h] <= run[h].budget => spent[h] <= run[h].budget + Max(Costs)
    BY <1>2
  <2>2. phase[h] \in {"stepped", "told"} => spent[h] <= run[h].budget + Max(Costs)
    BY DEF WithinCeiling
  <2>3. CASE h \in Cockpits /\ CheckSpend(h)
    BY <2>2, <2>3, <1>3
  <2>4. CASE h \in Guards /\ ShouldStop(h)
    BY <2>2, <2>4, <1>4
  <2>5. CASE h \in Guards /\ FrameworkStops(h)
    BY <2>1, <2>5, <1>5
  <2>6. CASE \/ h \in Cockpits /\ (StopRefused(h) \/ SettleRun(h) \/ CorrectAmount(h))
             \/ h \in Guards /\ Finish(h)
             \/ ReceiptRefused(h)
    BY <2>6, <1>6
  <2> QED
    BY <2>3, <2>4, <2>5, <2>6 DEF Works
<1> QED
  BY <1>1, <1>7 DEF WithinCeiling, HasSdkCeiling

LEMMA EndsWithin ==
    ASSUME IInv, NEW h \in Hosts, Ends(h), NEW g \in Hosts, WithinCeiling(g)
    PROVE  WithinCeiling(g)'
<1>1. /\ phase' = [phase EXCEPT ![h] = "idle"] /\ spent' = [spent EXCEPT ![h] = 0]
      /\ run' = [run EXCEPT ![h] = NoRun]
  BY DEF Ends, JournalSettlement, Crash, Go
<1>2. CASE g = h
  BY <1>1, <1>2 DEF WithinCeiling, IInv, Typed
<1>3. CASE g # h
  BY <1>1, <1>3, OthersWithin DEF IInv, Typed
<1> QED
  BY <1>2, <1>3

\* Where the cost of a step is bounded, no run exceeds what was authorised for it by more than
\* one step, on any framework, and none goes on beyond it; a ceiling the caller set is never
\* widened (plugin.py, adapters/base.py).
THEOREM AgentRunCeilingHolds ==
    ASSUME LargestCost
    PROVE  Spec => []CeilingHolds
<1> DEFINE Within == \A h \in Hosts : WithinCeiling(h)
<1>1. Init => Within
  BY DEF Init, WithinCeiling
<1>2. IInv /\ Within /\ [Next]_vars => Within'
  <2> SUFFICES ASSUME IInv, Within, [Next]_vars, NEW g \in Hosts
               PROVE  WithinCeiling(g)'
    OBVIOUS
  <2>1. CASE UNCHANGED Runs \/ UNCHANGED vars
    BY <2>1, OthersWithin DEF Runs, vars
  <2>3. ASSUME NEW h \in Hosts, NEW budget \in Budgets, Refuses(h, budget)
        PROVE  WithinCeiling(g)'
    BY <2>3, RefusesDrop, OthersWithin
  <2>2. ASSUME NEW h \in Hosts, Works(h)
        PROVE  WithinCeiling(g)'
    <3>1. CASE g = h
      BY <3>1, <2>2, StepWithin, ChecksWithin
    <3>2. CASE g # h
      <4>1. Working(h)
        BY <2>2, WorksWork
      <4>2. phase'[g] = phase[g] /\ spent'[g] = spent[g] /\ run'[g] = run[g]
        BY <3>2, <4>1 DEF Working
      <4> QED
        BY <4>2, OthersWithin
    <3> QED
      BY <3>1, <3>2
  <2> QED
    BY <2>1, <2>2, <2>3, Kinds, AsksNothing, StartsWithin, EndsWithin
<1>3. IInv /\ Within => CeilingHolds
  <2> SUFFICES ASSUME IInv, Within, NEW h \in Hosts
               PROVE  /\ phase[h] = "running" => spent[h] <= rows[run[h].id].amount
                      /\ phase[h] \in {"stepped", "told"} =>
                            spent[h] <= rows[run[h].id].amount + Max(Costs)
                      /\ HasSdkCeiling(h) => spent[h] = 0 \/ spent[h] < CallerCeiling + Max(Costs)
    BY DEF CeilingHolds
  <2>1. Looping(h) => rows[run[h].id].amount = run[h].budget
    BY DEF IInv, OnRecord, Looping, Open
  <2> QED
    BY <2>1 DEF WithinCeiling, Looping
<1> QED
  <2> HIDE DEF Within
  <2> QED
    BY <1>1, <1>2, <1>3, IInvHolds, PTL DEF Spec
=============================================================================

------------------------------ MODULE Authority ------------------------------
(***************************************************************************)
(* What an agent is authorised to do, and how a decision looks it up.      *)
(*                                                                         *)
(* Three JSON files stand beside the journal: the registered identities    *)
(* (engines/evidence/identity.py), the declared intents (engines/economic/ *)
(* intent.py) and the review queue (engines/evidence/escalation.py).  Each *)
(* operation on one of them loads the whole file, changes its copy, and    *)
(* writes the whole file back: it truncates, then writes, and takes no     *)
(* lock.  A file that does not parse reads as empty.                       *)
(*                                                                         *)
(* Operators register, suspend, revoke, declare and resolve.  Deciders     *)
(* authorise payments (runtime.py), reading each file once or twice along  *)
(* the way, and put what needs a human into the queue.  Processes crash.   *)
(* One day passes, on one channel per request; money moves when a decider  *)
(* settles, for what was quoted or for another amount.                     *)
(***************************************************************************)
EXTENDS Verdicts, Integers, FiniteSets, FiniteSetsExt

CONSTANTS
    Operators, Deciders,
    Calls,          \* what they call: authorize(), advise()
    Agents,
    AgentOf,        \* the agent each decider acts for
    IntentIds,
    Requests,       \* request ids
    Amounts,
    Reported,       \* the amounts a settlement may report
    Kinds,          \* what a request may be about: network, channel, resource, category
    Names,          \* the intent a request may name in its metadata, or None
    Registered,     \* the identities file at the start
    Standing,       \* the intents file at the start
    Registrations,  \* which agent an operator may register, as what
    Declarations,   \* for which agent an operator may declare what
    Answers,        \* what a human may answer
    PolicyVerdicts, \* what the engines that follow say
    LastMoment,     \* bound on the clock
    MaxWrites       \* bound on what operators begin

Processes == Operators \cup Deciders
Files == {"identities", "intents", "review"}

NotDeclared == -1       \* a limit, or an expiry, of None
NotReported == -1       \* a settlement without an amount: what was quoted
Limits == Nat \cup {NotDeclared}
Networks == {k.network : k \in Kinds}
Channels == {"internal", "external"}

\* What an operator sets of an Identity and a decision reads; the controller, the wallets and the
\* rest are never read back.
Authorities == [parent: Agents \cup {None}, perAction: Limits, daily: Limits,
                networks: SUBSET Networks]
Statuses == {"active", "suspended", "revoked"}
Identity == [status: Statuses, terms: Authorities]

\* An Intent; an empty list restricts nothing.  Nothing ever marks one fulfilled.
Mandates == [max: Nat, perAction: Limits, channels: SUBSET Channels,
             resources: SUBSET {k.resource : k \in Kinds},
             categories: SUBSET {k.category : k \in Kinds}, asset: {"USD", "USDC"}]
Intent == [agent: Agents, status: {"active", "revoked"}, expires: Limits, created: Nat,
           terms: Mandates]

ReviewItem == {"pending", "approved", "denied", "expired"}

ASSUME AuthorityAssumption ==
    /\ Operators \cap Deciders = {}
    /\ Calls \subseteq {"authorize", "advise"}
    /\ AgentOf \in [Deciders -> Agents]
    /\ None \notin Agents \cup IntentIds \cup Requests
    /\ IsFiniteSet(IntentIds)
    /\ Amounts \subseteq Nat /\ Reported \subseteq Nat
    /\ \A k \in Kinds : k.channel \in Channels
    /\ Names \subseteq IntentIds \cup {None}
    /\ DOMAIN Registered \subseteq Agents
    /\ \A a \in DOMAIN Registered : Registered[a] \in Identity
    /\ DOMAIN Standing \subseteq IntentIds
    /\ \A i \in DOMAIN Standing :
           Standing[i] \in Intent /\ Standing[i].created < Cardinality(DOMAIN Standing)
    /\ Registrations \subseteq [agent: Agents, terms: Authorities]
    /\ Declarations \subseteq [agent: Agents, terms: Mandates, lasts: Limits]
    /\ Answers \subseteq ReviewItem \ {"pending"}
    /\ PolicyVerdicts \subseteq Verdicts
    /\ LastMoment \in Nat /\ MaxWrites \in Nat

VARIABLES
    files,      \* what was last written whole to each file: a JSON object
    torn,       \* is the file cut short at the moment?
    writer,     \* per process: the operation on a file it is in the middle of
    rows,       \* the transactions table
    now,        \* the clock
    pc,         \* where each decider is
    job,        \* the request each decider is carrying
    ceiling,    \* history: what was declared for each intent
    lost,       \* history: entries replaced by a copy that had not seen them
    answered,   \* history: requests a human has answered
    gone,       \* history: requests whose decider crashed
    overlap,    \* history: the most that was in flight when one more payment got past an intent
    writes      \* how many operations operators have begun

vars == <<files, torn, writer, rows, now, pc, job, ceiling, lost, answered, gone, overlap, writes>>

-----------------------------------------------------------------------------
(***************************************************************************)
(* The files.                                                              *)
(***************************************************************************)
Empty == [n \in {} |-> 0]
Put(f, n, entry) == [m \in DOMAIN f \cup {n} |-> IF m = n THEN entry ELSE f[m]]
Keep(f, S) == [m \in DOMAIN f \cap S |-> f[m]]

\* _load: a file that is missing or does not parse is an empty one.
Load(x) == IF torn[x] THEN Empty ELSE files[x]

NotWriting == [at |-> "none", file |-> None, seen |-> Empty, copy |-> Empty]

\* _load and the change of the copy.
Begin(p, x, copy) ==
    /\ writer[p].at = "none"
    /\ writer' = [writer EXCEPT ![p] = [at |-> "loaded", file |-> x, seen |-> Load(x),
                                        copy |-> copy]]

\* write_text opens the file, which empties it, ...
Truncate(p) ==
    /\ writer[p].at = "loaded"
    /\ torn' = [torn EXCEPT ![writer[p].file] = TRUE]
    /\ writer' = [writer EXCEPT ![p].at = "open"]
    /\ UNCHANGED <<files, rows, now, pc, job, ceiling, lost, answered, gone, overlap, writes>>

\* The entries a copy replaces without having seen them.
Unseen(x, seen) == {<<x, n>> : n \in {m \in DOMAIN files[x] :
                                        ~(m \in DOMAIN seen /\ seen[m] = files[x][m])}}

\* Names of agents that may not act: the agent itself when not active, its parent when missing or
\* not active.
Stopped(f, a) ==
    IF a \notin DOMAIN f THEN {}
    ELSE {b \in {a, f[a].terms.parent} \ {None} : b \notin DOMAIN f \/ f[b].status # "active"}

\* ... and writes it, over what another process may have written in between, of which a longer
\* rest stays.
Write(p) ==
    /\ writer[p].at = "open"
    /\ LET x == writer[p].file
           copy == writer[p].copy
       IN  \/ /\ files' = [files EXCEPT ![x] = copy]
              /\ torn' = [torn EXCEPT ![x] = FALSE]
              /\ lost' = lost \cup Unseen(x, writer[p].seen)
              /\ answered' = IF x = "review"
                             THEN answered \cup {r \in DOMAIN copy : copy[r] # "pending"}
                             ELSE answered
              /\ job' = IF x = "identities"
                        THEN [d \in Deciders |-> [job[d] EXCEPT
                                 !.stopped = @ \cap Stopped(copy, AgentOf[d])]]
                        ELSE job
           \/ /\ ~torn[x] /\ copy # files[x]
              /\ torn' = [torn EXCEPT ![x] = TRUE]
              /\ lost' = lost \cup {<<x, n>> : n \in DOMAIN copy}
              /\ UNCHANGED <<files, answered, job>>
    /\ writer' = [writer EXCEPT ![p] = NotWriting]
    /\ UNCHANGED <<rows, now, pc, ceiling, gone, overlap, writes>>

-----------------------------------------------------------------------------
(***************************************************************************)
(* What operators do.                                                      *)
(***************************************************************************)
Operation(o) ==
    /\ writes < MaxWrites
    /\ writes' = writes + 1
    /\ UNCHANGED <<files, torn, rows, now, pc, job, lost, answered, gone, overlap>>

\* IdentityStore.register: whatever stands under the id is replaced.
Register(o, form) ==
    /\ Begin(o, "identities", Put(Load("identities"), form.agent,
                                  [status |-> "active", terms |-> form.terms]))
    /\ Operation(o) /\ UNCHANGED ceiling

SetStatus_Revives(f, a, s) == a \in DOMAIN f        \* mutant: revocation is not terminal
MaySetStatus(f, a, s) == a \in DOMAIN f /\ (f[a].status = "revoked" => s = "revoked")

\* IdentityStore.set_status
SetStatus(o, a, s) ==
    LET f == Load("identities")
    IN  /\ MaySetStatus(f, a, s)
        /\ Begin(o, "identities", Put(f, a, [f[a] EXCEPT !.status = s]))
        /\ Operation(o) /\ UNCHANGED ceiling

\* IntentStore.declare, under an id of its own.
Declare(o, i, form) ==
    /\ ceiling[i] = NotDeclared
    /\ Begin(o, "intents", Put(Load("intents"), i,
             [agent |-> form.agent, status |-> "active", terms |-> form.terms,
              expires |-> IF form.lasts = NotDeclared THEN NotDeclared ELSE now + form.lasts,
              created |-> Cardinality({j \in IntentIds : ceiling[j] # NotDeclared})]))
    /\ ceiling' = [ceiling EXCEPT ![i] = form.terms.max]
    /\ Operation(o)

\* IntentStore.revoke
Revoke(o, i) ==
    LET f == Load("intents")
    IN  /\ i \in DOMAIN f /\ f[i].status # "revoked"
        /\ Begin(o, "intents", Put(f, i, [f[i] EXCEPT !.status = "revoked"]))
        /\ Operation(o) /\ UNCHANGED ceiling

\* ReviewQueue.resolve.  Nothing else changes: an approval is recorded, not acted on.
Resolve(o, r, answer) ==
    LET f == Load("review")
    IN  /\ r \in DOMAIN f
        /\ Begin(o, "review", Put(f, r, answer))
        /\ Operation(o) /\ UNCHANGED ceiling

Kept_Resolved(f) == {r \in DOMAIN f : f[r] # "pending"}     \* mutant: the condition reversed
Kept(f) == {r \in DOMAIN f : f[r] = "pending"}

\* ReviewQueue.clear_resolved
ClearResolved(o) ==
    /\ Begin(o, "review", Keep(Load("review"), Kept(Load("review"))))
    /\ Operation(o) /\ UNCHANGED ceiling

-----------------------------------------------------------------------------
(***************************************************************************)
(* identity.evaluate and intent.evaluate.                                  *)
(***************************************************************************)
Strictest(S) == CHOOSE v \in S : \A w \in S : Severity[w] <= Severity[v]

Within(a, limit) == limit = NotDeclared \/ a <= limit
NarrowerLimit(c, p) == IF c = NotDeclared THEN p
                       ELSE IF p = NotDeclared THEN c ELSE Min({c, p})

Unregistered == [status |-> None, terms |-> [parent |-> None, perAction |-> NotDeclared,
                                             daily |-> NotDeclared, networks |-> {}]]
IdentityOf(f, a) == IF a \in DOMAIN f THEN f[a] ELSE Unregistered

Exceeds(c, p) == c # NotDeclared /\ p # NotDeclared /\ c > p
Widens(own, parent) ==
    \/ Exceeds(own.terms.perAction, parent.terms.perAction)
    \/ Exceeds(own.terms.daily, parent.terms.daily)
    \/ /\ own.terms.networks # {} /\ parent.terms.networks # {}
       /\ ~(own.terms.networks \subseteq parent.terms.networks)

Permits(own, k) == own.terms.networks = {} \/ k.network = None \/ k.network \in own.terms.networks

\* mutant: only a revoked parent counts
Inactive_Revoked(parent) == parent.status = "revoked"
Inactive(parent) == parent.status # "active"

\* own is registered; parent is what stands under the parent it names, if any.
IdentityRejects(own, parent, k, a, today) ==
    \/ own.status = "revoked"
    \/ /\ own.terms.parent # None /\ parent # Unregistered
       /\ Inactive(parent) \/ Widens(own, parent)
    \/ ~Permits(own, k)
    \/ ~Within(a, NarrowerLimit(own.terms.perAction, parent.terms.perAction))
    \/ own.terms.daily # NotDeclared /\ a > own.terms.daily - today

IdentityVerdict(own, parent, k, a, today) ==
    IF own = Unregistered THEN "APPROVE"
    ELSE Strictest({"APPROVE"}
        \cup {v \in {"REJECT"} : IdentityRejects(own, parent, k, a, today)}
        \cup {v \in {"ESCALATE"} : own.status = "suspended"}
        \cup {v \in {"REVIEW"} : own.terms.parent # None /\ parent = Unregistered})

\* Real dollars inside, USDC outside.
AssetOf(k) == IF k.channel = "internal" THEN "USD" ELSE "USDC"

Expired(i, moment) == i.expires # NotDeclared /\ moment >= i.expires

Covers(t, k) ==
    /\ t.channels = {} \/ k.channel \in t.channels
    /\ t.resources = {} \/ k.resource \in t.resources
    /\ t.categories = {} \/ (k.category # None /\ k.category \in t.categories)

\* All that intent.evaluate refuses but for what has been spent.
IntentVerdict(i, k, a, moment) ==
    Strictest({"APPROVE"}
        \cup {v \in {"REJECT"} : \/ i.status = "revoked" \/ Expired(i, moment)
                                 \/ i.terms.asset # AssetOf(k)
                                 \/ ~Within(a, i.terms.perAction)}
        \cup {v \in {"REVIEW"} : ~Covers(i.terms, k)})

\* active_for and latest_for
Newest(f, S) == IF S = {} THEN None
                ELSE CHOOSE i \in S : \A j \in S : f[j].created <= f[i].created
ActiveFor(f, a, moment) ==
    Newest(f, {i \in DOMAIN f : f[i].agent = a /\ f[i].status = "active" /\ ~Expired(f[i], moment)})
LatestFor_Never(f, a) == None           \* mutant: a lapsed intent is not looked for
LatestFor(f, a) == Newest(f, {i \in DOMAIN f : f[i].agent = a})

SettledRows == {r \in Requests : rows[r].settled /\ rows[r].success}
Paid(w) == IF w.paid = NotReported THEN w.amount ELSE w.paid
Overcharge(w) == IF Paid(w) > w.amount THEN Paid(w) - w.amount ELSE 0
AmountOf(S) == SumFunctionOnSet([r \in Requests |-> Paid(rows[r])], S)
OverchargeOf(S) == SumFunctionOnSet([r \in Requests |-> Overcharge(rows[r])], S)
SpentUnderIntent(i) == AmountOf({r \in SettledRows : rows[r].intent = i})
SpentToday(a, channel) ==
    AmountOf({r \in SettledRows : rows[r].agent = a /\ rows[r].channel = channel})

\* delegation_depth: the links from an agent to one without a parent, or none at all when one of
\* them is missing or the chain is a loop.
UnknownDepth == -1
Up(f, a) == IF a \in DOMAIN f THEN f[a].terms.parent ELSE None

Chain_Partial(f, a) ==      \* mutant: a missing parent ends the count
    LET at[n \in 0..Cardinality(Agents)] == IF n = 0 THEN a ELSE Up(f, at[n - 1])
        ends == {n \in 0..Cardinality(Agents) : at[n] # None /\ Up(f, at[n]) = None}
    IN  IF ends = {} THEN UnknownDepth ELSE Min(ends)
DelegationDepth(f, a) ==
    LET at[n \in 0..Cardinality(Agents)] == IF n = 0 THEN a ELSE Up(f, at[n - 1])
        ends == {n \in 0..Cardinality(Agents) : at[n] \in DOMAIN f /\ Up(f, at[n]) = None}
    IN  IF ends = {} THEN UnknownDepth ELSE Min(ends)

-----------------------------------------------------------------------------
(***************************************************************************)
(* A decision: _evaluate, then record and enqueue.                         *)
(***************************************************************************)
NoRow == [agent |-> None, channel |-> None, intent |-> None, under |-> None, named |-> None,
          amount |-> 0, paid |-> NotReported, verdict |-> None, settled |-> FALSE, success |-> FALSE,
          stopped |-> {}, hadIntent |-> FALSE, sawTorn |-> FALSE]
NoJob == [request |-> None, call |-> None, amount |-> 0, kind |-> None, named |-> None, today |-> 0,
          moment |-> 0, intent |-> None, charged |-> None, max |-> 0, verdict |-> "APPROVE",
          own |-> Unregistered, stopped |-> {}, hadIntent |-> FALSE, sawTorn |-> FALSE]

Init ==
    /\ files = [x \in Files |-> CASE x = "identities" -> Registered
                               [] x = "intents" -> Standing
                               [] x = "review" -> Empty]
    /\ torn = [x \in Files |-> FALSE]
    /\ writer = [p \in Processes |-> NotWriting]
    /\ rows = [r \in Requests |-> NoRow]
    /\ now = 0
    /\ pc = [d \in Deciders |-> "idle"]
    /\ job = [d \in Deciders |-> NoJob]
    /\ ceiling = [i \in IntentIds |-> IF i \in DOMAIN Standing THEN Standing[i].terms.max
                                     ELSE NotDeclared]
    /\ lost = {}
    /\ answered = {}
    /\ gone = {}
    /\ overlap = [i \in IntentIds |-> 0]
    /\ writes = 0

Go(d, place) == pc' = [pc EXCEPT ![d] = place]
Reading(d) == UNCHANGED <<files, torn, writer, rows, now, ceiling, lost, answered, gone, writes>>

Askable == {r \in Requests : rows[r] = NoRow} \ {job[d].request : d \in Deciders}

\* build_request, and the snapshot.
Ask(d) ==
    /\ pc[d] = "idle"
    /\ \E r \in Askable, a \in Amounts, k \in Kinds, i \in Names,
          call \in Calls, rule \in PolicyVerdicts :
        job' = [job EXCEPT ![d] = [NoJob EXCEPT
                   !.request = r, !.call = call, !.amount = a, !.kind = k, !.named = i, !.verdict = rule,
                   !.today = SpentToday(AgentOf[d], k.channel),
                   !.stopped = Stopped(files["identities"], AgentOf[d]),
                   !.hadIntent = \E e \in DOMAIN files["intents"] :
                                     files["intents"][e].agent = AgentOf[d]]]
    /\ Go(d, "asked")
    /\ Reading(d) /\ UNCHANGED overlap

\* The intent a look-up has found, or none.
FoundIntent(d, f, i, moment) ==
    LET j == job[d]
    IN  IF i = None THEN [j EXCEPT !.sawTorn = @ \/ torn["intents"]]
        ELSE [j EXCEPT !.intent = i, !.max = f[i].terms.max,
                       !.verdict = Narrower(@, IntentVerdict(f[i], j.kind, j.amount, moment))]

\* intent_for: the intent that was named, or the live one ...
FindIntent(d) ==
    LET f == Load("intents")
        i == IF job[d].named = None THEN ActiveFor(f, AgentOf[d], now)
             ELSE IF job[d].named \in DOMAIN f THEN job[d].named ELSE None
        found == [FoundIntent(d, f, i, now) EXCEPT !.moment = now]
    IN  /\ pc[d] = "asked"
        /\ job' = [job EXCEPT ![d] = found]
        /\ Go(d, IF i = None /\ job[d].named = None THEN "lapsed" ELSE "looked")
        /\ Reading(d) /\ UNCHANGED overlap

\* ... or else, from the file as it is by then, the latest.
FindLapsed(d) ==
    LET f == Load("intents")
    IN  /\ pc[d] = "lapsed"
        /\ job' = [job EXCEPT ![d] = FoundIntent(d, f, LatestFor(f, AgentOf[d]), job[d].moment)]
        /\ Go(d, "looked")
        /\ Reading(d) /\ UNCHANGED overlap

Remaining_PerAction(d) == job[d].max        \* mutant: what was spent is not subtracted
Remaining(d) == job[d].max - SpentUnderIntent(job[d].intent)

Weighed == {"weighed", "delegated", "decided", "again", "ready", "approved"}
InFlight(i) == {d \in Deciders : pc[d] \in Weighed /\ job[d].intent = i /\ job[d].verdict = "APPROVE"}
AtStake(i) == SumFunctionOnSet([d \in Deciders |-> job[d].amount], InFlight(i))

\* spent_under_intent, and the budget of the intent.
WeighIntent(d) ==
    LET i == job[d].intent
    IN  /\ pc[d] = "looked"
        /\ \/ /\ i # None /\ job[d].amount > Remaining(d)
              /\ job' = [job EXCEPT ![d].verdict = "REJECT"]
              /\ UNCHANGED overlap
           \/ /\ i = None \/ job[d].amount <= Remaining(d)
              /\ overlap' = IF i = None \/ job[d].verdict # "APPROVE" THEN overlap
                            ELSE [overlap EXCEPT ![i] = Max({@, AtStake(i)})]
              /\ UNCHANGED job
        /\ Go(d, "weighed")
        /\ Reading(d)

\* identity_for: the agent, then, from the file as it is by then, the parent it names.
FindIdentity(d) ==
    LET own == IdentityOf(Load("identities"), AgentOf[d])
        j == [job[d] EXCEPT !.own = own,
                            !.sawTorn = @ \/ (own = Unregistered /\ torn["identities"])]
    IN  /\ pc[d] = "weighed"
        /\ \/ /\ own.terms.parent # None
              /\ job' = [job EXCEPT ![d] = j]
              /\ Go(d, "delegated")
           \/ /\ own.terms.parent = None
              /\ job' = [job EXCEPT ![d] = [j EXCEPT !.own = Unregistered, !.moment = now,
                    !.verdict = Narrower(@, IdentityVerdict(own, Unregistered, j.kind, j.amount,
                                                            j.today))]]
              /\ Go(d, "decided")
        /\ Reading(d) /\ UNCHANGED overlap

FindParent(d) ==
    LET parent == IdentityOf(Load("identities"), job[d].own.terms.parent)
        j == job[d]
    IN  /\ pc[d] = "delegated"
        /\ job' = [job EXCEPT ![d] = [j EXCEPT !.own = Unregistered, !.moment = now,
              !.verdict = Narrower(@, IdentityVerdict(j.own, parent, j.kind, j.amount, j.today))]]
        /\ Go(d, "decided")
        /\ Reading(d) /\ UNCHANGED overlap

\* advise() looks the intent of the row up again, in the same two reads, as of the decision.
LookAgain(d) ==
    LET f == Load("intents")
        i == IF job[d].named # None
             THEN IF job[d].named \in DOMAIN f THEN job[d].named ELSE None
             ELSE ActiveFor(f, AgentOf[d], job[d].moment)
    IN  /\ pc[d] = "decided" /\ job[d].call = "advise"
        /\ job' = [job EXCEPT ![d].charged = i]
        /\ Go(d, IF i = None /\ job[d].named = None THEN "again" ELSE "ready")
        /\ Reading(d) /\ UNCHANGED overlap

LookForLapsedAgain(d) ==
    /\ pc[d] = "again"
    /\ job' = [job EXCEPT ![d].charged = LatestFor(Load("intents"), AgentOf[d])]
    /\ Go(d, "ready")
    /\ Reading(d) /\ UNCHANGED overlap

Leave_Busy(d) == Go(d, "idle") /\ UNCHANGED job        \* mutant: the request is kept
Leave(d) ==
    /\ Go(d, "idle")
    /\ job' = [job EXCEPT ![d] = NoJob]

\* Store.record, and the queue for what needs a human.
Record(d) ==
    LET j == job[d]
    IN  /\ pc[d] = "ready" \/ (pc[d] = "decided" /\ j.call = "authorize")
        /\ rows' = [rows EXCEPT ![j.request] = [NoRow EXCEPT
                       !.agent = AgentOf[d], !.channel = j.kind.channel, !.amount = j.amount,
                       !.verdict = j.verdict, !.under = j.intent, !.named = j.named,
                       !.intent = IF j.call = "advise" THEN j.charged ELSE j.intent,
                       !.stopped = j.stopped, !.hadIntent = j.hadIntent, !.sawTorn = j.sawTorn]]
        /\ \/ j.verdict = "APPROVE" /\ Go(d, "approved") /\ UNCHANGED job
           \/ NeedsHuman(j.verdict) /\ Go(d, "queueing") /\ UNCHANGED job
           \/ j.verdict = "REJECT" /\ Leave(d)
        /\ UNCHANGED <<files, torn, writer, now, ceiling, lost, answered, gone, overlap, writes>>

\* ReviewQueue.enqueue
Enqueue(d) ==
    /\ pc[d] = "queueing"
    /\ Begin(d, "review", Put(Load("review"), job[d].request, "pending"))
    /\ Go(d, "queued")
    /\ UNCHANGED <<files, torn, rows, now, job, ceiling, lost, answered, gone, overlap, writes>>

Queued(d) ==
    /\ pc[d] = "queued" /\ writer[d].at = "none"
    /\ Leave(d)
    /\ Reading(d) /\ UNCHANGED overlap

\* record_settlement, with what was paid when the caller says so.
Settle(d) ==
    /\ pc[d] = "approved"
    /\ \E success \in BOOLEAN, paid \in Reported \cup {NotReported} :
        rows' = [rows EXCEPT ![job[d].request].settled = TRUE, ![job[d].request].success = success,
                             ![job[d].request].paid = paid]
    /\ Leave(d)
    /\ UNCHANGED <<files, torn, writer, now, ceiling, lost, answered, gone, overlap, writes>>

-----------------------------------------------------------------------------
\* What a process was writing is lost; a file it had emptied stays empty.
CrashOperator(o) ==
    /\ writer[o].at # "none"
    /\ writer' = [writer EXCEPT ![o] = NotWriting]
    /\ UNCHANGED <<files, torn, rows, now, pc, job, ceiling, lost, answered, gone, overlap, writes>>

CrashDecider(d) ==
    /\ pc[d] # "idle"
    /\ writer' = [writer EXCEPT ![d] = NotWriting]
    /\ gone' = gone \cup {job[d].request}
    /\ Leave(d)
    /\ UNCHANGED <<files, torn, rows, now, ceiling, lost, answered, overlap, writes>>

Tick ==
    /\ now < LastMoment
    /\ now' = now + 1
    /\ UNCHANGED <<files, torn, writer, rows, pc, job, ceiling, lost, answered, gone, overlap, writes>>

Operate(o) ==
    \/ \E form \in Registrations : Register(o, form)
    \/ \E a \in Agents, s \in Statuses : SetStatus(o, a, s)
    \/ \E i \in IntentIds, form \in Declarations : Declare(o, i, form)
    \/ \E i \in IntentIds : Revoke(o, i)
    \/ \E r \in Requests, answer \in Answers : Resolve(o, r, answer)
    \/ ClearResolved(o)

Decide(d) ==
    \/ Ask(d)
    \/ FindIntent(d) \/ FindLapsed(d) \/ WeighIntent(d)
    \/ FindIdentity(d) \/ FindParent(d)
    \/ LookAgain(d) \/ LookForLapsedAgain(d)
    \/ Record(d) \/ Enqueue(d) \/ Queued(d) \/ Settle(d)

Next ==
    \/ \E o \in Operators : Operate(o) \/ CrashOperator(o)
    \/ \E p \in Processes : Truncate(p) \/ Write(p)
    \/ \E d \in Deciders : Decide(d) \/ CrashDecider(d)
    \/ Tick

Spec == Init /\ [][Next]_vars

-----------------------------------------------------------------------------
(***************************************************************************)
(* Properties.                                                             *)
(***************************************************************************)
Places == {"idle", "asked", "lapsed", "looked", "weighed", "delegated", "decided", "again",
           "ready", "approved", "queueing", "queued"}

\* Every variable has its type, what is written whole included; a decider carries a request
\* exactly while it is busy.
TypeOK ==
    /\ DOMAIN files = Files
    /\ DOMAIN files["identities"] \subseteq Agents
    /\ DOMAIN files["intents"] \subseteq IntentIds
    /\ DOMAIN files["review"] \subseteq Requests
    /\ \A a \in DOMAIN files["identities"] : files["identities"][a] \in Identity
    /\ \A i \in DOMAIN files["intents"] : files["intents"][i] \in Intent
    /\ \A r \in DOMAIN files["review"] : files["review"][r] \in ReviewItem
    /\ torn \in [Files -> BOOLEAN]
    /\ \A p \in Processes : writer[p].at \in {"none", "loaded", "open"}
                            /\ (writer[p].at # "none" => writer[p].file \in Files)
    /\ pc \in [Deciders -> Places]
    /\ \A d \in Deciders : pc[d] = "idle" <=> job[d].request = None
    /\ \A d \in Deciders : job[d].verdict \in Verdicts
    /\ \A r \in Requests : rows[r].verdict \in Verdicts \cup {None} /\ rows[r].amount \in Nat
    /\ now \in 0..LastMoment /\ writes \in 0..MaxWrites

\* Revocation is terminal: what was revoked is so until somebody registers the agent anew, unless
\* a copy is written back that was loaded before the revocation (identity.py).
RevocationIsTerminal ==
    [][\A a \in Agents :
        LET revoked(f) == a \in DOMAIN f /\ f[a].status = "revoked"
        IN  revoked(files["identities"]) /\ ~revoked(files'["identities"]) =>
                \/ <<"identities", a>> \in lost'
                \/ \E form \in Registrations :
                       files'["identities"][a] = [status |-> "active", terms |-> form.terms]]_vars

\* A payment is never approved to an agent that was stopped, or whose parent was missing or
\* stopped, from when it was asked to when it was decided, however the reads and the writes of
\* the file interleave, unless a read met the file while it was being written (runtime.py).
StopReachesDecision ==
    \A r \in Requests : rows[r].verdict = "APPROVE" => rows[r].stopped = {} \/ rows[r].sawTorn

\* An agent that once declared what it was sent to do is never again taken for one that did not:
\* an intent that lapsed or was revoked still governs (runtime.py, intent_for).  A name in the
\* metadata that stands for nothing, a file met torn and a declaration overwritten excepted.
LapsedIsNotUngoverned ==
    \A r \in Requests :
        rows[r].hadIntent /\ rows[r].named = None /\ rows[r].under = None =>
            rows[r].sawTorn \/ \E i \in IntentIds : <<"intents", i>> \in lost

\* What is spent under an intent stays within what was declared for it, over all its payments.
\* Beyond it go at most what others had in flight when one more payment was let through on what
\* had settled by then, what settlements came to above their quotes, and what advise() charged to
\* the intent that was decided under another (store.py, runtime.py).
SpentWithinIntent ==
    LET straight(i) == {r \in SettledRows : rows[r].intent = i /\ rows[r].under = i}
        strays(i) == {r \in SettledRows : rows[r].intent = i /\ rows[r].under # i}
    IN  \A i \in IntentIds : ceiling[i] # NotDeclared =>
            SpentUnderIntent(i) <= ceiling[i] + overlap[i] + OverchargeOf(straight(i))
                                   + AmountOf(strays(i))

\* Nothing that needs a human is silently dropped: it is in the queue, a human has answered it,
\* its decider crashed, or another process wrote a queue back that it had not seen
\* (escalation.py).
QueueLosesOnlyToOverlap ==
    \A r \in Requests : NeedsHuman(rows[r].verdict) =>
        \/ r \in DOMAIN files["review"] \cup answered \cup gone
        \/ <<"review", r>> \in lost
        \/ \E d \in Deciders : job[d].request = r

\* The depth that is recorded is the whole distance to an agent that answers to nobody: there are
\* as many agents above as it says, and it is unknown when one of them is missing or above itself.
DepthIsHonest ==
    \A a \in Agents :
        LET f == files["identities"]
            Closed(S) == \A b \in S : Up(f, b) # None => Up(f, b) \in S
            Above == CHOOSE S \in SUBSET Agents :
                        /\ (Up(f, a) # None => Up(f, a) \in S) /\ Closed(S)
                        /\ \A T \in SUBSET Agents :
                              (Up(f, a) # None => Up(f, a) \in T) /\ Closed(T) => S \subseteq T
        IN  DelegationDepth(f, a) =
                IF a \in DOMAIN f /\ a \notin Above /\ Above \subseteq DOMAIN f
                   /\ \E b \in Above \cup {a} : Up(f, b) = None
                THEN Cardinality(Above) ELSE UnknownDepth
=============================================================================

-------------------------- MODULE AuthorityProofs --------------------------
(***************************************************************************)
(* Theorems about Authority: what survives of a revocation, of a stop, of  *)
(* a declared intent and of a queued request when any number of operators  *)
(* and deciders read and rewrite the three files without a lock, and       *)
(* crash.                                                                  *)
(***************************************************************************)
EXTENDS Authority, Sums, FiniteSetTheorems, WellFoundedInduction, TLAPS

-----------------------------------------------------------------------------
(***************************************************************************)
(* The steps, by who takes them.                                           *)
(***************************************************************************)
\* A decider gets on with its request.
Thinks(d) ==
    \/ Ask(d)
    \/ FindIntent(d) \/ FindLapsed(d) \/ WeighIntent(d)
    \/ FindIdentity(d) \/ FindParent(d)
    \/ LookAgain(d) \/ LookForLapsedAgain(d)
    \/ Record(d) \/ Queued(d) \/ Settle(d)

LEMMA StepKinds ==
    ASSUME [Next]_vars
    PROVE  \/ \E o \in Operators : Operate(o) \/ CrashOperator(o)
           \/ \E p \in Processes : Truncate(p) \/ Write(p)
           \/ \E d \in Deciders : Thinks(d) \/ Enqueue(d) \/ CrashDecider(d)
           \/ Tick \/ UNCHANGED vars
<1>1. ASSUME NEW d \in Deciders, Decide(d)
      PROVE  Thinks(d) \/ Enqueue(d)
  BY <1>1 DEF Decide, Thinks
<1> QED
  BY <1>1 DEF Next

-----------------------------------------------------------------------------
(***************************************************************************)
(* The files and the copies of them.                                       *)
(***************************************************************************)
\* What a file holds when it is whole.
IdentityFile(f) == DOMAIN f \subseteq Agents /\ \A a \in DOMAIN f : f[a] \in Identity
IntentFile(f) ==
    /\ DOMAIN f \subseteq IntentIds
    /\ \A i \in DOMAIN f : f[i] \in Intent /\ f[i].created <= Cardinality(IntentIds)
ReviewFile(f) == DOMAIN f \subseteq Requests /\ \A r \in DOMAIN f : f[r] \in ReviewItem

Whole(x, f) ==
    /\ x = "identities" => IdentityFile(f)
    /\ x = "intents" => IntentFile(f)
    /\ x = "review" => ReviewFile(f)

\* What a copy keeps of the file it was loaded from: a revocation, but for an agent that is
\* registered anew; ...
RevokedStay(seen, copy) ==
    \A a \in DOMAIN seen : seen[a].status = "revoked" =>
        /\ a \in DOMAIN copy
        /\ \/ copy[a].status = "revoked"
           \/ \E form \in Registrations : copy[a] = [status |-> "active", terms |-> form.terms]

\* ... whose an intent is; and what is pending.
AgentsStay(seen, copy) ==
    \A i \in DOMAIN seen : i \in DOMAIN copy /\ copy[i].agent = seen[i].agent
PendingStay(seen, copy) == \A r \in DOMAIN seen : seen[r] = "pending" => r \in DOMAIN copy

\* Only what was declared is in the file, for as much as was declared.
Declared(f) == \A i \in DOMAIN f : ceiling[i] # NotDeclared /\ f[i].terms.max = ceiling[i]

Sound(x, seen, copy) ==
    /\ Whole(x, seen) /\ Whole(x, copy)
    /\ x = "identities" => RevokedStay(seen, copy)
    /\ x = "intents" => AgentsStay(seen, copy) /\ Declared(copy)
    /\ x = "review" => PendingStay(seen, copy)

Busy(p) == writer[p].at # "none"

\* A writer has the fields of one; of what it has seen and copied Sound speaks.
WriterType(w) == [at : {"none", "loaded", "open"}, file : Files \cup {None},
                  seen : {w.seen}, copy : {w.copy}]

FilesInv ==
    /\ files = [x \in Files |-> files[x]]
    /\ torn \in [Files -> BOOLEAN]
    /\ writer = [p \in Processes |-> writer[p]]
    /\ \A p \in Processes : writer[p] \in WriterType(writer[p])
    /\ \A x \in Files : Whole(x, files[x])
    /\ Declared(files["intents"])
    /\ \A p \in Processes :
           Busy(p) => /\ writer[p].file \in Files
                      /\ Sound(writer[p].file, writer[p].seen, writer[p].copy)
    /\ ceiling \in [IntentIds -> Limits]
    /\ now \in 0..LastMoment
    /\ writes \in 0..MaxWrites

\* A file that is read, torn or not.
LEMMA LoadIs ==
    ASSUME FilesInv, NEW x \in Files
    PROVE  /\ Whole(x, Load(x))
           /\ x = "intents" => Declared(Load(x))
           /\ DOMAIN Load(x) \subseteq DOMAIN files[x]
           /\ \A n \in DOMAIN Load(x) : Load(x)[n] = files[x][n]
<1>1. DOMAIN Empty = {}
  BY DEF Empty
<1>2. CASE torn[x]
  <2>1. Load(x) = Empty
    BY <1>2 DEF Load
  <2> QED
    BY <1>1, <2>1 DEF Whole, IdentityFile, IntentFile, ReviewFile, Declared
<1>3. CASE ~torn[x]
  <2>1. Load(x) = files[x]
    BY <1>3 DEF Load
  <2> QED
    BY <2>1 DEF FilesInv
<1> QED
  BY <1>2, <1>3

LEMMA FilesInit == Init => FilesInv
<1> SUFFICES ASSUME Init
             PROVE  FilesInv
  OBVIOUS
<1>1. DOMAIN Empty = {}
  BY DEF Empty
<1>2. /\ files["identities"] = Registered /\ files["intents"] = Standing /\ files["review"] = Empty
      /\ files = [x \in Files |-> files[x]]
  BY DEF Init, Files
<1>3. IdentityFile(files["identities"])
  BY <1>2, AuthorityAssumption DEF AuthorityAssumption, IdentityFile
<1>4. IntentFile(files["intents"]) /\ ReviewFile(files["review"]) /\ Declared(files["intents"])
  <2>1. /\ DOMAIN Standing \subseteq IntentIds /\ \A i \in DOMAIN Standing : Standing[i] \in Intent
    BY AuthorityAssumption DEF AuthorityAssumption
  <2>2. \A i \in DOMAIN Standing : Standing[i].terms.max \in Nat
    BY <2>1 DEF Intent, Mandates
  <2>3. \A i \in DOMAIN Standing : ceiling[i] = Standing[i].terms.max
    BY <2>1 DEF Init
  <2>4. Declared(files["intents"])
    BY <1>2, <2>2, <2>3 DEF Declared, NotDeclared
  <2>5. ASSUME NEW i \in DOMAIN Standing
        PROVE  Standing[i].created <= Cardinality(IntentIds)
    <3>1. IsFiniteSet(DOMAIN Standing) /\ Cardinality(DOMAIN Standing) <= Cardinality(IntentIds)
      BY AuthorityAssumption, FS_Subset DEF AuthorityAssumption
    <3>2. Cardinality(DOMAIN Standing) \in Nat /\ Cardinality(IntentIds) \in Nat
      BY <3>1, AuthorityAssumption, FS_CardinalityType DEF AuthorityAssumption
    <3>3. /\ Standing[i].created \in Nat
          /\ Standing[i].created < Cardinality(DOMAIN Standing)
      BY AuthorityAssumption DEF AuthorityAssumption, Intent
    <3> QED
      BY <3>1, <3>2, <3>3
  <2>6. IntentFile(Standing)
    BY <2>1, <2>5 DEF IntentFile
  <2>7. ReviewFile(Empty)
    BY <1>1 DEF ReviewFile
  <2> QED
    BY <1>2, <2>4, <2>6, <2>7
<1>5. \A x \in Files : Whole(x, files[x])
  BY <1>3, <1>4 DEF Whole, Files
<1>6. torn \in [Files -> BOOLEAN] /\ writer = [p \in Processes |-> writer[p]]
  BY DEF Init
<1>7. \A p \in Processes : writer[p] \in WriterType(writer[p]) /\ ~Busy(p)
  BY DEF Init, NotWriting, WriterType, Busy
<1>8. ceiling \in [IntentIds -> Limits]
  <2>1. \A i \in DOMAIN Standing : Standing[i].terms.max \in Nat
    BY AuthorityAssumption DEF AuthorityAssumption, Intent, Mandates
  <2> QED
    BY <2>1 DEF Init, Limits
<1>9. now \in 0..LastMoment /\ writes \in 0..MaxWrites
  BY AuthorityAssumption DEF Init, AuthorityAssumption
<1> QED
  BY <1>2, <1>4, <1>5, <1>6, <1>7, <1>8, <1>9 DEF FilesInv

\* A copy that is sound may be taken.
LEMMA BeginKeeps ==
    ASSUME FilesInv, NEW p \in Processes, NEW x \in Files, NEW copy,
           Begin(p, x, copy), UNCHANGED <<files, torn, now>>,
           ceiling' \in [IntentIds -> Limits], writes' \in 0..MaxWrites,
           \A i \in IntentIds : ceiling[i] # NotDeclared => ceiling'[i] = ceiling[i],
           Whole(x, copy),
           x = "identities" => RevokedStay(Load(x), copy),
           x = "intents" => /\ AgentsStay(Load(x), copy)
                            /\ \A i \in DOMAIN copy : /\ ceiling'[i] # NotDeclared
                                                       /\ copy[i].terms.max = ceiling'[i],
           x = "review" => PendingStay(Load(x), copy)
    PROVE  FilesInv'
<1> DEFINE w == [at |-> "loaded", file |-> x, seen |-> Load(x), copy |-> copy]
<1>1. writer' = [writer EXCEPT ![p] = w]
  BY DEF Begin
<1>2. Whole(x, Load(x))
  BY LoadIs
<1>3. w \in WriterType(w)
  BY DEF WriterType
<1>4. w.file = x /\ w.seen = Load(x) /\ w.copy = copy
  OBVIOUS
<1>5. \A q \in Processes : writer'[q] = IF q = p THEN w ELSE writer[q]
  BY <1>1 DEF FilesInv
<1>6. writer' = [q \in Processes |-> writer'[q]]
  BY <1>1 DEF FilesInv
<1> HIDE DEF w
<1>7. \A q \in Processes : writer'[q] \in WriterType(writer'[q])
  BY <1>3, <1>5 DEF FilesInv
<1>8. ASSUME NEW f, Declared(f), DOMAIN f \subseteq IntentIds
      PROVE  Declared(f)'
  BY <1>8 DEF Declared
<1>9. Declared(files["intents"])'
  <2>1. DOMAIN files["intents"] \subseteq IntentIds
    BY DEF FilesInv, Whole, IntentFile, Files
  <2> QED
    BY <2>1 DEF FilesInv, Declared
<1>10. ASSUME NEW q \in Processes, Busy(q)'
       PROVE  /\ (writer[q].file)' \in Files
              /\ Sound(writer[q].file, writer[q].seen, writer[q].copy)'
  <2>1. CASE q = p
    <3>1. writer'[q] = w
      BY <1>5, <2>1
    <3>2. Whole(x, Load(x)) /\ Whole(x, copy)
      BY <1>2
    <3> QED
      BY <1>4, <3>1, <3>2 DEF Sound, Declared
  <2>2. CASE q # p
    <3>1. writer'[q] = writer[q]
      BY <1>5, <2>2
    <3>2. /\ writer[q].file \in Files
          /\ Sound(writer[q].file, writer[q].seen, writer[q].copy)
      BY <1>10, <3>1 DEF FilesInv, Busy
    <3>3. writer[q].file = "intents" => DOMAIN writer[q].copy \subseteq IntentIds
      BY <3>2 DEF Sound, Whole, IntentFile
    <3> QED
      BY <3>1, <3>2, <3>3 DEF Sound, Declared
  <2> QED
    BY <2>1, <2>2
<1>11. \A y \in Files : Whole(y, files'[y])
  BY DEF FilesInv
<1> QED
  BY <1>6, <1>7, <1>9, <1>10, <1>11 DEF FilesInv

LEMMA RegisterKeeps ==
    ASSUME FilesInv, NEW p \in Processes, NEW form \in Registrations, Register(p, form)
    PROVE  FilesInv'
<1> DEFINE f == Load("identities")
           entry == [status |-> "active", terms |-> form.terms]
           copy == Put(f, form.agent, entry)
<1>1. Whole("identities", f) /\ "identities" \in Files
  BY LoadIs DEF Files
<1>2. form.agent \in Agents /\ entry \in Identity
  <2>1. form \in [agent: Agents, terms: Authorities]
    BY AuthorityAssumption DEF AuthorityAssumption
  <2> QED
    BY <2>1 DEF Identity, Statuses
<1>3. Begin(p, "identities", copy) /\ UNCHANGED <<files, torn, now, ceiling>>
      /\ writes < MaxWrites /\ writes' = writes + 1
  BY DEF Register, Operation
<1> HIDE DEF f
<1>4. /\ DOMAIN copy = DOMAIN f \cup {form.agent}
      /\ copy[form.agent] = entry
      /\ \A m \in DOMAIN f : m # form.agent => copy[m] = f[m]
  BY DEF Put
<1>5. Whole("identities", copy)
  BY <1>1, <1>2, <1>4 DEF Whole, IdentityFile
<1>6. RevokedStay(f, copy)
  <2> SUFFICES ASSUME NEW a \in DOMAIN f, f[a].status = "revoked"
               PROVE  /\ a \in DOMAIN copy
                      /\ \/ copy[a].status = "revoked"
                         \/ \E r \in Registrations :
                                copy[a] = [status |-> "active", terms |-> r.terms]
    BY DEF RevokedStay
  <2> QED
    BY <1>4
<1>7. writes' \in 0..MaxWrites
  BY <1>3, AuthorityAssumption DEF FilesInv, AuthorityAssumption
<1>8. ceiling' \in [IntentIds -> Limits]
  BY <1>3 DEF FilesInv
<1>9. RevokedStay(Load("identities"), copy)
  BY <1>6 DEF f
<1> HIDE DEF copy
<1>10. /\ UNCHANGED <<files, torn, now>>
      /\ \A i \in IntentIds : ceiling[i] # NotDeclared => ceiling'[i] = ceiling[i]
  BY <1>3
<1> QED
  BY <1>1, <1>3, <1>5, <1>7, <1>8, <1>9, <1>10, BeginKeeps

LEMMA SetStatusKeeps ==
    ASSUME FilesInv, NEW p \in Processes, NEW a \in Agents, NEW s \in Statuses,
           SetStatus(p, a, s)
    PROVE  FilesInv'
<1> DEFINE f == Load("identities")
           entry == [f[a] EXCEPT !.status = s]
           copy == Put(f, a, entry)
<1>1. Whole("identities", f) /\ "identities" \in Files
  BY LoadIs DEF Files
<1>2. /\ a \in DOMAIN f /\ (f[a].status = "revoked" => s = "revoked")
      /\ Begin(p, "identities", copy) /\ UNCHANGED <<files, torn, now, ceiling>>
      /\ writes < MaxWrites /\ writes' = writes + 1
  BY DEF SetStatus, MaySetStatus, Operation
<1> HIDE DEF f
<1>3. f[a] \in Identity
  BY <1>1, <1>2 DEF Whole, IdentityFile
<1>4. entry \in Identity /\ entry.status = s
  BY <1>3 DEF Identity
<1>5. /\ DOMAIN copy = DOMAIN f \cup {a}
      /\ copy[a] = entry
      /\ \A m \in DOMAIN f : m # a => copy[m] = f[m]
  BY DEF Put
<1> HIDE DEF entry, copy
<1>6. Whole("identities", copy)
  BY <1>1, <1>4, <1>5 DEF Whole, IdentityFile
<1>7. RevokedStay(f, copy)
  BY <1>2, <1>4, <1>5 DEF RevokedStay
<1>8. writes' \in 0..MaxWrites
  BY <1>2, AuthorityAssumption DEF FilesInv, AuthorityAssumption
<1>9. ceiling' \in [IntentIds -> Limits]
  BY <1>2 DEF FilesInv
<1>10. RevokedStay(Load("identities"), copy)
  BY <1>7 DEF f
<1>11. /\ UNCHANGED <<files, torn, now>>
      /\ \A i \in IntentIds : ceiling[i] # NotDeclared => ceiling'[i] = ceiling[i]
  BY <1>2
<1> QED
  BY <1>1, <1>2, <1>6, <1>8, <1>9, <1>10, <1>11, BeginKeeps

LEMMA DeclareKeeps ==
    ASSUME FilesInv, NEW p \in Processes, NEW i \in IntentIds, NEW form \in Declarations,
           Declare(p, i, form)
    PROVE  FilesInv'
<1> DEFINE f == Load("intents")
           before == {j \in IntentIds : ceiling[j] # NotDeclared}
           until == IF form.lasts = NotDeclared THEN NotDeclared ELSE now + form.lasts
           entry == [agent |-> form.agent, status |-> "active", terms |-> form.terms,
                     expires |-> until, created |-> Cardinality(before)]
           copy == Put(f, i, entry)
<1>1. Whole("intents", f) /\ Declared(f) /\ "intents" \in Files
  BY LoadIs DEF Files
<1>2. /\ ceiling[i] = NotDeclared
      /\ Begin(p, "intents", copy) /\ UNCHANGED <<files, torn, now>>
      /\ ceiling' = [ceiling EXCEPT ![i] = form.terms.max]
      /\ writes < MaxWrites /\ writes' = writes + 1
  BY DEF Declare, Operation
<1>3. /\ form.agent \in Agents /\ form.terms \in Mandates
      /\ form.lasts \in Nat \cup {NotDeclared} /\ form.terms.max \in Nat
  <2>1. form \in [agent: Agents, terms: Mandates, lasts: Limits]
    BY AuthorityAssumption DEF AuthorityAssumption
  <2> QED
    BY <2>1 DEF Mandates, Limits
<1>4. until \in Limits
  <2>1. now \in Nat
    BY AuthorityAssumption DEF FilesInv, AuthorityAssumption
  <2>2. now + form.lasts \in Nat \/ form.lasts = NotDeclared
    BY <2>1, <1>3
  <2> QED
    BY <2>2 DEF Limits
<1>5. Cardinality(before) \in Nat /\ Cardinality(before) <= Cardinality(IntentIds)
  <2>1. IsFiniteSet(IntentIds) /\ before \subseteq IntentIds
    BY AuthorityAssumption DEF AuthorityAssumption
  <2>2. IsFiniteSet(before)
    BY <2>1, FS_Subset
  <2> QED
    BY <2>1, <2>2, FS_Subset, FS_CardinalityType
<1> HIDE DEF f, until, before
<1>6. entry \in Intent /\ entry.created <= Cardinality(IntentIds) /\ entry.terms = form.terms
  BY <1>3, <1>4, <1>5 DEF Intent
<1>7. /\ DOMAIN copy = DOMAIN f \cup {i}
      /\ copy[i] = entry
      /\ \A m \in DOMAIN f : m # i => copy[m] = f[m]
  BY DEF Put
<1> HIDE DEF entry, copy
<1>8. Whole("intents", copy)
  BY <1>1, <1>6, <1>7 DEF Whole, IntentFile
<1>9. i \notin DOMAIN f
  BY <1>1, <1>2 DEF Declared
<1>10. AgentsStay(f, copy)
  BY <1>7, <1>9 DEF AgentsStay
<1>11. ceiling' \in [IntentIds -> Limits]
  BY <1>2, <1>3 DEF FilesInv, Limits
<1>12. ceiling'[i] # NotDeclared /\ ceiling'[i] = form.terms.max
       /\ \A j \in IntentIds : ceiling[j] # NotDeclared => ceiling'[j] = ceiling[j]
  <2>1. form.terms.max # NotDeclared
    BY <1>3 DEF NotDeclared
  <2> QED
    BY <1>2, <2>1 DEF FilesInv
<1>13. \A m \in DOMAIN copy : ceiling'[m] # NotDeclared /\ copy[m].terms.max = ceiling'[m]
  BY <1>1, <1>6, <1>7, <1>9, <1>12 DEF Declared, Whole, IntentFile
<1>14. writes' \in 0..MaxWrites
  BY <1>2, AuthorityAssumption DEF FilesInv, AuthorityAssumption
<1>15. AgentsStay(Load("intents"), copy)
  BY <1>10 DEF f
<1> QED
  BY <1>1, <1>2, <1>8, <1>11, <1>12, <1>13, <1>14, <1>15, BeginKeeps

LEMMA RevokeKeeps ==
    ASSUME FilesInv, NEW p \in Processes, NEW i \in IntentIds, Revoke(p, i)
    PROVE  FilesInv'
<1> DEFINE f == Load("intents")
           entry == [f[i] EXCEPT !.status = "revoked"]
           copy == Put(f, i, entry)
<1>1. Whole("intents", f) /\ Declared(f) /\ "intents" \in Files
  BY LoadIs DEF Files
<1>2. /\ i \in DOMAIN f
      /\ Begin(p, "intents", copy) /\ UNCHANGED <<files, torn, now, ceiling>>
      /\ writes < MaxWrites /\ writes' = writes + 1
  BY DEF Revoke, Operation
<1> HIDE DEF f
<1>3. f[i] \in Intent /\ f[i].created <= Cardinality(IntentIds)
  BY <1>1, <1>2 DEF Whole, IntentFile
<1>4. /\ entry \in Intent /\ entry.created = f[i].created /\ entry.agent = f[i].agent
      /\ entry.terms = f[i].terms
  BY <1>3 DEF Intent
<1>5. /\ DOMAIN copy = DOMAIN f
      /\ copy[i] = entry
      /\ \A m \in DOMAIN f : m # i => copy[m] = f[m]
  BY <1>2 DEF Put
<1> HIDE DEF entry, copy
<1>6. Whole("intents", copy)
  BY <1>1, <1>3, <1>4, <1>5 DEF Whole, IntentFile
<1>7. AgentsStay(f, copy)
  BY <1>4, <1>5 DEF AgentsStay
<1>8. writes' \in 0..MaxWrites
  BY <1>2, AuthorityAssumption DEF FilesInv, AuthorityAssumption
<1>9. ceiling' \in [IntentIds -> Limits]
      /\ \A j \in IntentIds : ceiling[j] # NotDeclared => ceiling'[j] = ceiling[j]
  BY <1>2 DEF FilesInv
<1>10. \A m \in DOMAIN copy : ceiling'[m] # NotDeclared /\ copy[m].terms.max = ceiling'[m]
  BY <1>1, <1>2, <1>4, <1>5 DEF Declared
<1>11. AgentsStay(Load("intents"), copy)
  BY <1>7 DEF f
<1> QED
  BY <1>1, <1>2, <1>6, <1>8, <1>9, <1>10, <1>11, BeginKeeps

\* What the operations on the queue have in common.
LEMMA QueueKeeps ==
    ASSUME FilesInv, NEW p \in Processes, NEW copy, Begin(p, "review", copy),
           UNCHANGED <<files, torn, now, ceiling>>, writes' \in 0..MaxWrites,
           ReviewFile(copy), PendingStay(Load("review"), copy)
    PROVE  FilesInv'
<1>1. "review" \in Files
  BY DEF Files
<1>2. Whole("review", copy)
  BY DEF Whole
<1>3. ceiling' \in [IntentIds -> Limits]
      /\ \A j \in IntentIds : ceiling[j] # NotDeclared => ceiling'[j] = ceiling[j]
  BY DEF FilesInv
<1>4. UNCHANGED <<files, torn, now>>
  OBVIOUS
<1> QED
  BY <1>1, <1>2, <1>3, <1>4, BeginKeeps

LEMMA PutInQueue ==
    ASSUME FilesInv, NEW r \in Requests, NEW item \in ReviewItem
    PROVE  /\ ReviewFile(Put(Load("review"), r, item))
           /\ PendingStay(Load("review"), Put(Load("review"), r, item))
<1>1. ReviewFile(Load("review"))
  BY LoadIs DEF Files, Whole
<1> DEFINE f == Load("review")
<1> HIDE DEF f
<1>2. /\ DOMAIN Put(f, r, item) = DOMAIN f \cup {r}
      /\ Put(f, r, item)[r] = item
      /\ \A m \in DOMAIN f : m # r => Put(f, r, item)[m] = f[m]
  BY DEF Put
<1>3. ReviewFile(f)
  BY <1>1 DEF f
<1>4. ReviewFile(Put(f, r, item)) /\ PendingStay(f, Put(f, r, item))
  BY <1>2, <1>3 DEF ReviewFile, PendingStay
<1> QED
  BY <1>4 DEF f

LEMMA ResolveKeeps ==
    ASSUME FilesInv, NEW p \in Processes, NEW r \in Requests, NEW answer \in Answers,
           Resolve(p, r, answer)
    PROVE  FilesInv'
<1>1. /\ Begin(p, "review", Put(Load("review"), r, answer))
      /\ UNCHANGED <<files, torn, now, ceiling>>
      /\ writes < MaxWrites /\ writes' = writes + 1
  BY DEF Resolve, Operation
<1>2. answer \in ReviewItem
  BY AuthorityAssumption DEF AuthorityAssumption
<1>3. writes' \in 0..MaxWrites
  BY <1>1, AuthorityAssumption DEF FilesInv, AuthorityAssumption
<1> QED
  BY <1>1, <1>2, <1>3, PutInQueue, QueueKeeps

LEMMA ClearResolvedKeeps ==
    ASSUME FilesInv, NEW p \in Processes, ClearResolved(p)
    PROVE  FilesInv'
<1> DEFINE f == Load("review")
           copy == Keep(f, Kept(f))
<1>1. /\ Begin(p, "review", copy)
      /\ UNCHANGED <<files, torn, now, ceiling>>
      /\ writes < MaxWrites /\ writes' = writes + 1
  BY DEF ClearResolved, Operation
<1>2. ReviewFile(f)
  BY LoadIs DEF Files, Whole
<1> HIDE DEF f
<1>3. /\ DOMAIN copy = {r \in DOMAIN f : f[r] = "pending"}
      /\ \A r \in DOMAIN copy : copy[r] = f[r]
  BY DEF Keep, Kept
<1> HIDE DEF copy
<1>4. ReviewFile(copy) /\ PendingStay(f, copy)
  BY <1>2, <1>3 DEF ReviewFile, PendingStay
<1>5. PendingStay(Load("review"), copy)
  BY <1>4 DEF f
<1>6. writes' \in 0..MaxWrites
  BY <1>1, AuthorityAssumption DEF FilesInv, AuthorityAssumption
<1> QED
  BY <1>1, <1>4, <1>5, <1>6, QueueKeeps

LEMMA EnqueueKeeps ==
    ASSUME FilesInv, NEW d \in Deciders, Enqueue(d), job[d].request \in Requests
    PROVE  FilesInv'
<1>1. /\ Begin(d, "review", Put(Load("review"), job[d].request, "pending"))
      /\ UNCHANGED <<files, torn, now, ceiling, writes>>
  BY DEF Enqueue
<1>2. d \in Processes /\ "pending" \in ReviewItem
  BY DEF Processes, ReviewItem
<1>3. writes' \in 0..MaxWrites
  BY <1>1 DEF FilesInv
<1>4. /\ ReviewFile(Put(Load("review"), job[d].request, "pending"))
      /\ PendingStay(Load("review"), Put(Load("review"), job[d].request, "pending"))
  BY <1>2, PutInQueue
<1> QED
  BY <1>1, <1>2, <1>3, <1>4, QueueKeeps

\* What a writer holds is as sound in another state in which as much is declared.
LEMMA SoundStays ==
    ASSUME NEW x \in Files, NEW seen, NEW copy, Sound(x, seen, copy),
           ceiling' = ceiling
    PROVE  Sound(x, seen, copy)'
  BY DEF Sound, Declared

LEMMA TruncateKeeps ==
    ASSUME FilesInv, NEW p \in Processes, Truncate(p)
    PROVE  FilesInv'
<1>1. /\ writer[p].at = "loaded"
      /\ torn' = [torn EXCEPT ![writer[p].file] = TRUE]
      /\ writer' = [writer EXCEPT ![p].at = "open"]
      /\ UNCHANGED <<files, now, ceiling, writes>>
  BY DEF Truncate
<1>2. torn' \in [Files -> BOOLEAN]
  BY <1>1 DEF FilesInv
<1> DEFINE w == [writer[p] EXCEPT !.at = "open"]
<1>3. writer[p] \in WriterType(writer[p])
  BY DEF FilesInv
<1>4. w \in WriterType(writer[p])
  BY <1>3 DEF WriterType
<1>5. w.file = writer[p].file /\ w.seen = writer[p].seen /\ w.copy = writer[p].copy
  BY <1>3 DEF WriterType
<1>6. writer' = [writer EXCEPT ![p] = w]
  BY <1>1
<1> HIDE DEF w
<1>7. /\ \A q \in Processes : writer'[q] = IF q = p THEN w ELSE writer[q]
      /\ writer' = [q \in Processes |-> writer'[q]]
  BY <1>6 DEF FilesInv
<1>8. \A q \in Processes : writer'[q] \in WriterType(writer'[q])
  BY <1>4, <1>5, <1>7 DEF FilesInv, WriterType
<1>9. ASSUME NEW q \in Processes, Busy(q)'
      PROVE  /\ (writer[q].file)' \in Files
             /\ Sound(writer[q].file, writer[q].seen, writer[q].copy)'
  <2>1. Busy(q)
    BY <1>1, <1>7, <1>9 DEF Busy
  <2>2. /\ writer'[q].file = writer[q].file /\ writer'[q].seen = writer[q].seen
        /\ writer'[q].copy = writer[q].copy
    BY <1>5, <1>7
  <2>3. writer[q].file \in Files /\ Sound(writer[q].file, writer[q].seen, writer[q].copy)
    BY <2>1 DEF FilesInv
  <2> QED
    BY <1>1, <2>2, <2>3 DEF Sound, Declared
<1>10. Declared(files["intents"])'
  BY <1>1 DEF FilesInv, Declared
<1>11. \A x \in Files : Whole(x, files'[x])
  BY <1>1 DEF FilesInv
<1> QED
  BY <1>1, <1>2, <1>7, <1>8, <1>9, <1>10, <1>11 DEF FilesInv

\* A writer is done, or has crashed.
LEMMA IdleWriter ==
    ASSUME FilesInv, NEW p \in Processes, writer' = [writer EXCEPT ![p] = NotWriting],
           ceiling' = ceiling
    PROVE  /\ writer' = [q \in Processes |-> writer'[q]]
           /\ \A q \in Processes : writer'[q] \in WriterType(writer'[q])
           /\ \A q \in Processes :
                 Busy(q)' => /\ (writer[q].file)' \in Files
                             /\ Sound(writer[q].file, writer[q].seen, writer[q].copy)'
<1>1. \A q \in Processes : writer'[q] = IF q = p THEN NotWriting ELSE writer[q]
  BY DEF FilesInv
<1>2. NotWriting \in WriterType(NotWriting) /\ NotWriting.at = "none"
  BY DEF NotWriting, WriterType
<1>3. \A q \in Processes : writer'[q] \in WriterType(writer'[q])
  BY <1>1, <1>2 DEF FilesInv
<1>4. ASSUME NEW q \in Processes, Busy(q)'
      PROVE  /\ (writer[q].file)' \in Files
             /\ Sound(writer[q].file, writer[q].seen, writer[q].copy)'
  <2>1. writer'[q] = writer[q] /\ Busy(q)
    BY <1>1, <1>2, <1>4 DEF Busy
  <2>2. writer[q].file \in Files /\ Sound(writer[q].file, writer[q].seen, writer[q].copy)
    BY <2>1 DEF FilesInv
  <2> QED
    BY <2>1, <2>2 DEF Sound, Declared
<1>5. writer' = [q \in Processes |-> writer'[q]]
  BY DEF FilesInv
<1> QED
  BY <1>3, <1>4, <1>5

LEMMA CrashKeeps ==
    ASSUME FilesInv, NEW p \in Processes, writer' = [writer EXCEPT ![p] = NotWriting],
           UNCHANGED <<files, torn, now, ceiling, writes>>
    PROVE  FilesInv'
<1>1. Declared(files["intents"])'
  BY DEF FilesInv, Declared
<1>2. \A x \in Files : Whole(x, files'[x])
  BY DEF FilesInv
<1> QED
  BY <1>1, <1>2, IdleWriter DEF FilesInv

LEMMA WriteKeeps ==
    ASSUME FilesInv, NEW p \in Processes, Write(p)
    PROVE  FilesInv'
<1> DEFINE x == writer[p].file
           copy == writer[p].copy
<1>1. /\ Busy(p)
      /\ writer' = [writer EXCEPT ![p] = NotWriting]
      /\ UNCHANGED <<now, ceiling, writes>>
  BY DEF Write, Busy
<1>2. x \in Files /\ Whole(x, copy) /\ (x = "intents" => Declared(copy))
  BY <1>1 DEF FilesInv, Sound
<1>3. \/ files' = [files EXCEPT ![x] = copy] /\ torn' = [torn EXCEPT ![x] = FALSE]
      \/ files' = files /\ torn' = [torn EXCEPT ![x] = TRUE]
  BY DEF Write
<1> HIDE DEF x, copy
<1>4. files' = [y \in Files |-> files'[y]] /\ torn' \in [Files -> BOOLEAN]
  BY <1>2, <1>3 DEF FilesInv
<1>5. \A y \in Files : files'[y] = files[y] \/ (y = x /\ files'[y] = copy)
  BY <1>2, <1>3 DEF FilesInv
<1>6. \A y \in Files : Whole(y, files'[y])
  BY <1>2, <1>5 DEF FilesInv
<1>7. Declared(files["intents"])'
  BY <1>1, <1>2, <1>5 DEF FilesInv, Declared, Files
<1> QED
  BY <1>1, <1>4, <1>6, <1>7, IdleWriter DEF FilesInv

LEMMA UndisturbedKeeps ==
    ASSUME FilesInv, UNCHANGED <<files, torn, writer, ceiling, writes>>, now' \in 0..LastMoment
    PROVE  FilesInv'
  BY DEF FilesInv, Declared, Busy, Sound

-----------------------------------------------------------------------------
(***************************************************************************)
(* The verdicts of the two look-ups.                                       *)
(***************************************************************************)
LEMMA NarrowerIs ==
    ASSUME NEW a \in Verdicts, NEW b \in Verdicts
    PROVE  /\ Narrower(a, b) \in Verdicts
           /\ Narrower(a, b) = "APPROVE" => a = "APPROVE" /\ b = "APPROVE"
BY DEF Narrower, Severity, Verdicts

LEMMA StrictestIs ==
    ASSUME NEW S \in SUBSET Verdicts, "APPROVE" \in S
    PROVE  /\ Strictest(S) \in Verdicts
           /\ Strictest(S) = "APPROVE" => S = {"APPROVE"}
<1>1. \E v \in S : \A w \in S : Severity[w] <= Severity[v]
  <2>1. CASE "REJECT" \in S
    BY <2>1 DEF Severity, Verdicts
  <2>2. CASE "REJECT" \notin S /\ "ESCALATE" \in S
    BY <2>2 DEF Severity, Verdicts
  <2>3. CASE "REJECT" \notin S /\ "ESCALATE" \notin S /\ "REVIEW" \in S
    BY <2>3 DEF Severity, Verdicts
  <2>4. CASE "REJECT" \notin S /\ "ESCALATE" \notin S /\ "REVIEW" \notin S
    BY <2>4 DEF Severity, Verdicts
  <2> QED
    BY <2>1, <2>2, <2>3, <2>4
<1>2. Strictest(S) \in S /\ \A w \in S : Severity[w] <= Severity[Strictest(S)]
  BY <1>1 DEF Strictest
<1>3. ASSUME Strictest(S) = "APPROVE", NEW w \in S
      PROVE  w = "APPROVE"
  <2>1. Severity[w] <= Severity["APPROVE"] /\ w \in Verdicts
    BY <1>2, <1>3
  <2> QED
    BY <2>1 DEF Severity, Verdicts
<1> QED
  BY <1>2, <1>3

LEMMA IntentVerdictType ==
    ASSUME NEW i, NEW k, NEW a, NEW moment
    PROVE  IntentVerdict(i, k, a, moment) \in Verdicts
<1> DEFINE S == {"APPROVE"}
        \cup {v \in {"REJECT"} : \/ i.status = "revoked" \/ Expired(i, moment)
                                 \/ i.terms.asset # AssetOf(k)
                                 \/ ~Within(a, i.terms.perAction)}
        \cup {v \in {"REVIEW"} : ~Covers(i.terms, k)}
<1>1. IntentVerdict(i, k, a, moment) = Strictest(S)
  BY DEF IntentVerdict
<1>2. S \in SUBSET Verdicts /\ "APPROVE" \in S
  BY DEF Verdicts
<1> HIDE DEF S
<1> QED
  BY <1>1, <1>2, StrictestIs

\* What an agent that may pay has been found to be.
LEMMA IdentityVerdictIs ==
    ASSUME NEW own, NEW parent, NEW k, NEW a, NEW today
    PROVE  /\ IdentityVerdict(own, parent, k, a, today) \in Verdicts
           /\ (own # Unregistered /\ IdentityVerdict(own, parent, k, a, today) = "APPROVE") =>
                 /\ own.status # "revoked" /\ own.status # "suspended"
                 /\ own.terms.parent # None =>
                       parent # Unregistered /\ parent.status = "active"
<1>1. CASE own = Unregistered
  BY <1>1 DEF IdentityVerdict, Verdicts
<1>2. CASE own # Unregistered
  <2> DEFINE S == {"APPROVE"}
        \cup {v \in {"REJECT"} : IdentityRejects(own, parent, k, a, today)}
        \cup {v \in {"ESCALATE"} : own.status = "suspended"}
        \cup {v \in {"REVIEW"} : own.terms.parent # None /\ parent = Unregistered}
  <2>1. IdentityVerdict(own, parent, k, a, today) = Strictest(S)
    BY <1>2 DEF IdentityVerdict
  <2>2. S \in SUBSET Verdicts /\ "APPROVE" \in S
    BY DEF Verdicts
  <2>3. S = {"APPROVE"} => /\ ~IdentityRejects(own, parent, k, a, today)
                           /\ own.status # "suspended"
                           /\ ~(own.terms.parent # None /\ parent = Unregistered)
    <3>1. IdentityRejects(own, parent, k, a, today) => "REJECT" \in S
      OBVIOUS
    <3>2. own.status = "suspended" => "ESCALATE" \in S
      OBVIOUS
    <3>3. own.terms.parent # None /\ parent = Unregistered => "REVIEW" \in S
      OBVIOUS
    <3> HIDE DEF S
    <3> QED
      BY <3>1, <3>2, <3>3
  <2> HIDE DEF S
  <2>4. /\ Strictest(S) \in Verdicts
        /\ Strictest(S) = "APPROVE" => S = {"APPROVE"}
    BY <2>2, StrictestIs
  <2>5. ~IdentityRejects(own, parent, k, a, today) =>
            /\ own.status # "revoked"
            /\ own.terms.parent # None /\ parent # Unregistered => parent.status = "active"
    BY DEF IdentityRejects, Inactive
  <2> QED
    BY <2>1, <2>3, <2>4, <2>5
<1> QED
  BY <1>1, <1>2

-----------------------------------------------------------------------------
(***************************************************************************)
(* The deciders and the table.                                             *)
(***************************************************************************)
\* A request that is carried, and a row, have the fields of one.
JobShape(j) ==
    [request : Requests \cup {None}, call : {j.call}, amount : Nat, kind : {j.kind},
     named : {j.named}, today : {j.today}, moment : {j.moment}, intent : {j.intent},
     charged : {j.charged}, max : {j.max}, verdict : Verdicts, own : {j.own},
     stopped : {j.stopped}, hadIntent : BOOLEAN, sawTorn : BOOLEAN]

RowShape(w) ==
    [agent : {w.agent}, channel : {w.channel}, intent : {w.intent}, under : {w.under},
     named : {w.named}, amount : Nat, paid : Nat \cup {NotReported}, verdict : Verdicts \cup {None}, settled : {w.settled},
     success : {w.success}, stopped : {w.stopped}, hadIntent : BOOLEAN, sawTorn : BOOLEAN]

JobsTyped ==
    /\ pc \in [Deciders -> Places]
    /\ job = [d \in Deciders |-> job[d]]
    /\ rows = [r \in Requests |-> rows[r]]
    /\ \A d \in Deciders : job[d] \in JobShape(job[d])
    /\ \A r \in Requests : rows[r] \in RowShape(rows[r])
    /\ \A d \in Deciders : pc[d] = "idle" <=> job[d].request = None

\* A step of a look-up: the decider keeps its request and what it knew when it was asked, no
\* verdict gets milder and no intent that was found is forgotten.
Onward(d, place) ==
    /\ pc[d] # "idle" /\ place \in Places \ {"idle"}
    /\ pc' = [pc EXCEPT ![d] = place]
    /\ job' = [job EXCEPT ![d] = job'[d]]
    /\ job'[d] \in JobShape(job'[d])
    /\ job'[d].request = job[d].request
    /\ job'[d].named = job[d].named
    /\ job'[d].stopped = job[d].stopped
    /\ job'[d].hadIntent = job[d].hadIntent
    /\ job[d].sawTorn => job'[d].sawTorn
    /\ job'[d].verdict = "APPROVE" => job[d].verdict = "APPROVE"
    /\ job'[d].intent = None => job[d].intent = None
    /\ Reading(d)

LEMMA FindIntentOnward ==
    ASSUME JobsTyped, FilesInv, NEW d \in Deciders, FindIntent(d)
    PROVE  /\ pc[d] = "asked" /\ Onward(d, pc'[d]) /\ pc'[d] \in {"lapsed", "looked"}
           /\ pc'[d] = "looked" /\ job[d].named = None => job'[d].intent # None
<1> DEFINE f == Load("intents")
           i == IF job[d].named = None THEN ActiveFor(f, AgentOf[d], now)
                ELSE IF job[d].named \in DOMAIN f THEN job[d].named ELSE None
           v == IntentVerdict(f[i], job[d].kind, job[d].amount, now)
           blind == job[d].sawTorn \/ torn["intents"]
           found == IF i = None THEN [job[d] EXCEPT !.sawTorn = blind, !.moment = now]
                    ELSE [job[d] EXCEPT !.intent = i, !.max = f[i].terms.max,
                                        !.verdict = Narrower(@, v), !.moment = now]
           place == IF i = None /\ job[d].named = None THEN "lapsed" ELSE "looked"
<1>1. /\ pc[d] = "asked" /\ Reading(d)
      /\ pc' = [pc EXCEPT ![d] = place]
      /\ job' = [job EXCEPT ![d] = found]
  BY DEF FindIntent, FoundIntent, Go
<1>2. job[d] \in JobShape(job[d]) /\ v \in Verdicts /\ blind \in BOOLEAN
  BY IntentVerdictType DEF JobsTyped
<1>3. job[d].sawTorn => blind
  OBVIOUS
<1> HIDE DEF i, v, blind
<1>4. /\ found \in JobShape(found)
      /\ found.request = job[d].request /\ found.named = job[d].named
      /\ found.stopped = job[d].stopped /\ found.hadIntent = job[d].hadIntent
      /\ found.sawTorn = job[d].sawTorn \/ found.sawTorn = blind
      /\ found.verdict = job[d].verdict \/ found.verdict = Narrower(job[d].verdict, v)
      /\ IF i = None THEN found.intent = job[d].intent ELSE found.intent = i
  <2>1. job[d].verdict \in Verdicts
    BY <1>2 DEF JobShape
  <2>2. Narrower(job[d].verdict, v) \in Verdicts
    BY <1>2, <2>1, NarrowerIs
  <2> QED
    BY <1>2, <2>2 DEF JobShape
<1>5. job'[d] = found /\ pc'[d] = place
  BY <1>1 DEF JobsTyped
<1>6. place \in Places \ {"idle"} /\ place \in {"lapsed", "looked"} /\ pc[d] # "idle"
  BY <1>1 DEF Places
<1>7. place = "looked" /\ job[d].named = None => i # None
  OBVIOUS
<1> HIDE DEF found, place
<1>8. found.verdict = "APPROVE" => job[d].verdict = "APPROVE"
  <2>1. job[d].verdict \in Verdicts
    BY <1>2 DEF JobShape
  <2> QED
    BY <1>2, <1>4, <2>1, NarrowerIs
<1> QED
  BY <1>1, <1>3, <1>4, <1>5, <1>6, <1>7, <1>8 DEF Onward

LEMMA FindLapsedOnward ==
    ASSUME JobsTyped, FilesInv, NEW d \in Deciders, FindLapsed(d)
    PROVE  /\ pc[d] = "lapsed" /\ Onward(d, "looked")
           /\ LET i == LatestFor(Load("intents"), AgentOf[d])
              IN  IF i = None THEN torn["intents"] => job'[d].sawTorn
                              ELSE job'[d].intent = i
<1> DEFINE f == Load("intents")
           i == LatestFor(f, AgentOf[d])
           v == IntentVerdict(f[i], job[d].kind, job[d].amount, job[d].moment)
           blind == job[d].sawTorn \/ torn["intents"]
           found == IF i = None THEN [job[d] EXCEPT !.sawTorn = blind]
                    ELSE [job[d] EXCEPT !.intent = i, !.max = f[i].terms.max,
                                        !.verdict = Narrower(@, v)]
<1>1. /\ pc[d] = "lapsed" /\ Reading(d)
      /\ pc' = [pc EXCEPT ![d] = "looked"]
      /\ job' = [job EXCEPT ![d] = found]
  BY DEF FindLapsed, FoundIntent, Go
<1>2. job[d] \in JobShape(job[d]) /\ v \in Verdicts /\ blind \in BOOLEAN
  BY IntentVerdictType DEF JobsTyped
<1>3. (job[d].sawTorn => blind) /\ (torn["intents"] => blind)
  OBVIOUS
<1> HIDE DEF i, v, blind
<1>4. /\ found \in JobShape(found)
      /\ found.request = job[d].request /\ found.named = job[d].named
      /\ found.stopped = job[d].stopped /\ found.hadIntent = job[d].hadIntent
      /\ IF i = None THEN found.sawTorn = blind ELSE found.sawTorn = job[d].sawTorn
      /\ found.verdict = job[d].verdict \/ found.verdict = Narrower(job[d].verdict, v)
      /\ IF i = None THEN found.intent = job[d].intent ELSE found.intent = i
  <2>1. job[d].verdict \in Verdicts
    BY <1>2 DEF JobShape
  <2>2. Narrower(job[d].verdict, v) \in Verdicts
    BY <1>2, <2>1, NarrowerIs
  <2> QED
    BY <1>2, <2>2 DEF JobShape
<1>5. job'[d] = found /\ pc'[d] = "looked"
  BY <1>1 DEF JobsTyped
<1>6. "looked" \in Places \ {"idle"} /\ pc[d] # "idle"
  BY <1>1 DEF Places
<1> HIDE DEF found
<1>7. found.verdict = "APPROVE" => job[d].verdict = "APPROVE"
  <2>1. job[d].verdict \in Verdicts
    BY <1>2 DEF JobShape
  <2> QED
    BY <1>2, <1>4, <2>1, NarrowerIs
<1>8. Onward(d, "looked")
  BY <1>1, <1>3, <1>4, <1>5, <1>6, <1>7 DEF Onward
<1>9. IF i = None THEN torn["intents"] => job'[d].sawTorn ELSE job'[d].intent = i
  BY <1>3, <1>4, <1>5
<1> QED
  BY <1>1, <1>8, <1>9 DEF i

LEMMA WeighIntentOnward ==
    ASSUME JobsTyped, NEW d \in Deciders, WeighIntent(d)
    PROVE  pc[d] = "looked" /\ Onward(d, "weighed")
<1> DEFINE j == [job[d] EXCEPT !.verdict = "REJECT"]
<1>1. /\ pc[d] = "looked" /\ Reading(d)
      /\ pc' = [pc EXCEPT ![d] = "weighed"]
      /\ job' = [job EXCEPT ![d] = j] \/ job' = job
  BY DEF WeighIntent, Go
<1>2. job[d] \in JobShape(job[d])
  BY DEF JobsTyped
<1>3. /\ j \in JobShape(j) /\ j.verdict = "REJECT"
      /\ j.request = job[d].request /\ j.named = job[d].named /\ j.intent = job[d].intent
      /\ j.stopped = job[d].stopped /\ j.hadIntent = job[d].hadIntent
      /\ j.sawTorn = job[d].sawTorn
  BY <1>2 DEF JobShape, Verdicts
<1>4. "weighed" \in Places \ {"idle"} /\ pc[d] # "idle"
  BY <1>1 DEF Places
<1> HIDE DEF j
<1>5. CASE job' = [job EXCEPT ![d] = j]
  <2>1. job'[d] = j
    BY <1>5 DEF JobsTyped
  <2> QED
    BY <1>1, <1>3, <1>4, <1>5, <2>1 DEF Onward
<1>6. CASE job' = job
  <2>1. job' = [job EXCEPT ![d] = job'[d]]
    BY <1>6 DEF JobsTyped
  <2> QED
    BY <1>1, <1>2, <1>4, <1>6, <2>1 DEF Onward
<1> QED
  BY <1>1, <1>5, <1>6

LEMMA LookAgainOnward ==
    ASSUME JobsTyped, NEW d \in Deciders, LookAgain(d) \/ LookForLapsedAgain(d)
    PROVE  /\ pc[d] \in {"decided", "again"} /\ Onward(d, pc'[d]) /\ pc'[d] \in {"again", "ready"}
           /\ job'[d].verdict = job[d].verdict /\ job'[d].intent = job[d].intent
<1>1. job[d] \in JobShape(job[d])
  BY DEF JobsTyped
<1>2. ASSUME NEW i, NEW place \in {"again", "ready"},
             pc' = [pc EXCEPT ![d] = place],
             job' = [job EXCEPT ![d] = [job[d] EXCEPT !.charged = i]],
             pc[d] \in {"decided", "again"}, Reading(d)
      PROVE  /\ Onward(d, pc'[d]) /\ pc'[d] \in {"again", "ready"}
             /\ job'[d].verdict = job[d].verdict /\ job'[d].intent = job[d].intent
  <2> DEFINE j == [job[d] EXCEPT !.charged = i]
  <2>1. /\ j \in JobShape(j) /\ j.verdict = job[d].verdict
        /\ j.request = job[d].request /\ j.named = job[d].named /\ j.intent = job[d].intent
        /\ j.stopped = job[d].stopped /\ j.hadIntent = job[d].hadIntent
        /\ j.sawTorn = job[d].sawTorn
    BY <1>1 DEF JobShape
  <2>2. job' = [job EXCEPT ![d] = j]
    BY <1>2
  <2>3. place \in Places \ {"idle"} /\ pc[d] # "idle"
    BY <1>2 DEF Places
  <2> HIDE DEF j
  <2>4. job'[d] = j /\ pc'[d] = place
    BY <1>2, <2>2 DEF JobsTyped
  <2> QED
    BY <1>2, <2>1, <2>2, <2>3, <2>4 DEF Onward
<1>3. CASE LookAgain(d)
  <2> DEFINE f == Load("intents")
             i == IF job[d].named # None
                  THEN IF job[d].named \in DOMAIN f THEN job[d].named ELSE None
                  ELSE ActiveFor(f, AgentOf[d], job[d].moment)
             place == IF i = None /\ job[d].named = None THEN "again" ELSE "ready"
  <2>1. /\ pc[d] \in {"decided", "again"} /\ Reading(d)
        /\ pc' = [pc EXCEPT ![d] = place]
        /\ job' = [job EXCEPT ![d] = [job[d] EXCEPT !.charged = i]]
    BY <1>3 DEF LookAgain, Go
  <2>2. place \in {"again", "ready"}
    OBVIOUS
  <2> HIDE DEF i, place
  <2> QED
    BY <1>2, <2>1, <2>2
<1>4. CASE LookForLapsedAgain(d)
  <2> DEFINE i == LatestFor(Load("intents"), AgentOf[d])
  <2>1. /\ pc[d] \in {"decided", "again"} /\ Reading(d)
        /\ pc' = [pc EXCEPT ![d] = "ready"]
        /\ job' = [job EXCEPT ![d] = [job[d] EXCEPT !.charged = i]]
    BY <1>4 DEF LookForLapsedAgain, Go
  <2> HIDE DEF i
  <2> QED
    BY <1>2, <2>1
<1>5. pc[d] \in {"decided", "again"}
  BY DEF LookAgain, LookForLapsedAgain
<1> QED
  BY <1>3, <1>4, <1>5

\* The agent is looked up; if it acts for nobody, that decides.
LEMMA FindIdentityOnward ==
    ASSUME JobsTyped, NEW d \in Deciders, FindIdentity(d)
    PROVE  LET own == IdentityOf(Load("identities"), AgentOf[d])
           IN  /\ pc[d] = "weighed" /\ job'[d].intent = job[d].intent
               /\ own = Unregistered /\ torn["identities"] => job'[d].sawTorn
               /\ \/ /\ own.terms.parent # None /\ Onward(d, "delegated") /\ job'[d].own = own
                  \/ /\ own.terms.parent = None /\ Onward(d, "decided")
                     /\ job'[d].verdict = "APPROVE" /\ own # Unregistered =>
                            own.status # "revoked" /\ own.status # "suspended"
<1> DEFINE own == IdentityOf(Load("identities"), AgentOf[d])
           blind == job[d].sawTorn \/ (own = Unregistered /\ torn["identities"])
           j == [job[d] EXCEPT !.own = own, !.sawTorn = blind]
           v == IdentityVerdict(own, Unregistered, j.kind, j.amount, j.today)
           w == Narrower(job[d].verdict, v)
           k == [job[d] EXCEPT !.own = Unregistered, !.sawTorn = blind, !.moment = now, !.verdict = w]
<1>1. job[d] \in JobShape(job[d]) /\ blind \in BOOLEAN
  BY DEF JobsTyped
<1>2. [j EXCEPT !.own = Unregistered, !.moment = now, !.verdict = Narrower(@, v)] = k
  BY <1>1 DEF JobShape
<1>3. /\ pc[d] = "weighed" /\ Reading(d)
      /\ \/ /\ own.terms.parent # None
            /\ job' = [job EXCEPT ![d] = j]
            /\ pc' = [pc EXCEPT ![d] = "delegated"]
         \/ /\ own.terms.parent = None
            /\ job' = [job EXCEPT ![d] = k]
            /\ pc' = [pc EXCEPT ![d] = "decided"]
  BY <1>2 DEF FindIdentity, Go
<1>4. /\ v \in Verdicts
      /\ own # Unregistered /\ v = "APPROVE" => own.status # "revoked" /\ own.status # "suspended"
  BY IdentityVerdictIs
<1>5. (job[d].sawTorn => blind) /\ (own = Unregistered /\ torn["identities"] => blind)
  OBVIOUS
<1> HIDE DEF own, blind, v
<1>6. w \in Verdicts /\ (w = "APPROVE" => job[d].verdict = "APPROVE" /\ v = "APPROVE")
  <2>1. job[d].verdict \in Verdicts
    BY <1>1 DEF JobShape
  <2> QED
    BY <1>4, <2>1, NarrowerIs
<1> HIDE DEF w
<1>7. /\ j \in JobShape(j) /\ j.verdict = job[d].verdict /\ j.own = own
      /\ j.request = job[d].request /\ j.named = job[d].named /\ j.intent = job[d].intent
      /\ j.stopped = job[d].stopped /\ j.hadIntent = job[d].hadIntent
      /\ j.sawTorn = blind
  BY <1>1 DEF JobShape
<1>8. /\ k \in JobShape(k) /\ k.verdict = w
      /\ k.request = job[d].request /\ k.named = job[d].named /\ k.intent = job[d].intent
      /\ k.stopped = job[d].stopped /\ k.hadIntent = job[d].hadIntent
      /\ k.sawTorn = blind
  BY <1>1, <1>6 DEF JobShape
<1> HIDE DEF j, k
<1>9. {"delegated", "decided"} \subseteq Places \ {"idle"}
  BY DEF Places
<1>10. CASE /\ own.terms.parent # None
            /\ job' = [job EXCEPT ![d] = j]
            /\ pc' = [pc EXCEPT ![d] = "delegated"]
  <2>1. job'[d] = j
    BY <1>10 DEF JobsTyped
  <2>2. Onward(d, "delegated")
    BY <1>3, <1>5, <1>7, <1>9, <1>10, <2>1 DEF Onward
  <2> QED
    BY <1>3, <1>5, <1>7, <1>10, <2>1, <2>2 DEF own
<1>11. CASE /\ own.terms.parent = None
            /\ job' = [job EXCEPT ![d] = k]
            /\ pc' = [pc EXCEPT ![d] = "decided"]
  <2>1. job'[d] = k
    BY <1>11 DEF JobsTyped
  <2>2. Onward(d, "decided")
    BY <1>3, <1>5, <1>6, <1>8, <1>9, <1>11, <2>1 DEF Onward
  <2> QED
    BY <1>3, <1>4, <1>5, <1>6, <1>8, <1>11, <2>1, <2>2 DEF own
<1> QED
  BY <1>3, <1>10, <1>11

LEMMA FindParentOnward ==
    ASSUME JobsTyped, NEW d \in Deciders, FindParent(d)
    PROVE  LET parent == IdentityOf(Load("identities"), job[d].own.terms.parent)
               own == job[d].own
           IN  /\ pc[d] = "delegated" /\ job'[d].intent = job[d].intent /\ Onward(d, "decided")
               /\ job'[d].verdict = "APPROVE" /\ own # Unregistered =>
                      /\ own.status # "revoked" /\ own.status # "suspended"
                      /\ own.terms.parent # None =>
                            parent # Unregistered /\ parent.status = "active"
<1> DEFINE parent == IdentityOf(Load("identities"), job[d].own.terms.parent)
           v == IdentityVerdict(job[d].own, parent, job[d].kind, job[d].amount, job[d].today)
           w == Narrower(job[d].verdict, v)
           k == [job[d] EXCEPT !.own = Unregistered, !.moment = now, !.verdict = w]
<1>1. job[d] \in JobShape(job[d])
  BY DEF JobsTyped
<1>2. /\ pc[d] = "delegated" /\ Reading(d)
      /\ job' = [job EXCEPT ![d] = k]
      /\ pc' = [pc EXCEPT ![d] = "decided"]
  BY DEF FindParent, Go
<1>3. /\ v \in Verdicts
      /\ job[d].own # Unregistered /\ v = "APPROVE" =>
             /\ job[d].own.status # "revoked" /\ job[d].own.status # "suspended"
             /\ job[d].own.terms.parent # None =>
                   parent # Unregistered /\ parent.status = "active"
  BY IdentityVerdictIs
<1> HIDE DEF parent, v
<1>4. w \in Verdicts /\ (w = "APPROVE" => job[d].verdict = "APPROVE" /\ v = "APPROVE")
  <2>1. job[d].verdict \in Verdicts
    BY <1>1 DEF JobShape
  <2> QED
    BY <1>3, <2>1, NarrowerIs
<1> HIDE DEF w
<1>5. /\ k \in JobShape(k) /\ k.verdict = w
      /\ k.request = job[d].request /\ k.named = job[d].named /\ k.intent = job[d].intent
      /\ k.stopped = job[d].stopped /\ k.hadIntent = job[d].hadIntent
      /\ k.sawTorn = job[d].sawTorn
  BY <1>1, <1>4 DEF JobShape
<1> HIDE DEF k
<1>6. "decided" \in Places \ {"idle"} /\ pc[d] # "idle"
  BY <1>2 DEF Places
<1>7. job'[d] = k
  BY <1>2 DEF JobsTyped
<1>8. Onward(d, "decided")
  BY <1>2, <1>4, <1>5, <1>6, <1>7 DEF Onward
<1> QED
  BY <1>2, <1>3, <1>4, <1>5, <1>7, <1>8 DEF parent

\* Of a step of one decider the others' requests and places take nothing.
LEMMA OneStep ==
    ASSUME JobsTyped, NEW d \in Deciders, NEW place \in Places, NEW j, j \in JobShape(j),
           pc' = [pc EXCEPT ![d] = place], job' = [job EXCEPT ![d] = j],
           place = "idle" <=> j.request = None,
           rows' = [r \in Requests |-> rows'[r]],
           \A r \in Requests : rows'[r] \in RowShape(rows'[r])
    PROVE  JobsTyped'
<1>1. pc' \in [Deciders -> Places] /\ job' = [e \in Deciders |-> job'[e]]
  BY DEF JobsTyped
<1>2. \A e \in Deciders : /\ job'[e] = IF e = d THEN j ELSE job[e]
                          /\ pc'[e] = IF e = d THEN place ELSE pc[e]
  BY DEF JobsTyped
<1>3. \A e \in Deciders : job'[e] \in JobShape(job'[e])
  BY <1>2 DEF JobsTyped
<1>4. \A e \in Deciders : pc'[e] = "idle" <=> job'[e].request = None
  BY <1>2 DEF JobsTyped
<1> QED
  BY <1>1, <1>3, <1>4 DEF JobsTyped

LEMMA OnwardTyped ==
    ASSUME JobsTyped, NEW d \in Deciders, NEW place, Onward(d, place)
    PROVE  JobsTyped'
<1>1. /\ pc[d] # "idle" /\ place \in Places \ {"idle"}
      /\ pc' = [pc EXCEPT ![d] = place]
      /\ job' = [job EXCEPT ![d] = job'[d]]
      /\ job'[d] \in JobShape(job'[d])
      /\ job'[d].request = job[d].request /\ rows' = rows
  BY DEF Onward, Reading
<1>2. place = "idle" <=> job'[d].request = None
  BY <1>1 DEF JobsTyped
<1>3. rows' = [r \in Requests |-> rows'[r]] /\ \A r \in Requests : rows'[r] \in RowShape(rows'[r])
  BY <1>1 DEF JobsTyped
<1> QED
  BY <1>1, <1>2, <1>3, OneStep

LEMMA NoJobIs ==
    /\ NoJob \in JobShape(NoJob)
    /\ NoJob.request = None /\ NoJob.stopped = {} /\ ~NoJob.hadIntent /\ ~NoJob.sawTorn
    /\ NoJob.intent = None
  BY DEF NoJob, JobShape, Verdicts

LEMMA LeaveTyped ==
    ASSUME JobsTyped, NEW d \in Deciders, Leave(d),
           rows' = [r \in Requests |-> rows'[r]],
           \A r \in Requests : rows'[r] \in RowShape(rows'[r])
    PROVE  JobsTyped'
<1>1. pc' = [pc EXCEPT ![d] = "idle"] /\ job' = [job EXCEPT ![d] = NoJob]
  BY DEF Leave, Go
<1>2. "idle" \in Places
  BY DEF Places
<1> QED
  BY <1>1, <1>2, NoJobIs, OneStep

\* What a request is asked with.
LEMMA AskIs ==
    ASSUME JobsTyped, FilesInv, NEW d \in Deciders, Ask(d)
    PROVE  /\ pc[d] = "idle" /\ pc' = [pc EXCEPT ![d] = "asked"] /\ Reading(d)
           /\ job' = [job EXCEPT ![d] = job'[d]]
           /\ job'[d] \in JobShape(job'[d])
           /\ job'[d].request \in Requests
           /\ \A e \in Deciders : job'[d].request # job[e].request
           /\ rows[job'[d].request] = NoRow
           /\ job'[d].stopped = Stopped(files["identities"], AgentOf[d])
           /\ job'[d].hadIntent => \E e \in DOMAIN files["intents"] :
                                       files["intents"][e].agent = AgentOf[d]
<1> DEFINE stopped == Stopped(files["identities"], AgentOf[d])
           had == \E e \in DOMAIN files["intents"] : files["intents"][e].agent = AgentOf[d]
<1>1. PICK r \in Askable, a \in Amounts, k \in Kinds, i \in Names, call \in Calls,
           rule \in PolicyVerdicts :
        job' = [job EXCEPT ![d] = [NoJob EXCEPT
                   !.request = r, !.call = call, !.amount = a, !.kind = k, !.named = i, !.verdict = rule,
                   !.today = SpentToday(AgentOf[d], k.channel),
                   !.stopped = stopped, !.hadIntent = had]]
  BY DEF Ask
<1> DEFINE today == SpentToday(AgentOf[d], k.channel)
           j == [NoJob EXCEPT
                   !.request = r, !.call = call, !.amount = a, !.kind = k, !.named = i, !.verdict = rule,
                   !.today = today, !.stopped = stopped, !.hadIntent = had]
<1>2. r \in Requests /\ \A e \in Deciders : r # job[e].request
  BY DEF Askable
<1>3. rows[r] = NoRow
  BY DEF Askable
<1>4. a \in Nat /\ rule \in Verdicts /\ had \in BOOLEAN
  BY AuthorityAssumption DEF AuthorityAssumption
<1> HIDE DEF stopped, had, today
<1>5. /\ j \in JobShape(j) /\ j.request = r /\ j.stopped = stopped /\ j.hadIntent = had
  BY <1>2, <1>4 DEF JobShape, NoJob
<1>6. job' = [job EXCEPT ![d] = j]
  BY <1>1 DEF today
<1> HIDE DEF j
<1>7. job'[d] = j
  BY <1>6 DEF JobsTyped
<1>8. pc[d] = "idle" /\ pc' = [pc EXCEPT ![d] = "asked"] /\ Reading(d)
  BY DEF Ask, Go
<1> QED
  BY <1>2, <1>3, <1>5, <1>6, <1>7, <1>8 DEF stopped, had

LEMMA AskTyped ==
    ASSUME JobsTyped, FilesInv, NEW d \in Deciders, Ask(d)
    PROVE  JobsTyped'
<1>1. /\ pc' = [pc EXCEPT ![d] = "asked"] /\ job' = [job EXCEPT ![d] = job'[d]]
      /\ job'[d] \in JobShape(job'[d]) /\ job'[d].request \in Requests /\ rows' = rows
  BY AskIs DEF Reading
<1>2. "asked" \in Places /\ job'[d].request # None
  BY <1>1, AuthorityAssumption DEF Places, AuthorityAssumption
<1>3. rows' = [r \in Requests |-> rows'[r]] /\ \A r \in Requests : rows'[r] \in RowShape(rows'[r])
  BY <1>1 DEF JobsTyped
<1> QED
  BY <1>1, <1>2, <1>3, OneStep

\* What a decision leaves in the table, and where its decider goes.
LEMMA RecordIs ==
    ASSUME JobsTyped, NEW d \in Deciders, Record(d)
    PROVE  /\ pc[d] \in {"ready", "decided"} /\ job[d].request \in Requests
           /\ rows' = [rows EXCEPT ![job[d].request] = rows'[job[d].request]]
           /\ rows'[job[d].request] \in RowShape(rows'[job[d].request])
           /\ rows'[job[d].request].verdict = job[d].verdict
           /\ rows'[job[d].request].stopped = job[d].stopped
           /\ rows'[job[d].request].hadIntent = job[d].hadIntent
           /\ rows'[job[d].request].sawTorn = job[d].sawTorn
           /\ rows'[job[d].request].named = job[d].named
           /\ rows'[job[d].request].under = job[d].intent
           /\ \/ job[d].verdict = "APPROVE" /\ pc' = [pc EXCEPT ![d] = "approved"] /\ job' = job
              \/ NeedsHuman(job[d].verdict) /\ pc' = [pc EXCEPT ![d] = "queueing"] /\ job' = job
              \/ job[d].verdict = "REJECT" /\ Leave(d)
           /\ UNCHANGED <<files, torn, writer, now, ceiling, lost, answered, gone, writes>>
<1> DEFINE r == job[d].request
           charged == IF job[d].call = "advise" THEN job[d].charged ELSE job[d].intent
           row == [NoRow EXCEPT
                     !.agent = AgentOf[d], !.channel = job[d].kind.channel, !.amount = job[d].amount,
                     !.verdict = job[d].verdict, !.under = job[d].intent, !.named = job[d].named,
                     !.intent = charged, !.stopped = job[d].stopped,
                     !.hadIntent = job[d].hadIntent, !.sawTorn = job[d].sawTorn]
<1>1. /\ pc[d] \in {"ready", "decided"}
      /\ rows' = [rows EXCEPT ![r] = row]
      /\ \/ job[d].verdict = "APPROVE" /\ pc' = [pc EXCEPT ![d] = "approved"] /\ job' = job
         \/ NeedsHuman(job[d].verdict) /\ pc' = [pc EXCEPT ![d] = "queueing"] /\ job' = job
         \/ job[d].verdict = "REJECT" /\ Leave(d)
      /\ UNCHANGED <<files, torn, writer, now, ceiling, lost, answered, gone, writes>>
  BY DEF Record, Go
<1>2. job[d] \in JobShape(job[d])
  BY DEF JobsTyped
<1>3. r \in Requests
  <2>1. r # None
    BY <1>1 DEF JobsTyped
  <2> QED
    BY <1>2, <2>1 DEF JobShape
<1> HIDE DEF charged
<1>4. /\ row \in RowShape(row)
      /\ row.verdict = job[d].verdict /\ row.stopped = job[d].stopped
      /\ row.hadIntent = job[d].hadIntent /\ row.sawTorn = job[d].sawTorn
      /\ row.named = job[d].named /\ row.under = job[d].intent
  <2>1. /\ job[d].amount \in Nat /\ job[d].verdict \in Verdicts
        /\ job[d].hadIntent \in BOOLEAN /\ job[d].sawTorn \in BOOLEAN
    BY <1>2 DEF JobShape
  <2> QED
    BY <2>1 DEF NoRow, RowShape
<1> HIDE DEF row
<1>5. rows'[r] = row
  BY <1>1, <1>3 DEF JobsTyped
<1> QED
  BY <1>1, <1>3, <1>4, <1>5

LEMMA RecordTyped ==
    ASSUME JobsTyped, NEW d \in Deciders, Record(d)
    PROVE  JobsTyped'
<1> DEFINE r == job[d].request
           row == rows'[r]
<1>1. /\ pc[d] \in {"ready", "decided"} /\ r \in Requests
      /\ rows' = [rows EXCEPT ![r] = row] /\ row \in RowShape(row)
      /\ \/ pc' = [pc EXCEPT ![d] = "approved"] /\ job' = job
         \/ pc' = [pc EXCEPT ![d] = "queueing"] /\ job' = job
         \/ Leave(d)
  BY RecordIs
<1> HIDE DEF row
<1>2. rows' = [q \in Requests |-> rows'[q]] /\ \A q \in Requests : rows'[q] \in RowShape(rows'[q])
  BY <1>1 DEF JobsTyped
<1>3. ASSUME NEW place \in {"approved", "queueing"}, pc' = [pc EXCEPT ![d] = place], job' = job
      PROVE  JobsTyped'
  <2>1. job' = [job EXCEPT ![d] = job[d]] /\ job[d] \in JobShape(job[d])
    BY <1>3 DEF JobsTyped
  <2>2. place \in Places /\ (place = "idle" <=> job[d].request = None)
    BY <1>1 DEF Places, JobsTyped
  <2> QED
    BY <1>2, <1>3, <2>1, <2>2, OneStep
<1>4. Leave(d) => JobsTyped'
  BY <1>2, LeaveTyped
<1> QED
  BY <1>1, <1>3, <1>4

LEMMA SettleIs ==
    ASSUME JobsTyped, NEW d \in Deciders, Settle(d)
    PROVE  /\ pc[d] = "approved" /\ Leave(d)
           /\ rows' = [r \in Requests |-> rows'[r]]
           /\ \A r \in Requests : /\ rows'[r] \in RowShape(rows'[r])
                                  /\ rows'[r].verdict = rows[r].verdict
                                  /\ rows'[r].stopped = rows[r].stopped
                                  /\ rows'[r].hadIntent = rows[r].hadIntent
                                  /\ rows'[r].sawTorn = rows[r].sawTorn
                                  /\ rows'[r].named = rows[r].named
                                  /\ rows'[r].under = rows[r].under
           /\ UNCHANGED <<files, torn, writer, now, ceiling, lost, answered, gone, writes>>
<1> DEFINE id == job[d].request
<1>1. PICK success \in BOOLEAN, paid \in Reported \cup {NotReported} :
        rows' = [rows EXCEPT ![id].settled = TRUE, ![id].success = success, ![id].paid = paid]
  BY DEF Settle
<1>0. paid \in Nat \cup {NotReported}
  BY <1>1, AuthorityAssumption DEF AuthorityAssumption
<1> DEFINE row == [rows[id] EXCEPT !.settled = TRUE, !.success = success, !.paid = paid]
<1>2. id \in Requests
  <2>1. id # None
    BY DEF JobsTyped, Settle
  <2> QED
    BY <2>1 DEF JobsTyped, JobShape
<1>3. rows[id] \in RowShape(rows[id])
  BY <1>2 DEF JobsTyped
<1>4. /\ row \in RowShape(row)
      /\ row.verdict = rows[id].verdict /\ row.stopped = rows[id].stopped
      /\ row.hadIntent = rows[id].hadIntent /\ row.sawTorn = rows[id].sawTorn
      /\ row.named = rows[id].named /\ row.under = rows[id].under
  BY <1>0, <1>3 DEF RowShape
<1>5. rows' = [rows EXCEPT ![id] = row]
  BY <1>1, <1>2 DEF JobsTyped
<1> HIDE DEF row
<1>6. \A r \in Requests : rows'[r] = IF r = id THEN row ELSE rows[r]
  BY <1>5 DEF JobsTyped
<1>7. rows' = [r \in Requests |-> rows'[r]]
  BY <1>5 DEF JobsTyped
<1>8. \A r \in Requests : rows[r] \in RowShape(rows[r])
  BY DEF JobsTyped
<1>9. /\ pc[d] = "approved" /\ Leave(d)
      /\ UNCHANGED <<files, torn, writer, now, ceiling, lost, answered, gone, writes>>
  BY DEF Settle
<1> HIDE DEF id
<1>10. ASSUME NEW r \in Requests
       PROVE  /\ rows'[r] \in RowShape(rows'[r])
              /\ rows'[r].verdict = rows[r].verdict
              /\ rows'[r].stopped = rows[r].stopped
              /\ rows'[r].hadIntent = rows[r].hadIntent
              /\ rows'[r].sawTorn = rows[r].sawTorn
              /\ rows'[r].named = rows[r].named
              /\ rows'[r].under = rows[r].under
  BY <1>4, <1>6, <1>8
<1> QED
  BY <1>7, <1>9, <1>10

\* A write of the identities only shortens what is known to be stopped all along.
LEMMA WriteJobs ==
    ASSUME FilesInv, JobsTyped, NEW p \in Processes, Write(p)
    PROVE  /\ JobsTyped' /\ UNCHANGED <<rows, pc, ceiling, gone, now, writes>>
           /\ \A d \in Deciders :
                 /\ job'[d].request = job[d].request /\ job'[d].named = job[d].named
                 /\ job'[d].verdict = job[d].verdict /\ job'[d].own = job[d].own
                 /\ job'[d].intent = job[d].intent /\ job'[d].hadIntent = job[d].hadIntent
                 /\ job'[d].sawTorn = job[d].sawTorn
                 /\ job'[d].stopped \subseteq job[d].stopped
                 /\ files'["identities"] # files["identities"] =>
                       job'[d].stopped \subseteq Stopped(files'["identities"], AgentOf[d])
<1> DEFINE cut(d) == job[d].stopped \cap Stopped(writer[p].copy, AgentOf[d])
           j(d) == [job[d] EXCEPT !.stopped = cut(d)]
<1>1. UNCHANGED <<rows, pc, ceiling, gone, now, writes>>
  BY DEF Write
<1>2. \/ job' = job /\ files'["identities"] = files["identities"]
      \/ job' = [d \in Deciders |-> j(d)] /\ files'["identities"] = writer[p].copy
  <2>1. writer[p].file \in Files /\ "identities" \in Files
    BY DEF FilesInv, Busy, Write, Files
  <2>2. \/ /\ files' = [files EXCEPT ![writer[p].file] = writer[p].copy]
           /\ job' = IF writer[p].file = "identities" THEN [d \in Deciders |-> j(d)] ELSE job
        \/ files' = files /\ job' = job
    BY DEF Write
  <2> HIDE DEF j
  <2> QED
    BY <2>1, <2>2 DEF FilesInv
<1>3. ASSUME NEW d \in Deciders
      PROVE  /\ j(d) \in JobShape(j(d)) /\ j(d).stopped = cut(d)
             /\ j(d).request = job[d].request /\ j(d).named = job[d].named
             /\ j(d).verdict = job[d].verdict /\ j(d).own = job[d].own
             /\ j(d).intent = job[d].intent /\ j(d).hadIntent = job[d].hadIntent
             /\ j(d).sawTorn = job[d].sawTorn
  <2>1. job[d] \in JobShape(job[d])
    BY DEF JobsTyped
  <2> HIDE DEF cut
  <2> QED
    BY <2>1 DEF JobShape
<1>4. CASE job' = job /\ files'["identities"] = files["identities"]
  BY <1>1, <1>4 DEF JobsTyped
<1>5. CASE job' = [d \in Deciders |-> j(d)]
  <2>1. \A d \in Deciders : job'[d] = j(d)
    BY <1>5
  <2>2. \A d \in Deciders : cut(d) \subseteq job[d].stopped
                            /\ cut(d) \subseteq Stopped(writer[p].copy, AgentOf[d])
    OBVIOUS
  <2>3. job' = [d \in Deciders |-> job'[d]]
    BY <1>5
  <2> HIDE DEF j, cut
  <2>4. JobsTyped'
    BY <1>1, <1>3, <2>1, <2>3 DEF JobsTyped
  <2> QED
    BY <1>1, <1>2, <1>3, <2>1, <2>2, <2>4
<1> QED
  BY <1>2, <1>4, <1>5

\* An operator takes a copy of a file.
LEMMA OperateIs ==
    ASSUME NEW o \in Operators, Operate(o)
    PROVE  /\ \E w : writer' = [writer EXCEPT ![o] = w]
           /\ UNCHANGED <<files, torn, rows, job, lost, answered, gone, now, pc>>
<1>1. ASSUME NEW x, NEW copy, Begin(o, x, copy)
      PROVE  \E w : writer' = [writer EXCEPT ![o] = w]
  BY <1>1 DEF Begin
<1>2. ASSUME NEW form \in Registrations, Register(o, form)
      PROVE  /\ \E w : writer' = [writer EXCEPT ![o] = w]
             /\ UNCHANGED <<files, torn, rows, job, lost, answered, gone, now, pc>>
  BY <1>1, <1>2 DEF Register, Operation
<1>3. ASSUME NEW a \in Agents, NEW s \in Statuses, SetStatus(o, a, s)
      PROVE  /\ \E w : writer' = [writer EXCEPT ![o] = w]
             /\ UNCHANGED <<files, torn, rows, job, lost, answered, gone, now, pc>>
  BY <1>1, <1>3 DEF SetStatus, Operation
<1>4. ASSUME NEW i \in IntentIds, NEW form \in Declarations, Declare(o, i, form)
      PROVE  /\ \E w : writer' = [writer EXCEPT ![o] = w]
             /\ UNCHANGED <<files, torn, rows, job, lost, answered, gone, now, pc>>
  BY <1>1, <1>4 DEF Declare, Operation
<1>5. ASSUME NEW i \in IntentIds, Revoke(o, i)
      PROVE  /\ \E w : writer' = [writer EXCEPT ![o] = w]
             /\ UNCHANGED <<files, torn, rows, job, lost, answered, gone, now, pc>>
  BY <1>1, <1>5 DEF Revoke, Operation
<1>6. ASSUME NEW r \in Requests, NEW answer \in Answers, Resolve(o, r, answer)
      PROVE  /\ \E w : writer' = [writer EXCEPT ![o] = w]
             /\ UNCHANGED <<files, torn, rows, job, lost, answered, gone, now, pc>>
  BY <1>1, <1>6 DEF Resolve, Operation
<1>7. ASSUME ClearResolved(o)
      PROVE  /\ \E w : writer' = [writer EXCEPT ![o] = w]
             /\ UNCHANGED <<files, torn, rows, job, lost, answered, gone, now, pc>>
  BY <1>1, <1>7 DEF ClearResolved, Operation
<1> QED
  BY <1>2, <1>3, <1>4, <1>5, <1>6, <1>7 DEF Operate

\* A decider crashes.
LEMMA CrashIs ==
    ASSUME NEW d \in Deciders, CrashDecider(d)
    PROVE  /\ writer' = [writer EXCEPT ![d] = NotWriting]
           /\ gone' = gone \cup {job[d].request} /\ Leave(d)
           /\ UNCHANGED <<files, torn, rows, now, ceiling, lost, answered, writes>>
  BY DEF CrashDecider

\* A decider carries a request exactly while it is busy.
LEMMA Carries ==
    ASSUME JobsTyped, NEW d \in Deciders, pc[d] # "idle"
    PROVE  job[d].request \in Requests
  BY DEF JobsTyped, JobShape

Inv == FilesInv /\ JobsTyped

LEMMA OnwardInv ==
    ASSUME Inv, NEW d \in Deciders, NEW place, Onward(d, place)
    PROVE  Inv'
<1>1. UNCHANGED <<files, torn, writer, ceiling, writes>> /\ now' \in 0..LastMoment
  BY DEF Onward, Reading, Inv, FilesInv
<1> QED
  BY <1>1, OnwardTyped, UndisturbedKeeps DEF Inv

LEMMA ThinksInv ==
    ASSUME Inv, NEW d \in Deciders, Thinks(d)
    PROVE  Inv'
<1> USE DEF Inv
<1>1. CASE Ask(d)
  <2>1. UNCHANGED <<files, torn, writer, ceiling, writes>> /\ now' \in 0..LastMoment
    BY <1>1, AskIs DEF Reading, FilesInv
  <2> QED
    BY <1>1, <2>1, AskTyped, UndisturbedKeeps
<1>2. CASE FindIntent(d)
  BY <1>2, FindIntentOnward, OnwardInv
<1>3. CASE FindLapsed(d)
  BY <1>3, FindLapsedOnward, OnwardInv
<1>4. CASE WeighIntent(d)
  BY <1>4, WeighIntentOnward, OnwardInv
<1>5. CASE FindIdentity(d)
  BY <1>5, FindIdentityOnward, OnwardInv
<1>6. CASE FindParent(d)
  BY <1>6, FindParentOnward, OnwardInv
<1>7. CASE LookAgain(d) \/ LookForLapsedAgain(d)
  BY <1>7, LookAgainOnward, OnwardInv
<1>8. CASE Record(d)
  <2>1. UNCHANGED <<files, torn, writer, ceiling, writes>> /\ now' \in 0..LastMoment
    BY <1>8, RecordIs DEF FilesInv
  <2> QED
    BY <1>8, <2>1, RecordTyped, UndisturbedKeeps
<1>9. CASE Queued(d)
  <2>1. UNCHANGED <<files, torn, writer, ceiling, writes, rows>> /\ now' \in 0..LastMoment
        /\ Leave(d)
    BY <1>9 DEF FilesInv, Queued, Reading
  <2>2. rows' = [r \in Requests |-> rows'[r]] /\ \A r \in Requests : rows'[r] \in RowShape(rows'[r])
    BY <2>1 DEF JobsTyped
  <2> QED
    BY <2>1, <2>2, LeaveTyped, UndisturbedKeeps
<1>10. CASE Settle(d)
  <2>1. UNCHANGED <<files, torn, writer, ceiling, writes>> /\ now' \in 0..LastMoment
    BY <1>10, SettleIs DEF FilesInv
  <2>2. JobsTyped'
    BY <1>10, SettleIs, LeaveTyped
  <2> QED
    BY <2>1, <2>2, UndisturbedKeeps
<1> QED
  BY <1>1, <1>2, <1>3, <1>4, <1>5, <1>6, <1>7, <1>8, <1>9, <1>10 DEF Thinks

LEMMA OperateInv ==
    ASSUME Inv, NEW o \in Operators, Operate(o)
    PROVE  Inv'
<1>1. o \in Processes
  BY DEF Processes
<1>2. FilesInv'
  BY <1>1, RegisterKeeps, SetStatusKeeps, DeclareKeeps, RevokeKeeps, ResolveKeeps,
     ClearResolvedKeeps DEF Operate, Inv
<1>3. JobsTyped'
  BY OperateIs DEF Inv, JobsTyped
<1> QED
  BY <1>2, <1>3 DEF Inv

LEMMA EnqueueInv ==
    ASSUME Inv, NEW d \in Deciders, Enqueue(d)
    PROVE  Inv'
<1>1. pc[d] = "queueing" /\ pc' = [pc EXCEPT ![d] = "queued"] /\ UNCHANGED <<rows, job>>
  BY DEF Enqueue, Go
<1>2. JobsTyped'
  <2>1. "queued" \in Places /\ job[d].request # None
    BY <1>1 DEF Places, Inv, JobsTyped
  <2> QED
    BY <1>1, <2>1 DEF Inv, JobsTyped
<1> QED
  BY <1>1, <1>2, Carries, EnqueueKeeps DEF Inv

LEMMA CrashInv ==
    ASSUME Inv, NEW d \in Deciders, CrashDecider(d)
    PROVE  Inv'
<1>1. d \in Processes
  BY DEF Processes
<1>2. rows' = [r \in Requests |-> rows'[r]] /\ \A r \in Requests : rows'[r] \in RowShape(rows'[r])
  BY CrashIs DEF Inv, JobsTyped
<1>3. JobsTyped'
  BY <1>2, CrashIs, LeaveTyped DEF Inv
<1> QED
  BY <1>1, <1>3, CrashIs, CrashKeeps DEF Inv

LEMMA InvInit == Init => Inv
<1> SUFFICES ASSUME Init
             PROVE  JobsTyped
  BY FilesInit DEF Inv
<1>1. NoRow \in RowShape(NoRow)
  BY DEF NoRow, RowShape
<1>2. pc \in [Deciders -> Places]
  BY DEF Init, Places
<1> QED
  BY <1>1, <1>2, NoJobIs DEF Init, JobsTyped

LEMMA InvStep == Inv /\ [Next]_vars => Inv'
<1> SUFFICES ASSUME Inv, [Next]_vars
             PROVE  Inv'
  OBVIOUS
<1>1. ASSUME NEW o \in Operators, CrashOperator(o)
      PROVE  Inv'
  <2>1. o \in Processes
    BY DEF Processes
  <2>2. FilesInv'
    BY <1>1, <2>1, CrashKeeps DEF CrashOperator, Inv
  <2>3. JobsTyped'
    BY <1>1 DEF CrashOperator, Inv, JobsTyped
  <2> QED
    BY <2>2, <2>3 DEF Inv
<1>2. ASSUME NEW p \in Processes, Truncate(p)
      PROVE  Inv'
  <2>1. JobsTyped'
    BY <1>2 DEF Truncate, Inv, JobsTyped
  <2> QED
    BY <1>2, <2>1, TruncateKeeps DEF Inv
<1>3. ASSUME NEW p \in Processes, Write(p)
      PROVE  Inv'
  BY <1>3, WriteJobs, WriteKeeps DEF Inv
<1>4. CASE Tick \/ UNCHANGED vars
  <2>1. UNCHANGED <<files, torn, writer, ceiling, writes, rows, pc, job>>
    BY <1>4 DEF Tick, vars
  <2>2. now' \in 0..LastMoment
    BY <1>4, AuthorityAssumption DEF Tick, vars, Inv, FilesInv, AuthorityAssumption
  <2>3. JobsTyped'
    BY <2>1 DEF Inv, JobsTyped
  <2> QED
    BY <2>1, <2>2, <2>3, UndisturbedKeeps DEF Inv
<1> QED
  BY <1>1, <1>2, <1>3, <1>4, StepKinds, OperateInv, ThinksInv, EnqueueInv, CrashInv

\* Only a write changes a file.
LEMMA OnlyWrites ==
    ASSUME [Next]_vars, files' # files
    PROVE  \E p \in Processes : Write(p)
<1>1. \A o \in Operators : ~Operate(o) /\ ~CrashOperator(o)
  BY OperateIs DEF CrashOperator
<1>2. \A p \in Processes : ~Truncate(p)
  BY DEF Truncate
<1>3. ASSUME NEW d \in Deciders
      PROVE  ~Thinks(d) /\ ~Enqueue(d) /\ ~CrashDecider(d)
  <2>1. ~Reading(d)
    BY DEF Reading
  <2>2. ~(Ask(d) \/ FindIntent(d) \/ FindLapsed(d) \/ WeighIntent(d) \/ FindIdentity(d))
    BY <2>1 DEF Ask, FindIntent, FindLapsed, WeighIntent, FindIdentity
  <2>3. ~(FindParent(d) \/ LookAgain(d) \/ LookForLapsedAgain(d) \/ Queued(d))
    BY <2>1 DEF FindParent, LookAgain, LookForLapsedAgain, Queued
  <2>4. ~(Record(d) \/ Settle(d) \/ Enqueue(d) \/ CrashDecider(d))
    BY DEF Record, Settle, Enqueue, CrashDecider
  <2> QED
    BY <2>2, <2>3, <2>4 DEF Thinks
<1>4. ~Tick /\ ~UNCHANGED vars
  BY DEF Tick, vars
<1> QED
  BY <1>1, <1>2, <1>3, <1>4, StepKinds

\* What a write does to a file and to the histories.
LEMMA WriteIs ==
    ASSUME Inv, NEW p \in Processes, Write(p)
    PROVE  /\ Busy(p) /\ writer[p].file \in Files
           /\ Sound(writer[p].file, writer[p].seen, writer[p].copy)
           /\ writer' = [writer EXCEPT ![p] = NotWriting]
           /\ \/ /\ files' = [files EXCEPT ![writer[p].file] = writer[p].copy]
                 /\ lost' = lost \cup Unseen(writer[p].file, writer[p].seen)
                 /\ answered' = IF writer[p].file = "review"
                                THEN answered \cup {r \in DOMAIN writer[p].copy :
                                                        writer[p].copy[r] # "pending"}
                                ELSE answered
              \/ /\ UNCHANGED <<files, answered>>
                 /\ lost' = lost \cup {<<writer[p].file, n>> : n \in DOMAIN writer[p].copy}
<1>1. Busy(p)
  BY DEF Busy, Write
<1>2. writer[p].file \in Files /\ Sound(writer[p].file, writer[p].seen, writer[p].copy)
  BY <1>1 DEF Inv, FilesInv
<1> QED
  BY <1>1, <1>2 DEF Write

\* Every variable keeps its type and what is written whole is whole, whoever writes what over
\* what: the three files, their writers, the table and the requests at work.
THEOREM AuthorityTypeOK == Spec => []TypeOK
<1>1. Inv => TypeOK
  <2> SUFFICES ASSUME Inv
               PROVE  TypeOK
    OBVIOUS
  <2>1. /\ IdentityFile(files["identities"]) /\ IntentFile(files["intents"])
        /\ ReviewFile(files["review"])
    BY DEF Inv, FilesInv, Whole, Files
  <2>2. DOMAIN files = Files
    BY DEF Inv, FilesInv
  <2>3. \A p \in Processes : writer[p].at \in {"none", "loaded", "open"}
                            /\ (writer[p].at # "none" => writer[p].file \in Files)
    BY DEF Inv, FilesInv, WriterType, Busy
  <2>4. /\ \A d \in Deciders : job[d].verdict \in Verdicts
        /\ \A r \in Requests : rows[r].verdict \in Verdicts \cup {None} /\ rows[r].amount \in Nat
    BY DEF Inv, JobsTyped, JobShape, RowShape
  <2>5. /\ torn \in [Files -> BOOLEAN] /\ pc \in [Deciders -> Places]
        /\ \A d \in Deciders : pc[d] = "idle" <=> job[d].request = None
        /\ now \in 0..LastMoment /\ writes \in 0..MaxWrites
    BY DEF Inv, FilesInv, JobsTyped
  <2> QED
    BY <2>1, <2>2, <2>3, <2>4, <2>5 DEF TypeOK, IdentityFile, IntentFile, ReviewFile
<1> QED
  BY <1>1, InvInit, InvStep, PTL DEF Spec

\* A revocation stands until somebody registers the agent anew or writes back a copy that was
\* loaded before it, with any number of operators.
THEOREM AuthorityRevocationIsTerminal == Spec => RevocationIsTerminal
<1> DEFINE Stays == \A a \in Agents :
        LET revoked(f) == a \in DOMAIN f /\ f[a].status = "revoked"
        IN  revoked(files["identities"]) /\ ~revoked(files'["identities"]) =>
                \/ <<"identities", a>> \in lost'
                \/ \E form \in Registrations :
                       files'["identities"][a] = [status |-> "active", terms |-> form.terms]
<1>1. ASSUME Inv, [Next]_vars
      PROVE  Stays
  <2>1. CASE files'["identities"] = files["identities"]
    BY <2>1
  <2>2. CASE files'["identities"] # files["identities"]
    <3>1. PICK p \in Processes : Write(p)
      BY <1>1, <2>2, OnlyWrites
    <3> DEFINE seen == writer[p].seen
               copy == writer[p].copy
    <3>2. writer[p].file = "identities" /\ files'["identities"] = copy
          /\ lost' = lost \cup Unseen("identities", seen)
      <4>1. writer[p].file \in Files /\ "identities" \in Files
        BY <1>1, <3>1 DEF Inv, FilesInv, Busy, Write, Files
      <4> QED
        BY <1>1, <2>2, <3>1, <4>1 DEF Write, Inv, FilesInv
    <3>3. RevokedStay(seen, copy)
      BY <1>1, <3>1, <3>2 DEF Inv, FilesInv, Busy, Write, Sound
    <3> HIDE DEF seen, copy
    <3>4. ASSUME NEW a \in Agents, a \in DOMAIN files["identities"],
                 files["identities"][a].status = "revoked",
                 <<"identities", a>> \notin lost'
          PROVE  \/ a \in DOMAIN copy /\ copy[a].status = "revoked"
                 \/ \E form \in Registrations :
                        copy[a] = [status |-> "active", terms |-> form.terms]
      <4>1. a \in DOMAIN seen /\ seen[a] = files["identities"][a]
        BY <3>2, <3>4 DEF Unseen
      <4> QED
        BY <3>3, <3>4, <4>1 DEF RevokedStay
    <3> QED
      BY <3>2, <3>4
  <2> QED
    BY <2>1, <2>2
<1>2. Inv /\ [Next]_vars => [Stays]_vars
  BY <1>1
<1> HIDE DEF Stays
<1>3. Spec => [][Stays]_vars
  BY <1>2, InvInit, InvStep, PTL DEF Spec
<1> QED
  BY <1>3 DEF RevocationIsTerminal, Stays

-----------------------------------------------------------------------------
(***************************************************************************)
(* A stop that is in force throughout a decision reaches it.               *)
(***************************************************************************)
AfterVerdict == {"decided", "again", "ready", "approved", "queueing", "queued"}

\* A decider has yet to meet whatever was stopped since it was asked: the agent's own entry when
\* it is looked up, its parent's when that is.
Heeds(d) ==
    /\ job[d].stopped \subseteq Stopped(files["identities"], AgentOf[d])
    /\ pc[d] = "delegated" =>
           /\ job[d].own \in Identity /\ job[d].own.terms.parent # None
           /\ \A b \in job[d].stopped :
                  b = job[d].own.terms.parent \/ job[d].own.status # "active"
    /\ pc[d] \in AfterVerdict /\ job[d].verdict = "APPROVE" =>
           job[d].stopped = {} \/ job[d].sawTorn

HeedsInv == StopReachesDecision /\ \A d \in Deciders : Heeds(d)

LEMMA LookedUp ==
    ASSUME Inv, NEW a
    PROVE  LET own == IdentityOf(Load("identities"), a)
           IN  \/ own = Unregistered /\ torn["identities"]
               \/ own = Unregistered /\ a \notin DOMAIN files["identities"]
               \/ /\ own # Unregistered /\ own \in Identity
                  /\ a \in DOMAIN files["identities"] /\ own = files["identities"][a]
<1>1. Unregistered \notin Identity
  BY DEF Unregistered, Identity, Statuses, None
<1>2. DOMAIN Empty = {}
  BY DEF Empty
<1>3. IdentityFile(files["identities"])
  BY DEF Inv, FilesInv, Whole, Files
<1>4. CASE torn["identities"]
  <2>1. Load("identities") = Empty
    BY <1>4 DEF Load
  <2> QED
    BY <1>2, <1>4, <2>1 DEF IdentityOf
<1>5. CASE ~torn["identities"]
  <2>1. Load("identities") = files["identities"]
    BY <1>5 DEF Load
  <2> QED
    BY <1>1, <1>3, <2>1 DEF IdentityOf, IdentityFile
<1> QED
  BY <1>4, <1>5

\* What was stopped when the agent was looked up.
LEMMA StoppedIs ==
    ASSUME NEW f, NEW a, NEW b \in Stopped(f, a)
    PROVE  /\ a \in DOMAIN f
           /\ b = f[a].terms.parent \/ b = a
           /\ b \notin DOMAIN f \/ f[b].status # "active"
           /\ b # None
  BY DEF Stopped

LEMMA FindIdentityHeeds ==
    ASSUME Inv, NEW d \in Deciders, Heeds(d), FindIdentity(d)
    PROVE  Heeds(d)'
<1> DEFINE f == files["identities"]
           a == AgentOf[d]
           own == IdentityOf(Load("identities"), a)
<1>1. /\ own = Unregistered /\ torn["identities"] => job'[d].sawTorn
      /\ \/ /\ own.terms.parent # None /\ Onward(d, "delegated") /\ job'[d].own = own
         \/ /\ own.terms.parent = None /\ Onward(d, "decided")
            /\ job'[d].verdict = "APPROVE" /\ own # Unregistered =>
                   own.status # "revoked" /\ own.status # "suspended"
  BY FindIdentityOnward DEF Inv
<1>2. /\ files' = files /\ job'[d].stopped = job[d].stopped
      /\ job[d].stopped \subseteq Stopped(f, a)
  BY <1>1 DEF Onward, Reading, Heeds
<1>3. pc' = [pc EXCEPT ![d] = pc'[d]] /\ pc'[d] \in {"delegated", "decided"}
  BY <1>1 DEF Onward, Inv, JobsTyped
<1>4. \/ own = Unregistered /\ torn["identities"]
      \/ own = Unregistered /\ a \notin DOMAIN f
      \/ own # Unregistered /\ own \in Identity /\ a \in DOMAIN f /\ own = f[a]
  BY LookedUp
<1>5. \A b \in job[d].stopped : /\ a \in DOMAIN f
                                /\ b = f[a].terms.parent \/ b = a
                                /\ b \notin DOMAIN f \/ f[b].status # "active"
  BY <1>2, StoppedIs
<1>6. Unregistered.terms.parent = None
  BY DEF Unregistered
<1> HIDE DEF f, a, own
<1>7. CASE own.terms.parent # None /\ Onward(d, "delegated") /\ job'[d].own = own
  <2>1. pc'[d] = "delegated"
    BY <1>7 DEF Onward, Inv, JobsTyped
  <2>2. own \in Identity /\ own = f[a]
    BY <1>4, <1>6, <1>7
  <2>3. \A b \in job'[d].stopped : b = own.terms.parent \/ own.status # "active"
    BY <1>2, <1>5, <2>2
  <2> QED
    BY <1>2, <1>7, <2>1, <2>2, <2>3 DEF Heeds, AfterVerdict, f, a
<1>8. CASE /\ own.terms.parent = None /\ Onward(d, "decided")
           /\ job'[d].verdict = "APPROVE" /\ own # Unregistered =>
                  own.status # "revoked" /\ own.status # "suspended"
  <2>1. pc'[d] = "decided"
    BY <1>8 DEF Onward, Inv, JobsTyped
  <2>2. ASSUME job'[d].verdict = "APPROVE"
        PROVE  job'[d].stopped = {} \/ job'[d].sawTorn
    <3>1. CASE own = Unregistered /\ torn["identities"]
      BY <1>1, <3>1 DEF own, a
    <3>2. CASE own = Unregistered /\ a \notin DOMAIN f
      BY <1>2, <1>5, <3>2
    <3>3. CASE own # Unregistered /\ own \in Identity /\ a \in DOMAIN f /\ own = f[a]
      <4>1. own.status = "active"
        BY <1>8, <2>2, <3>3 DEF Identity, Statuses
      <4>2. \A b \in job[d].stopped : b # None
        BY <1>2, StoppedIs DEF f, a
      <4> QED
        BY <1>2, <1>5, <1>8, <3>3, <4>1, <4>2
    <3> QED
      BY <1>4, <3>1, <3>2, <3>3
  <2> QED
    BY <1>2, <2>1, <2>2 DEF Heeds, AfterVerdict, f, a
<1> QED
  BY <1>1, <1>7, <1>8 DEF own, a

LEMMA FindParentHeeds ==
    ASSUME Inv, NEW d \in Deciders, Heeds(d), FindParent(d)
    PROVE  Heeds(d)'
<1> DEFINE f == files["identities"]
           own == job[d].own
           parent == IdentityOf(Load("identities"), own.terms.parent)
<1>1. /\ pc[d] = "delegated" /\ Onward(d, "decided")
      /\ job'[d].verdict = "APPROVE" /\ own # Unregistered =>
             /\ own.status # "revoked" /\ own.status # "suspended"
             /\ own.terms.parent # None => parent # Unregistered /\ parent.status = "active"
  BY FindParentOnward DEF Inv
<1>2. /\ own \in Identity /\ own.terms.parent # None
      /\ \A b \in job[d].stopped : b = own.terms.parent \/ own.status # "active"
      /\ job[d].stopped \subseteq Stopped(f, AgentOf[d])
  BY <1>1 DEF Heeds
<1>3. own # Unregistered
  BY <1>2 DEF Unregistered, Identity, Statuses, None
<1>4. files' = files /\ job'[d].stopped = job[d].stopped /\ pc'[d] = "decided"
  BY <1>1 DEF Onward, Reading, Inv, JobsTyped
<1>5. \A b \in job[d].stopped : b \notin DOMAIN f \/ f[b].status # "active"
  BY <1>2, StoppedIs
<1>6. parent # Unregistered => own.terms.parent \in DOMAIN f /\ parent = f[own.terms.parent]
  BY LookedUp
<1> HIDE DEF f, own, parent
<1>7. ASSUME job'[d].verdict = "APPROVE"
      PROVE  job'[d].stopped = {}
  <2>1. own.status = "active" /\ parent # Unregistered /\ parent.status = "active"
    BY <1>1, <1>2, <1>3, <1>7 DEF Identity, Statuses
  <2> QED
    BY <1>2, <1>4, <1>5, <1>6, <2>1
<1> QED
  BY <1>2, <1>4, <1>7 DEF Heeds, AfterVerdict, f

LEMMA HeedsStays ==
    ASSUME NEW e \in Deciders, Heeds(e), files' = files, job'[e] = job[e], pc'[e] = pc[e]
    PROVE  Heeds(e)'
  BY DEF Heeds

\* A step of one decider that leaves the files alone.
LEMMA HeedsOwnStep ==
    ASSUME Inv, HeedsInv, NEW d \in Deciders, NEW place, NEW j,
           pc' = [pc EXCEPT ![d] = place], job' = [job EXCEPT ![d] = j],
           files' = files, Heeds(d)'
    PROVE  \A e \in Deciders : Heeds(e)'
<1> SUFFICES ASSUME NEW e \in Deciders, e # d
             PROVE  Heeds(e)'
  OBVIOUS
<1>1. job'[e] = job[e] /\ pc'[e] = pc[e]
  BY DEF Inv, JobsTyped
<1> QED
  BY <1>1, HeedsStays DEF HeedsInv

\* A step of a look-up that gives no verdict, or none anew.
LEMMA OnwardHeeds ==
    ASSUME Inv, HeedsInv, NEW d \in Deciders, NEW place, Onward(d, place),
           place # "delegated", place \in AfterVerdict => pc[d] \in AfterVerdict
    PROVE  Heeds(d)'
<1>1. /\ files' = files /\ job'[d].stopped = job[d].stopped /\ pc'[d] = place
      /\ job[d].sawTorn => job'[d].sawTorn
      /\ job'[d].verdict = "APPROVE" => job[d].verdict = "APPROVE"
  BY DEF Onward, Reading, Inv, JobsTyped
<1> QED
  BY <1>1 DEF HeedsInv, Heeds

\* A decider that has nothing more to do has nothing to heed.
LEMMA LeaveHeeds ==
    ASSUME Inv, NEW d \in Deciders, Leave(d)
    PROVE  Heeds(d)'
<1>1. job'[d] = NoJob /\ pc'[d] = "idle"
  BY DEF Leave, Go, Inv, JobsTyped
<1> QED
  BY <1>1, NoJobIs DEF Heeds, AfterVerdict

LEMMA OnwardOnly ==
    ASSUME Inv, HeedsInv, NEW d \in Deciders, NEW place, Onward(d, place), Heeds(d)'
    PROVE  HeedsInv'
<1>1. /\ pc' = [pc EXCEPT ![d] = place] /\ job' = [job EXCEPT ![d] = job'[d]]
      /\ files' = files /\ rows' = rows
  BY DEF Onward, Reading
<1>2. StopReachesDecision'
  BY <1>1 DEF HeedsInv, StopReachesDecision
<1> QED
  BY <1>1, <1>2, HeedsOwnStep DEF HeedsInv

LEMMA RecordHeeds ==
    ASSUME Inv, HeedsInv, NEW d \in Deciders, Record(d)
    PROVE  HeedsInv'
<1> DEFINE r == job[d].request
<1>1. /\ pc[d] \in {"ready", "decided"} /\ r \in Requests
      /\ rows' = [rows EXCEPT ![r] = rows'[r]]
      /\ rows'[r].verdict = job[d].verdict /\ rows'[r].stopped = job[d].stopped
      /\ rows'[r].sawTorn = job[d].sawTorn /\ files' = files
      /\ \/ pc' = [pc EXCEPT ![d] = "approved"] /\ job' = job
         \/ pc' = [pc EXCEPT ![d] = "queueing"] /\ job' = job
         \/ Leave(d)
  BY RecordIs DEF Inv
<1>2. job[d].verdict = "APPROVE" => job[d].stopped = {} \/ job[d].sawTorn
  BY <1>1 DEF HeedsInv, Heeds, AfterVerdict
<1> HIDE DEF r
<1>3. StopReachesDecision'
  <2> SUFFICES ASSUME NEW q \in Requests, rows'[q].verdict = "APPROVE"
               PROVE  rows'[q].stopped = {} \/ rows'[q].sawTorn
    BY DEF StopReachesDecision
  <2>1. CASE q = r
    BY <1>1, <1>2, <2>1
  <2>2. CASE q # r
    <3>1. rows'[q] = rows[q]
      BY <1>1, <2>2 DEF Inv, JobsTyped
    <3> QED
      BY <3>1 DEF HeedsInv, StopReachesDecision
  <2> QED
    BY <2>1, <2>2
<1>4. ASSUME NEW place \in {"approved", "queueing"}, pc' = [pc EXCEPT ![d] = place], job' = job
      PROVE  \A e \in Deciders : Heeds(e)'
  <2>1. ASSUME NEW e \in Deciders, e # d
        PROVE  Heeds(e)'
    <3>1. pc'[e] = pc[e]
      BY <1>4, <2>1 DEF Inv, JobsTyped
    <3> QED
      BY <1>1, <1>4, <3>1, HeedsStays DEF HeedsInv
  <2>2. Heeds(d)'
    <3>1. pc'[d] = place
      BY <1>4 DEF Inv, JobsTyped
    <3> QED
      BY <1>1, <1>2, <1>4, <3>1 DEF HeedsInv, Heeds, AfterVerdict
  <2> QED
    BY <2>1, <2>2
<1>5. ASSUME Leave(d)
      PROVE  \A e \in Deciders : Heeds(e)'
  <2>1. pc' = [pc EXCEPT ![d] = "idle"] /\ job' = [job EXCEPT ![d] = NoJob]
    BY <1>5 DEF Leave, Go
  <2> QED
    BY <1>1, <1>5, <2>1, LeaveHeeds, HeedsOwnStep
<1> QED
  BY <1>1, <1>3, <1>4, <1>5 DEF HeedsInv

LEMMA ThinksHeeds ==
    ASSUME Inv, HeedsInv, NEW d \in Deciders, Thinks(d)
    PROVE  HeedsInv'
<1>0. Heeds(d) /\ JobsTyped /\ FilesInv
  BY DEF HeedsInv, Inv
<1>1. CASE Ask(d)
  <2>1. /\ pc' = [pc EXCEPT ![d] = "asked"] /\ job' = [job EXCEPT ![d] = job'[d]]
        /\ files' = files /\ rows' = rows
        /\ job'[d].stopped = Stopped(files["identities"], AgentOf[d])
    BY <1>0, <1>1, AskIs DEF Reading
  <2>2. pc'[d] = "asked"
    BY <1>0, <2>1 DEF JobsTyped
  <2>3. Heeds(d)'
    BY <2>1, <2>2 DEF Heeds, AfterVerdict
  <2>4. StopReachesDecision'
    BY <2>1 DEF HeedsInv, StopReachesDecision
  <2> QED
    BY <2>1, <2>3, <2>4, HeedsOwnStep DEF HeedsInv
<1>2. CASE FindIntent(d)
  <2>1. Onward(d, pc'[d]) /\ pc'[d] \in {"lapsed", "looked"}
    BY <1>0, <1>2, FindIntentOnward
  <2>2. Heeds(d)'
    BY <2>1, OnwardHeeds DEF AfterVerdict
  <2> QED
    BY <2>1, <2>2, OnwardOnly
<1>3. CASE FindLapsed(d) \/ WeighIntent(d)
  <2>1. PICK place \in {"looked", "weighed"} : Onward(d, place)
    BY <1>0, <1>3, FindLapsedOnward, WeighIntentOnward
  <2>2. Heeds(d)'
    BY <2>1, OnwardHeeds DEF AfterVerdict
  <2> QED
    BY <2>1, <2>2, OnwardOnly
<1>4. CASE FindIdentity(d) \/ FindParent(d)
  <2>1. PICK place \in {"delegated", "decided"} : Onward(d, place)
    BY <1>0, <1>4, FindIdentityOnward, FindParentOnward
  <2>2. Heeds(d)'
    BY <1>0, <1>4, FindIdentityHeeds, FindParentHeeds
  <2> QED
    BY <2>1, <2>2, OnwardOnly
<1>5. CASE LookAgain(d) \/ LookForLapsedAgain(d)
  <2>1. /\ Onward(d, pc'[d]) /\ pc'[d] \in {"again", "ready"} /\ pc[d] \in {"decided", "again"}
    BY <1>0, <1>5, LookAgainOnward
  <2>2. Heeds(d)'
    BY <2>1, OnwardHeeds DEF AfterVerdict
  <2> QED
    BY <2>1, <2>2, OnwardOnly
<1>6. CASE Record(d)
  BY <1>6, RecordHeeds
<1>7. CASE Queued(d)
  <2>1. Leave(d) /\ files' = files /\ rows' = rows
    BY <1>7 DEF Queued, Reading
  <2>2. pc' = [pc EXCEPT ![d] = "idle"] /\ job' = [job EXCEPT ![d] = NoJob]
    BY <2>1 DEF Leave, Go
  <2>3. StopReachesDecision'
    BY <2>1 DEF HeedsInv, StopReachesDecision
  <2> QED
    BY <2>1, <2>2, <2>3, LeaveHeeds, HeedsOwnStep DEF HeedsInv
<1>8. CASE Settle(d)
  <2>1. /\ Leave(d) /\ files' = files
        /\ \A r \in Requests : /\ rows'[r].verdict = rows[r].verdict
                               /\ rows'[r].stopped = rows[r].stopped
                               /\ rows'[r].sawTorn = rows[r].sawTorn
    BY <1>0, <1>8, SettleIs
  <2>2. pc' = [pc EXCEPT ![d] = "idle"] /\ job' = [job EXCEPT ![d] = NoJob]
    BY <2>1 DEF Leave, Go
  <2>3. StopReachesDecision'
    BY <2>1 DEF HeedsInv, StopReachesDecision
  <2> QED
    BY <2>1, <2>2, <2>3, LeaveHeeds, HeedsOwnStep DEF HeedsInv
<1> QED
  BY <1>1, <1>2, <1>3, <1>4, <1>5, <1>6, <1>7, <1>8 DEF Thinks

LEMMA WriteHeeds ==
    ASSUME Inv, HeedsInv, NEW p \in Processes, Write(p)
    PROVE  HeedsInv'
<1>1. rows' = rows /\ pc' = pc
  BY DEF Write
<1>2. ASSUME NEW d \in Deciders
      PROVE  Heeds(d)'
  <2>1. /\ job'[d].verdict = job[d].verdict /\ job'[d].own = job[d].own
        /\ job'[d].sawTorn = job[d].sawTorn
        /\ job'[d].stopped \subseteq job[d].stopped
        /\ files'["identities"] # files["identities"] =>
              job'[d].stopped \subseteq Stopped(files'["identities"], AgentOf[d])
    BY WriteJobs DEF Inv
  <2>2. job'[d].stopped \subseteq Stopped(files'["identities"], AgentOf[d])
    BY <2>1 DEF HeedsInv, Heeds
  <2> QED
    BY <1>1, <2>1, <2>2 DEF HeedsInv, Heeds
<1>3. StopReachesDecision'
  BY <1>1 DEF HeedsInv, StopReachesDecision
<1> QED
  BY <1>2, <1>3 DEF HeedsInv

LEMMA HeedsStep ==
    ASSUME Inv, HeedsInv, [Next]_vars
    PROVE  HeedsInv'
<1>1. ASSUME UNCHANGED <<files, rows, job, pc>>
      PROVE  HeedsInv'
  BY <1>1, HeedsStays DEF HeedsInv, StopReachesDecision
<1>2. ASSUME NEW o \in Operators, Operate(o) \/ CrashOperator(o)
      PROVE  HeedsInv'
  BY <1>1, <1>2, OperateIs DEF CrashOperator
<1>3. ASSUME NEW p \in Processes, Truncate(p)
      PROVE  HeedsInv'
  BY <1>1, <1>3 DEF Truncate
<1>4. CASE Tick \/ UNCHANGED vars
  BY <1>1, <1>4 DEF Tick, vars
<1>5. ASSUME NEW d \in Deciders, Enqueue(d)
      PROVE  HeedsInv'
  <2>1. /\ pc[d] = "queueing" /\ pc' = [pc EXCEPT ![d] = "queued"]
        /\ UNCHANGED <<files, rows, job>>
    BY <1>5 DEF Enqueue, Go
  <2>2. job' = [job EXCEPT ![d] = job[d]] /\ pc'[d] = "queued"
    BY <2>1 DEF Inv, JobsTyped
  <2>3. Heeds(d)'
    BY <2>1, <2>2 DEF HeedsInv, Heeds, AfterVerdict
  <2>4. StopReachesDecision'
    BY <2>1 DEF HeedsInv, StopReachesDecision
  <2> QED
    BY <2>1, <2>2, <2>3, <2>4, HeedsOwnStep DEF HeedsInv
<1>6. ASSUME NEW d \in Deciders, CrashDecider(d)
      PROVE  HeedsInv'
  <2>1. Leave(d) /\ files' = files /\ rows' = rows
    BY <1>6, CrashIs
  <2>2. pc' = [pc EXCEPT ![d] = "idle"] /\ job' = [job EXCEPT ![d] = NoJob]
    BY <2>1 DEF Leave, Go
  <2>3. StopReachesDecision'
    BY <2>1 DEF HeedsInv, StopReachesDecision
  <2> QED
    BY <2>1, <2>2, <2>3, LeaveHeeds, HeedsOwnStep DEF HeedsInv
<1> QED
  BY <1>2, <1>3, <1>4, <1>5, <1>6, StepKinds, ThinksHeeds, WriteHeeds

\* Whatever an agent and its parent are turned into and back between the two look-ups, an agent
\* that was stopped, or acted for nobody who may act, from when it asked to when it was decided
\* is not approved, unless a look-up met the file while it was being written.
THEOREM AuthorityStopReachesDecision == Spec => []StopReachesDecision
<1>1. Init => HeedsInv
  <2> SUFFICES ASSUME Init
               PROVE  HeedsInv
    OBVIOUS
  <2>1. \A d \in Deciders : job[d] = NoJob /\ pc[d] = "idle"
    BY DEF Init
  <2>2. \A r \in Requests : rows[r].verdict = None
    BY DEF Init, NoRow
  <2>3. None # "APPROVE"
    BY DEF None
  <2> QED
    BY <2>1, <2>2, <2>3, NoJobIs DEF HeedsInv, Heeds, StopReachesDecision, AfterVerdict
<1>2. Inv /\ HeedsInv /\ [Next]_vars => HeedsInv'
  BY HeedsStep
<1>3. HeedsInv => StopReachesDecision
  BY DEF HeedsInv
<1> QED
  BY <1>1, <1>2, <1>3, InvInit, InvStep, PTL DEF Spec

-----------------------------------------------------------------------------
(***************************************************************************)
(* Where a request that needs a human has gone.                            *)
(***************************************************************************)
Held(r) == r \in DOMAIN files["review"] \cup answered \cup gone \/ <<"review", r>> \in lost

\* No two deciders carry one request.
Apart == \A d, e \in Deciders :
             job[d].request # None /\ job[d].request = job[e].request => d = e

\* An answer that is in the file has been given.
Given ==
    \A r \in DOMAIN files["review"] : files["review"][r] # "pending" => r \in answered

\* A decider writes nothing but its request into the queue, leaves only when that is done, and
\* settles only what it may.
Queues(d) ==
    /\ Busy(d) => /\ pc[d] = "queued" /\ writer[d].file = "review"
                  /\ job[d].request \in DOMAIN writer[d].copy
    /\ pc[d] = "queued" /\ ~Busy(d) => Held(job[d].request)
    /\ pc[d] = "approved" => rows[job[d].request].verdict = "APPROVE"

QueueInv == Apart /\ Given /\ QueueLosesOnlyToOverlap /\ \A d \in Deciders : Queues(d)

LEMMA HistoriesGrow ==
    ASSUME [Next]_vars
    PROVE  lost \subseteq lost' /\ answered \subseteq answered' /\ gone \subseteq gone'
<1>1. ASSUME NEW p \in Processes, Truncate(p) \/ Write(p)
      PROVE  lost \subseteq lost' /\ answered \subseteq answered' /\ gone' = gone
  BY <1>1 DEF Truncate, Write
<1>2. ASSUME NEW d \in Deciders, Thinks(d)
      PROVE  UNCHANGED <<lost, answered, gone>>
  <2>1. Reading(d) => UNCHANGED <<lost, answered, gone>>
    BY DEF Reading
  <2>2. CASE Ask(d) \/ FindIntent(d) \/ FindLapsed(d) \/ WeighIntent(d) \/ FindIdentity(d)
    BY <2>1, <2>2 DEF Ask, FindIntent, FindLapsed, WeighIntent, FindIdentity
  <2>3. CASE FindParent(d) \/ LookAgain(d) \/ LookForLapsedAgain(d) \/ Queued(d)
    BY <2>1, <2>3 DEF FindParent, LookAgain, LookForLapsedAgain, Queued
  <2>4. CASE Record(d) \/ Settle(d)
    BY <2>4 DEF Record, Settle
  <2> QED
    BY <1>2, <2>2, <2>3, <2>4 DEF Thinks
<1>3. ASSUME NEW d \in Deciders, Enqueue(d) \/ CrashDecider(d)
      PROVE  UNCHANGED <<lost, answered>> /\ gone \subseteq gone'
  BY <1>3 DEF Enqueue, CrashDecider
<1>4. ASSUME NEW o \in Operators, Operate(o) \/ CrashOperator(o)
      PROVE  UNCHANGED <<lost, answered, gone>>
  BY <1>4, OperateIs DEF CrashOperator
<1>5. CASE Tick \/ UNCHANGED vars
  BY <1>5 DEF Tick, vars
<1> QED
  BY <1>1, <1>2, <1>3, <1>4, <1>5, StepKinds

LEMMA HeldStays ==
    ASSUME Inv, Given, [Next]_vars, NEW r, Held(r)
    PROVE  Held(r)'
<1>1. lost \subseteq lost' /\ answered \subseteq answered' /\ gone \subseteq gone'
  BY HistoriesGrow
<1>2. CASE files' = files \/ r \notin DOMAIN files["review"]
  BY <1>1, <1>2 DEF Held
<1>3. CASE files' # files /\ r \in DOMAIN files["review"]
  <2>1. PICK p \in Processes : Write(p)
    BY <1>3, OnlyWrites
  <2>2. /\ files' = [files EXCEPT ![writer[p].file] = writer[p].copy]
        /\ lost' = lost \cup Unseen(writer[p].file, writer[p].seen)
        /\ Sound(writer[p].file, writer[p].seen, writer[p].copy)
    BY <1>3, <2>1, WriteIs
  <2>3. CASE writer[p].file # "review"
    <3>1. files'["review"] = files["review"]
      BY <2>2, <2>3 DEF Inv, FilesInv
    <3> QED
      BY <1>3, <3>1 DEF Held
  <2>4. CASE writer[p].file = "review"
    <3> DEFINE seen == writer[p].seen
               copy == writer[p].copy
    <3>1. files'["review"] = copy
      BY <2>2, <2>4 DEF Inv, FilesInv, Files
    <3>2. lost' = lost \cup Unseen("review", seen) /\ PendingStay(seen, copy)
      BY <2>2, <2>4 DEF Sound
    <3> HIDE DEF seen, copy
    <3>3. CASE r \in DOMAIN copy
      BY <3>1, <3>3 DEF Held
    <3>4. CASE ~(r \in DOMAIN seen /\ seen[r] = files["review"][r])
      <4>1. <<"review", r>> \in lost'
        BY <1>3, <3>2, <3>4 DEF Unseen
      <4> QED
        BY <4>1 DEF Held
    <3>5. CASE r \in DOMAIN seen /\ seen[r] = files["review"][r] /\ r \notin DOMAIN copy
      <4>1. files["review"][r] # "pending"
        BY <3>2, <3>5 DEF PendingStay
      <4>2. r \in answered'
        BY <1>1, <1>3, <4>1 DEF Given
      <4> QED
        BY <4>2 DEF Held
    <3> QED
      BY <3>3, <3>4, <3>5
  <2> QED
    BY <2>3, <2>4
<1> QED
  BY <1>2, <1>3

LEMMA GivenStays ==
    ASSUME Inv, Given, [Next]_vars
    PROVE  Given'
<1>1. answered \subseteq answered'
  BY HistoriesGrow
<1>2. CASE files'["review"] = files["review"]
  BY <1>1, <1>2 DEF Given
<1>3. CASE files'["review"] # files["review"]
  <2>0. "review" \in Files /\ DOMAIN files = Files /\ files' # files
    BY <1>3 DEF Files, Inv, FilesInv
  <2>1. PICK p \in Processes : Write(p)
    BY <2>0, OnlyWrites
  <2>5. files' = [files EXCEPT ![writer[p].file] = writer[p].copy] /\ writer[p].file \in Files
    BY <2>0, <2>1, WriteIs
  <2>2. writer[p].file = "review"
    BY <1>3, <2>0, <2>5
  <2>3. files'["review"] = writer[p].copy
    BY <2>0, <2>5, <2>2
  <2>4. answered' = answered \cup {r \in DOMAIN writer[p].copy : writer[p].copy[r] # "pending"}
    BY <2>0, <2>1, <2>2, WriteIs
  <2> QED
    BY <2>3, <2>4 DEF Given
<1> QED
  BY <1>2, <1>3

\* Requests are only let go of.
LEMMA ApartStays ==
    ASSUME Apart, \A e \in Deciders : job'[e].request \in {job[e].request, None}
    PROVE  Apart'
  BY DEF Apart

LEMMA QueuesStays ==
    ASSUME NEW e \in Deciders, Queues(e), NEW r, job[e].request = r, job'[e].request = r,
           Held(r) => Held(r)', pc'[e] = pc[e],
           writer'[e] = writer[e] \/ (~Busy(e) /\ ~Busy(e)'),
           pc[e] = "approved" => rows'[r].verdict = rows[r].verdict
    PROVE  Queues(e)'
  BY DEF Queues, Busy

\* A row that has come to need a human is still carried, and who lets go of one has seen to it.
LEMMA OverlapStep ==
    ASSUME Inv, QueueInv, [Next]_vars,
           \A r \in Requests :
               rows'[r].verdict # rows[r].verdict /\ NeedsHuman(rows'[r].verdict) =>
                   \E d \in Deciders : job'[d].request = r,
           \A d \in Deciders, r \in Requests : job[d].request = r /\ job'[d].request # r =>
               Held(r)' \/ ~NeedsHuman(rows'[r].verdict)
    PROVE  QueueLosesOnlyToOverlap'
<1> SUFFICES ASSUME NEW r \in Requests, NeedsHuman(rows'[r].verdict)
             PROVE  Held(r)' \/ \E d \in Deciders : job'[d].request = r
  BY DEF QueueLosesOnlyToOverlap, Held
<1>1. CASE rows'[r].verdict # rows[r].verdict
  BY <1>1
<1>2. CASE rows'[r].verdict = rows[r].verdict
  <2>1. Held(r) \/ \E d \in Deciders : job[d].request = r
    BY <1>2 DEF QueueInv, QueueLosesOnlyToOverlap, Held
  <2>2. CASE Held(r)
    BY <2>2, HeldStays DEF QueueInv
  <2>3. ASSUME NEW d \in Deciders, job[d].request = r
        PROVE  Held(r)' \/ \E e \in Deciders : job'[e].request = r
    BY <2>3
  <2> QED
    BY <2>1, <2>2, <2>3
<1> QED
  BY <1>1, <1>2

\* A step of one decider that leaves the others' writers and rows alone.
LEMMA QueueOwnStep ==
    ASSUME Inv, QueueInv, [Next]_vars, NEW d \in Deciders, NEW place, NEW j, NEW w,
           pc' = [pc EXCEPT ![d] = place], job' = [job EXCEPT ![d] = j],
           writer' = [writer EXCEPT ![d] = w],
           \A r \in Requests : r # job[d].request => rows'[r].verdict = rows[r].verdict
    PROVE  \A e \in Deciders : e # d => Queues(e)'
<1> SUFFICES ASSUME NEW e \in Deciders, e # d
             PROVE  Queues(e)'
  OBVIOUS
<1>1. job'[e] = job[e] /\ pc'[e] = pc[e] /\ writer'[e] = writer[e]
  BY DEF Inv, JobsTyped, FilesInv
<1>2. PICK r : r = job[e].request
  OBVIOUS
<1>3. job[e].request = r /\ job'[e].request = r
  BY <1>1, <1>2
<1>4. Held(r) => Held(r)'
  BY HeldStays DEF QueueInv
<1>5. ASSUME pc[e] = "approved"
      PROVE  rows'[r].verdict = rows[r].verdict
  <2>1. r \in Requests /\ r # None
    BY <1>3, <1>5, Carries, AuthorityAssumption DEF Inv, JobsTyped, AuthorityAssumption
  <2>2. r # job[d].request
    BY <1>3, <2>1 DEF QueueInv, Apart
  <2> QED
    BY <2>1, <2>2
<1>6. Queues(e)
  BY DEF QueueInv
<1> QED
  BY <1>1, <1>3, <1>4, <1>5, <1>6, QueuesStays

LEMMA OnwardQueues ==
    ASSUME Inv, QueueInv, [Next]_vars, NEW d \in Deciders, NEW place, Onward(d, place),
           pc[d] # "queued", place \notin {"queued", "approved"}
    PROVE  QueueInv'
<1>1. /\ pc' = [pc EXCEPT ![d] = place] /\ job' = [job EXCEPT ![d] = job'[d]]
      /\ job'[d].request = job[d].request
      /\ UNCHANGED <<files, writer, rows>>
  BY DEF Onward, Reading
<1>2. writer' = [writer EXCEPT ![d] = writer[d]] /\ pc'[d] = place
  <2>1. writer' = writer /\ writer = [p \in Processes |-> writer[p]]
    BY <1>1 DEF Inv, FilesInv
  <2>2. writer' = [writer EXCEPT ![d] = writer[d]]
    BY <2>1
  <2>3. pc'[d] = place
    BY <1>1 DEF Inv, JobsTyped
  <2> QED
    BY <2>2, <2>3
<1>3. Queues(d)'
  <2>1. ~Busy(d)
    BY DEF QueueInv, Queues
  <2> QED
    BY <1>1, <1>2, <2>1 DEF Queues, Busy
<1>4. \A e \in Deciders : e # d => Queues(e)'
  BY <1>1, <1>2, QueueOwnStep
<1>5. \A e \in Deciders : job'[e].request = job[e].request
  BY <1>1 DEF Inv, JobsTyped
<1>6. Apart'
  BY <1>5, ApartStays DEF QueueInv
<1>7. QueueLosesOnlyToOverlap'
  BY <1>1, <1>5, OverlapStep
<1> QED
  BY <1>3, <1>4, <1>6, <1>7, GivenStays DEF QueueInv

\* A decider lets go of its request.
LEMMA LeaveQueues ==
    ASSUME Inv, QueueInv, [Next]_vars, NEW d \in Deciders, Leave(d), NEW w, w.at = "none",
           writer' = [writer EXCEPT ![d] = w],
           NEW r, r = job[d].request,
           \A q \in Requests : q # r => rows'[q].verdict = rows[q].verdict,
           \A q \in Requests : rows'[q].verdict # rows[q].verdict => ~NeedsHuman(rows'[q].verdict),
           Held(r)' \/ ~NeedsHuman(rows'[r].verdict)
    PROVE  QueueInv'
<1>1. pc' = [pc EXCEPT ![d] = "idle"] /\ job' = [job EXCEPT ![d] = NoJob]
  BY DEF Leave, Go
<1>2. \A e \in Deciders : e # d => Queues(e)'
  BY <1>1, QueueOwnStep
<1>3. Queues(d)'
  <2>1. pc'[d] = "idle" /\ writer'[d] = w
    <3>1. d \in Processes
      BY DEF Processes
    <3> QED
      BY <1>1, <3>1 DEF Inv, JobsTyped, FilesInv
  <2> QED
    BY <2>1 DEF Queues, Busy
<1>4. \A e \in Deciders : job'[e].request = IF e = d THEN None ELSE job[e].request
  BY <1>1, NoJobIs DEF Inv, JobsTyped
<1>5. Apart'
  BY <1>4, ApartStays DEF QueueInv
<1>6. QueueLosesOnlyToOverlap'
  <2>1. ASSUME NEW e \in Deciders, NEW q \in Requests, job[e].request = q, job'[e].request # q
        PROVE  Held(q)' \/ ~NeedsHuman(rows'[q].verdict)
    <3>1. q = r
      BY <1>4, <2>1
    <3> QED
      BY <3>1
  <2> QED
    BY <2>1, OverlapStep
<1> QED
  BY <1>2, <1>3, <1>5, <1>6, GivenStays DEF QueueInv

LEMMA AskQueues ==
    ASSUME Inv, QueueInv, [Next]_vars, NEW d \in Deciders, Ask(d)
    PROVE  QueueInv'
<1>1. /\ pc[d] = "idle" /\ pc' = [pc EXCEPT ![d] = "asked"]
      /\ job' = [job EXCEPT ![d] = job'[d]]
      /\ \A e \in Deciders : job'[d].request # job[e].request
      /\ UNCHANGED <<files, writer, rows>>
  BY AskIs DEF Inv, Reading
<1>2. writer' = [writer EXCEPT ![d] = writer[d]] /\ pc'[d] = "asked" /\ writer'[d] = writer[d]
  <2>1. writer' = writer /\ writer = [p \in Processes |-> writer[p]]
    BY <1>1 DEF Inv, FilesInv
  <2>2. writer' = [writer EXCEPT ![d] = writer[d]]
    BY <2>1
  <2>3. pc'[d] = "asked"
    BY <1>1 DEF Inv, JobsTyped
  <2> QED
    BY <2>1, <2>2, <2>3
<1>3. Queues(d)'
  <2>1. ~Busy(d)
    BY <1>1 DEF QueueInv, Queues
  <2> QED
    BY <1>2, <2>1 DEF Queues, Busy
<1>4. \A e \in Deciders : e # d => Queues(e)'
  <2>1. \A r \in Requests : rows'[r].verdict = rows[r].verdict
    BY <1>1
  <2>2. pc' = [pc EXCEPT ![d] = "asked"] /\ job' = [job EXCEPT ![d] = job'[d]]
    BY <1>1
  <2>3. writer' = [writer EXCEPT ![d] = writer[d]]
    BY <1>2
  <2> QED
    BY <2>1, <2>2, <2>3, QueueOwnStep
<1>5. \A e \in Deciders : e # d => job'[e] = job[e]
  BY <1>1 DEF Inv, JobsTyped
<1>6. Apart'
  BY <1>1, <1>5 DEF QueueInv, Apart
<1>7. ASSUME NEW e \in Deciders, NEW r \in Requests, job[e].request = r, job'[e].request # r
      PROVE  FALSE
  <2>1. e = d
    BY <1>5, <1>7
  <2>2. job[d].request = None
    BY <1>1 DEF Inv, JobsTyped
  <2> QED
    BY <1>7, <2>1, <2>2, AuthorityAssumption DEF AuthorityAssumption
<1>8. QueueLosesOnlyToOverlap'
  BY <1>1, <1>7, OverlapStep
<1> QED
  BY <1>3, <1>4, <1>6, <1>8, GivenStays DEF QueueInv

LEMMA RecordQueues ==
    ASSUME Inv, QueueInv, [Next]_vars, NEW d \in Deciders, Record(d)
    PROVE  QueueInv'
<1>1. PICK r \in Requests : r = job[d].request
  BY RecordIs DEF Inv
<1>2. /\ pc[d] \in {"ready", "decided"}
      /\ rows' = [rows EXCEPT ![r] = rows'[r]] /\ rows'[r].verdict = job[d].verdict
      /\ \/ job[d].verdict = "APPROVE" /\ pc' = [pc EXCEPT ![d] = "approved"] /\ job' = job
         \/ NeedsHuman(job[d].verdict) /\ pc' = [pc EXCEPT ![d] = "queueing"] /\ job' = job
         \/ job[d].verdict = "REJECT" /\ Leave(d)
      /\ UNCHANGED <<files, writer>>
  BY <1>1, RecordIs DEF Inv
<1>3. \A q \in Requests : q # r => rows'[q].verdict = rows[q].verdict
  BY <1>2 DEF Inv, JobsTyped
<1>4. ~Busy(d)
  BY <1>2 DEF QueueInv, Queues
<1>5. writer' = [writer EXCEPT ![d] = writer[d]] /\ writer'[d] = writer[d]
  <2>1. writer' = writer /\ writer = [p \in Processes |-> writer[p]]
    BY <1>2 DEF Inv, FilesInv
  <2> QED
    BY <2>1
<1>6. ASSUME NEW place \in {"approved", "queueing"}, pc' = [pc EXCEPT ![d] = place], job' = job,
             place = "approved" => job[d].verdict = "APPROVE"
      PROVE  QueueInv'
  <2>1. job' = [job EXCEPT ![d] = job[d]] /\ pc'[d] = place
    BY <1>6 DEF Inv, JobsTyped
  <2>2. \A e \in Deciders : e # d => Queues(e)'
    BY <1>1, <1>3, <1>5, <1>6, <2>1, QueueOwnStep
  <2>3. Queues(d)'
    BY <1>1, <1>2, <1>4, <1>5, <1>6, <2>1 DEF Queues, Busy
  <2>4. Apart'
    BY <1>6 DEF QueueInv, Apart
  <2>5. ASSUME NEW q \in Requests, rows'[q].verdict # rows[q].verdict
        PROVE  \E e \in Deciders : job'[e].request = q
    <3>1. q = r
      BY <1>3, <2>5
    <3> QED
      BY <1>1, <1>6, <3>1
  <2>6. \A e \in Deciders : job'[e] = job[e]
    BY <1>6
  <2>7. QueueLosesOnlyToOverlap'
    BY <2>5, <2>6, OverlapStep
  <2> QED
    BY <2>2, <2>3, <2>4, <2>7, GivenStays DEF QueueInv
<1>7. ASSUME job[d].verdict = "REJECT", Leave(d)
      PROVE  QueueInv'
  <2>1. ~NeedsHuman(rows'[r].verdict)
    BY <1>2, <1>7 DEF NeedsHuman
  <2>2. \A q \in Requests : rows'[q].verdict # rows[q].verdict => ~NeedsHuman(rows'[q].verdict)
    BY <1>3, <2>1
  <2>3. writer[d].at = "none"
    BY <1>4 DEF Busy
  <2> QED
    BY <1>1, <1>3, <1>5, <1>7, <2>1, <2>2, <2>3, LeaveQueues
<1> QED
  BY <1>2, <1>6, <1>7

LEMMA EnqueueQueues ==
    ASSUME Inv, QueueInv, [Next]_vars, NEW d \in Deciders, Enqueue(d)
    PROVE  QueueInv'
<1> DEFINE r == job[d].request
           copy == Put(Load("review"), r, "pending")
           w == [at |-> "loaded", file |-> "review", seen |-> Load("review"), copy |-> copy]
<1>1. /\ pc[d] = "queueing" /\ pc' = [pc EXCEPT ![d] = "queued"]
      /\ writer' = [writer EXCEPT ![d] = w]
      /\ UNCHANGED <<files, rows, job>>
  BY DEF Enqueue, Begin, Go
<1>2. w.at = "loaded" /\ w.file = "review" /\ w.copy = copy
  OBVIOUS
<1>3. r \in DOMAIN copy
  BY DEF Put
<1> HIDE DEF w, copy
<1>4. writer'[d] = w /\ pc'[d] = "queued"
  <2>1. d \in Processes
    BY DEF Processes
  <2> QED
    BY <1>1, <2>1 DEF Inv, FilesInv, JobsTyped
<1>5. job' = [job EXCEPT ![d] = job[d]] /\ job'[d].request = r
  BY <1>1 DEF Inv, JobsTyped
<1>6. \A e \in Deciders : e # d => Queues(e)'
  BY <1>1, <1>5, QueueOwnStep
<1>7. Queues(d)'
  BY <1>2, <1>3, <1>4, <1>5 DEF Queues, Busy
<1>8. Apart'
  BY <1>1 DEF QueueInv, Apart
<1>9. \A e \in Deciders : job'[e] = job[e]
  BY <1>1
<1>10. QueueLosesOnlyToOverlap'
  BY <1>1, <1>9, OverlapStep
<1> QED
  BY <1>6, <1>7, <1>8, <1>10, GivenStays DEF QueueInv

LEMMA CrashQueues ==
    ASSUME Inv, QueueInv, [Next]_vars, NEW d \in Deciders, CrashDecider(d)
    PROVE  QueueInv'
<1>1. PICK r : r = job[d].request
  OBVIOUS
<1>2. /\ writer' = [writer EXCEPT ![d] = NotWriting] /\ NotWriting.at = "none"
      /\ gone' = gone \cup {r} /\ Leave(d) /\ rows' = rows
  BY <1>1, CrashIs DEF NotWriting
<1>3. Held(r)'
  BY <1>2 DEF Held
<1>4. \A q \in Requests : rows'[q].verdict = rows[q].verdict
  BY <1>2
<1> QED
  BY <1>1, <1>2, <1>3, <1>4, LeaveQueues

LEMMA ThinksQueues ==
    ASSUME Inv, QueueInv, [Next]_vars, NEW d \in Deciders, Thinks(d)
    PROVE  QueueInv'
<1>0. JobsTyped /\ FilesInv /\ Queues(d)
  BY DEF QueueInv, Inv
<1>1. CASE Ask(d)
  BY <1>1, AskQueues
<1>2. CASE FindIntent(d)
  <2>1. Onward(d, pc'[d]) /\ pc'[d] \in {"lapsed", "looked"} /\ pc[d] = "asked"
    BY <1>0, <1>2, FindIntentOnward
  <2> QED
    BY <2>1, OnwardQueues
<1>3. CASE FindLapsed(d) \/ WeighIntent(d)
  <2>1. PICK place \in {"looked", "weighed"} : Onward(d, place) /\ pc[d] # "queued"
    BY <1>0, <1>3, FindLapsedOnward, WeighIntentOnward
  <2> QED
    BY <2>1, OnwardQueues
<1>4. CASE FindIdentity(d) \/ FindParent(d)
  <2>1. PICK place \in {"delegated", "decided"} : Onward(d, place) /\ pc[d] # "queued"
    BY <1>0, <1>4, FindIdentityOnward, FindParentOnward
  <2> QED
    BY <2>1, OnwardQueues
<1>5. CASE LookAgain(d) \/ LookForLapsedAgain(d)
  <2>1. /\ Onward(d, pc'[d]) /\ pc'[d] \in {"again", "ready"} /\ pc[d] \in {"decided", "again"}
    BY <1>0, <1>5, LookAgainOnward
  <2> QED
    BY <2>1, OnwardQueues
<1>6. CASE Record(d)
  BY <1>6, RecordQueues
<1>7. CASE Queued(d)
  <2>1. /\ pc[d] = "queued" /\ writer[d].at = "none" /\ Leave(d)
        /\ writer' = writer /\ rows' = rows
    BY <1>7 DEF Queued, Reading
  <2>2. writer' = [writer EXCEPT ![d] = writer[d]]
    <3>1. writer = [p \in Processes |-> writer[p]]
      BY <1>0 DEF FilesInv
    <3> QED
      BY <2>1, <3>1
  <2>3. PICK r : r = job[d].request
    OBVIOUS
  <2>4. Held(r)
    BY <1>0, <2>1, <2>3 DEF Queues, Busy
  <2>5. Held(r)'
    BY <2>4, HeldStays DEF QueueInv
  <2>6. \A q \in Requests : rows'[q].verdict = rows[q].verdict
    BY <2>1
  <2> QED
    BY <2>1, <2>2, <2>3, <2>5, <2>6, LeaveQueues
<1>8. CASE Settle(d)
  <2>1. /\ pc[d] = "approved" /\ Leave(d) /\ writer' = writer
        /\ \A q \in Requests : rows'[q].verdict = rows[q].verdict
    BY <1>0, <1>8, SettleIs
  <2>2. writer' = [writer EXCEPT ![d] = writer[d]]
    <3>1. writer = [p \in Processes |-> writer[p]]
      BY <1>0 DEF FilesInv
    <3> QED
      BY <2>1, <3>1
  <2>3. PICK r \in Requests : r = job[d].request
    BY <1>0, <2>1, Carries
  <2>4. ~NeedsHuman(rows'[r].verdict)
    BY <1>0, <2>1, <2>3 DEF Queues, NeedsHuman
  <2>5. writer[d].at = "none"
    BY <1>0, <2>1 DEF Queues, Busy
  <2> QED
    BY <2>1, <2>2, <2>3, <2>4, <2>5, LeaveQueues
<1> QED
  BY <1>1, <1>2, <1>3, <1>4, <1>5, <1>6, <1>7, <1>8 DEF Thinks

\* A step that leaves the deciders where they are.
LEMMA StillQueues ==
    ASSUME Inv, QueueInv, [Next]_vars, UNCHANGED <<rows, pc>>,
           \A e \in Deciders : job'[e].request = job[e].request,
           \A e \in Deciders : Queues(e)'
    PROVE  QueueInv'
<1>1. Apart'
  BY DEF QueueInv, Apart
<1>2. QueueLosesOnlyToOverlap'
  BY OverlapStep
<1> QED
  BY <1>1, <1>2, GivenStays DEF QueueInv

LEMMA WriteQueues ==
    ASSUME Inv, QueueInv, [Next]_vars, NEW p \in Processes, Write(p)
    PROVE  QueueInv'
<1>1. UNCHANGED <<rows, pc>> /\ \A e \in Deciders : job'[e].request = job[e].request
  BY WriteJobs DEF Inv
<1>2. ASSUME NEW e \in Deciders
      PROVE  Queues(e)'
  <2>1. PICK r : r = job[e].request
    OBVIOUS
  <2>2. Held(r) => Held(r)'
    BY HeldStays DEF QueueInv
  <2>3. e \in Processes /\ Queues(e)
    BY DEF Processes, QueueInv
  <2>4. CASE e # p
    <3>1. writer'[e] = writer[e]
      BY <2>3, <2>4, WriteIs DEF Inv, FilesInv
    <3> QED
      BY <1>1, <2>1, <2>2, <2>3, <3>1, QueuesStays
  <2>5. CASE e = p
    <3>1. writer'[e] = NotWriting
      BY <2>3, <2>5, WriteIs DEF Inv, FilesInv
    <3>2. ~Busy(e)'
      BY <3>1 DEF Busy, NotWriting
    <3>3. pc[e] = "queued" /\ writer[e].file = "review" /\ r \in DOMAIN writer[e].copy
      BY <2>1, <2>3, <2>5, WriteIs DEF Queues
    <3>4. Held(r)'
      <4>1. CASE files' = [files EXCEPT !["review"] = writer[e].copy]
        <5>1. files'["review"] = writer[e].copy
          BY <4>1 DEF Inv, FilesInv, Files
        <5> QED
          BY <3>3, <5>1 DEF Held
      <4>2. CASE lost' = lost \cup {<<"review", n>> : n \in DOMAIN writer[e].copy}
        BY <3>3, <4>2 DEF Held
      <4> QED
        BY <2>5, <3>3, <4>1, <4>2, WriteIs
    <3>5. job'[e].request = r /\ pc'[e] = "queued"
      BY <1>1, <2>1, <3>3
    <3> QED
      BY <3>2, <3>4, <3>5 DEF Queues
  <2> QED
    BY <2>4, <2>5
<1> QED
  BY <1>1, <1>2, StillQueues

LEMMA QueueStep ==
    ASSUME Inv, QueueInv, [Next]_vars
    PROVE  QueueInv'
<1>1. ASSUME UNCHANGED <<rows, pc, job>>,
             \A e \in Deciders : writer'[e] = writer[e]
      PROVE  QueueInv'
  <2>1. ASSUME NEW e \in Deciders
        PROVE  Queues(e)'
    <3>1. PICK r : r = job[e].request
      OBVIOUS
    <3>2. Held(r) => Held(r)'
      BY HeldStays DEF QueueInv
    <3>3. Queues(e)
      BY DEF QueueInv
    <3> QED
      BY <1>1, <3>1, <3>2, <3>3, QueuesStays
  <2> QED
    BY <1>1, <2>1, StillQueues
<1>2. ASSUME NEW o \in Operators, Operate(o) \/ CrashOperator(o)
      PROVE  QueueInv'
  <2>1. UNCHANGED <<rows, pc, job>>
    BY <1>2, OperateIs DEF CrashOperator
  <2>2. \E w : writer' = [writer EXCEPT ![o] = w]
    BY <1>2, OperateIs DEF CrashOperator
  <2>3. \A e \in Deciders : e # o /\ e \in Processes
    BY AuthorityAssumption DEF AuthorityAssumption, Processes
  <2>4. \A e \in Deciders : writer'[e] = writer[e]
    BY <2>2, <2>3 DEF Inv, FilesInv
  <2> QED
    BY <1>1, <2>1, <2>4
<1>3. ASSUME NEW p \in Processes, Truncate(p)
      PROVE  QueueInv'
  <2>1. /\ writer' = [writer EXCEPT ![p].at = "open"] /\ writer[p].at = "loaded"
        /\ UNCHANGED <<rows, pc, job>>
    BY <1>3 DEF Truncate
  <2>2. writer[p] \in WriterType(writer[p])
    BY DEF Inv, FilesInv
  <2>3. ASSUME NEW e \in Deciders
        PROVE  Queues(e)'
    <3>1. PICK r : r = job[e].request
      OBVIOUS
    <3>2. Held(r) => Held(r)'
      BY HeldStays DEF QueueInv
    <3>3. e \in Processes /\ Queues(e)
      BY DEF Processes, QueueInv
    <3>4. CASE e # p
      <4>1. writer'[e] = writer[e]
        BY <2>1, <3>3, <3>4 DEF Inv, FilesInv
      <4> QED
        BY <2>1, <3>1, <3>2, <3>3, <4>1, QueuesStays
    <3>5. CASE e = p
      <4>1. writer'[e] = [writer[e] EXCEPT !.at = "open"]
        BY <2>1, <3>3, <3>5 DEF Inv, FilesInv
      <4>2. writer'[e].at = "open" /\ writer'[e].file = writer[e].file
            /\ writer'[e].copy = writer[e].copy
        BY <2>2, <3>5, <4>1 DEF WriterType
      <4> QED
        BY <2>1, <3>3, <3>5, <4>2 DEF Queues, Busy
    <3> QED
      BY <3>4, <3>5
  <2> QED
    BY <2>1, <2>3, StillQueues
<1>4. CASE Tick \/ UNCHANGED vars
  BY <1>1, <1>4 DEF Tick, vars
<1> QED
  BY <1>2, <1>3, <1>4, StepKinds, ThinksQueues, WriteQueues, EnqueueQueues, CrashQueues

LEMMA QueueInit == Init => QueueInv
<1> SUFFICES ASSUME Init
             PROVE  QueueInv
  OBVIOUS
<1>1. \A d \in Deciders : job[d].request = None /\ pc[d] = "idle"
  BY NoJobIs DEF Init
<1>2. \A d \in Deciders : ~Busy(d)
  BY DEF Init, Busy, NotWriting, Processes
<1>3. \A r \in Requests : ~NeedsHuman(rows[r].verdict)
  BY DEF Init, NoRow, NeedsHuman, None
<1>4. DOMAIN files["review"] = {}
  BY DEF Init, Files, Empty
<1> QED
  BY <1>1, <1>2, <1>3, <1>4 DEF QueueInv, Apart, Given, Queues, QueueLosesOnlyToOverlap

\* Whatever interleaves and crashes, a request that needs a human leaves the queue in no way but
\* by an answer, by the crash of its decider, or under a copy that had not seen it.
THEOREM AuthorityQueueLosesOnlyToOverlap == Spec => []QueueLosesOnlyToOverlap
<1>1. Inv /\ QueueInv /\ [Next]_vars => QueueInv'
  BY QueueStep
<1>2. QueueInv => QueueLosesOnlyToOverlap
  BY DEF QueueInv
<1> QED
  BY <1>1, <1>2, InvInit, InvStep, QueueInit, PTL DEF Spec

-----------------------------------------------------------------------------
(***************************************************************************)
(* An intent that lapsed is still found.                                   *)
(***************************************************************************)
\* Among finitely many intents one was declared last: as many as there are ids were declared, and
\* the distance from that to when an intent was has a least value.
LEMMA NewestIs ==
    ASSUME NEW f, IntentFile(f), NEW S \in SUBSET DOMAIN f, S # {}
    PROVE  Newest(f, S) \in S
<1> DEFINE n == Cardinality(IntentIds)
           T == {n - f[i].created : i \in S}
           R == {p \in Nat \X Nat : p[1] < p[2]}
<1>1. n \in Nat
  BY AuthorityAssumption, FS_CardinalityType DEF AuthorityAssumption
<1>2. \A i \in S : f[i].created \in Nat /\ f[i].created <= n
  <2>1. \A i \in S : f[i] \in Intent /\ f[i].created <= n
    BY DEF IntentFile
  <2> QED
    BY <2>1 DEF Intent
<1> HIDE DEF n
<1>3. T \subseteq Nat /\ T # {}
  BY <1>1, <1>2
<1>4. IsWellFoundedOn(R, Nat)
  <2>1. OpToRel(<, Nat) = R
    BY DEF OpToRel
  <2> QED
    BY <2>1, NatLessThanWellFounded
<1> HIDE DEF R, T
<1>5. PICK x \in T : \A y \in T : <<y, x>> \notin R
  BY <1>3, <1>4, WFMin
<1>6. PICK m \in S : x = n - f[m].created
  BY DEF T
<1>7. ASSUME NEW i \in S
      PROVE  f[i].created <= f[m].created
  <2>1. n - f[i].created \in T
    BY DEF T
  <2>2. n - f[i].created \in Nat /\ n - f[m].created \in Nat
    BY <1>1, <1>2
  <2>3. <<n - f[i].created, n - f[m].created>> \notin R
    BY <2>1, <1>5, <1>6
  <2>4. ~(n - f[i].created < n - f[m].created)
    BY <2>2, <2>3 DEF R
  <2> QED
    BY <2>4, <1>1, <1>2
<1>8. \E k \in S : \A i \in S : f[i].created <= f[k].created
  BY <1>7
<1> QED
  BY <1>8 DEF Newest

Overwritten == \E i \in IntentIds : <<"intents", i>> \in lost

\* That somebody once declared what an agent was sent to do is still on record.
Known(a) ==
    (\E e \in DOMAIN files["intents"] : files["intents"][e].agent = a) \/ Overwritten

AfterIntent == {"looked", "weighed", "delegated"} \cup AfterVerdict

Governs(d) ==
    /\ job[d].hadIntent => Known(AgentOf[d])
    /\ (pc[d] \in AfterIntent /\ job[d].hadIntent /\ job[d].named = None /\ job[d].intent = None) =>
           job[d].sawTorn \/ Overwritten

GovernsInv == LapsedIsNotUngoverned /\ \A d \in Deciders : Governs(d)

LEMMA OverwrittenStays ==
    ASSUME [Next]_vars, Overwritten
    PROVE  Overwritten'
  BY HistoriesGrow DEF Overwritten

LEMMA KnownStays ==
    ASSUME Inv, [Next]_vars, NEW a, Known(a)
    PROVE  Known(a)'
<1>1. CASE Overwritten
  BY <1>1, OverwrittenStays DEF Known
<1>2. CASE files' = files
  BY <1>2, OverwrittenStays DEF Known
<1>3. CASE files' # files /\ ~Overwritten
  <2>1. PICK e \in DOMAIN files["intents"] : files["intents"][e].agent = a
    BY <1>3 DEF Known
  <2>2. PICK p \in Processes : Write(p)
    BY <1>3, OnlyWrites
  <2>3. /\ files' = [files EXCEPT ![writer[p].file] = writer[p].copy]
        /\ lost' = lost \cup Unseen(writer[p].file, writer[p].seen)
        /\ Sound(writer[p].file, writer[p].seen, writer[p].copy)
    BY <1>3, <2>2, WriteIs
  <2>4. CASE writer[p].file # "intents"
    <3>1. files'["intents"] = files["intents"]
      BY <2>3, <2>4 DEF Inv, FilesInv
    <3> QED
      BY <2>1, <3>1 DEF Known
  <2>5. CASE writer[p].file = "intents"
    <3> DEFINE seen == writer[p].seen
               copy == writer[p].copy
    <3>1. files'["intents"] = copy
      BY <2>3, <2>5 DEF Inv, FilesInv, Files
    <3>2. lost' = lost \cup Unseen("intents", seen) /\ AgentsStay(seen, copy)
      BY <2>3, <2>5 DEF Sound
    <3> HIDE DEF seen, copy
    <3>3. CASE e \in DOMAIN seen /\ seen[e] = files["intents"][e]
      <4>1. e \in DOMAIN copy /\ copy[e].agent = a
        BY <2>1, <3>2, <3>3 DEF AgentsStay
      <4> QED
        BY <3>1, <4>1 DEF Known
    <3>4. CASE ~(e \in DOMAIN seen /\ seen[e] = files["intents"][e])
      <4>1. <<"intents", e>> \in lost'
        BY <3>2, <3>4 DEF Unseen
      <4>2. e \in IntentIds
        BY DEF Inv, FilesInv, Whole, IntentFile, Files
      <4> QED
        BY <4>1, <4>2 DEF Known, Overwritten
    <3> QED
      BY <3>3, <3>4
  <2> QED
    BY <2>4, <2>5
<1> QED
  BY <1>1, <1>2, <1>3

\* A look-up of the latest intent fails only when there is none, or the file is torn.
LEMMA LatestIs ==
    ASSUME Inv, NEW a, ~torn["intents"], LatestFor(Load("intents"), a) = None
    PROVE  \A e \in DOMAIN files["intents"] : files["intents"][e].agent # a
<1> DEFINE f == files["intents"]
           S == {i \in DOMAIN f : f[i].agent = a}
<1>1. IntentFile(f)
  BY DEF Inv, FilesInv, Whole, Files
<1>2. LatestFor(Load("intents"), a) = Newest(f, S)
  BY DEF LatestFor, Load
<1>3. S \in SUBSET DOMAIN f /\ S \subseteq IntentIds
  BY <1>1 DEF IntentFile
<1> HIDE DEF f
<1>4. S = {}
  <2> SUFFICES ASSUME S # {}
               PROVE  FALSE
    OBVIOUS
  <2>1. Newest(f, S) \in S
    BY <1>1, <1>3, NewestIs
  <2> HIDE DEF S
  <2> QED
    BY <1>2, <1>3, <2>1, AuthorityAssumption DEF AuthorityAssumption
<1> QED
  BY <1>4 DEF f

LEMMA GovernsStays ==
    ASSUME Inv, [Next]_vars, NEW e \in Deciders, Governs(e), pc'[e] = pc[e],
           job'[e].hadIntent = job[e].hadIntent, job'[e].named = job[e].named,
           job'[e].intent = job[e].intent, job'[e].sawTorn = job[e].sawTorn
    PROVE  Governs(e)'
<1>1. PICK a : a = AgentOf[e]
  OBVIOUS
<1>2. Known(a) => Known(a)'
  BY KnownStays
<1>3. Overwritten => Overwritten'
  BY OverwrittenStays
<1> QED
  BY <1>1, <1>2, <1>3 DEF Governs

\* A step of one decider; the others govern as before.
LEMMA GovernsOwnStep ==
    ASSUME Inv, GovernsInv, [Next]_vars, NEW d \in Deciders, NEW place, NEW j,
           pc' = [pc EXCEPT ![d] = place], job' = [job EXCEPT ![d] = j], Governs(d)'
    PROVE  \A e \in Deciders : Governs(e)'
<1> SUFFICES ASSUME NEW e \in Deciders, e # d
             PROVE  Governs(e)'
  OBVIOUS
<1>1. job'[e] = job[e] /\ pc'[e] = pc[e]
  BY DEF Inv, JobsTyped
<1>2. Governs(e)
  BY DEF GovernsInv
<1> QED
  BY <1>1, <1>2, GovernsStays

\* Rows that do not change, or only in what was settled.
LEMMA RowsGovern ==
    ASSUME GovernsInv, [Next]_vars, NEW r \in Requests,
           rows'[r].hadIntent = rows[r].hadIntent, rows'[r].sawTorn = rows[r].sawTorn,
           rows'[r].named = rows[r].named, rows'[r].under = rows[r].under
    PROVE  (rows'[r].hadIntent /\ rows'[r].named = None /\ rows'[r].under = None) =>
               rows'[r].sawTorn \/ Overwritten'
<1>1. Overwritten => Overwritten'
  BY OverwrittenStays
<1> QED
  BY <1>1 DEF GovernsInv, LapsedIsNotUngoverned, Overwritten

LEMMA OnwardGoverns ==
    ASSUME Inv, GovernsInv, [Next]_vars, NEW d \in Deciders, NEW place, Onward(d, place),
           place \in AfterIntent =>
               \/ pc[d] \in AfterIntent
               \/ job'[d].named = None /\ job'[d].intent = None /\ job'[d].hadIntent =>
                      job'[d].sawTorn \/ Overwritten
    PROVE  GovernsInv'
<1>1. /\ pc' = [pc EXCEPT ![d] = place] /\ job' = [job EXCEPT ![d] = job'[d]]
      /\ job'[d].named = job[d].named /\ job'[d].hadIntent = job[d].hadIntent
      /\ job[d].sawTorn => job'[d].sawTorn
      /\ job'[d].intent = None => job[d].intent = None
      /\ UNCHANGED <<files, lost, rows>>
  BY DEF Onward, Reading
<1>2. pc'[d] = place
  BY <1>1 DEF Inv, JobsTyped
<1>3. Governs(d)
  BY DEF GovernsInv
<1>4. Governs(d)'
  BY <1>1, <1>2, <1>3 DEF Governs, Known, Overwritten
<1>5. LapsedIsNotUngoverned'
  BY <1>1 DEF GovernsInv, LapsedIsNotUngoverned
<1> QED
  BY <1>1, <1>4, <1>5, GovernsOwnStep DEF GovernsInv

\* A decider that has nothing more to do is governed by nothing.
LEMMA LeaveGoverns ==
    ASSUME Inv, GovernsInv, [Next]_vars, NEW d \in Deciders, Leave(d), LapsedIsNotUngoverned'
    PROVE  GovernsInv'
<1>1. pc' = [pc EXCEPT ![d] = "idle"] /\ job' = [job EXCEPT ![d] = NoJob]
  BY DEF Leave, Go
<1>2. job'[d] = NoJob
  BY <1>1 DEF Inv, JobsTyped
<1>3. Governs(d)'
  BY <1>2, NoJobIs DEF Governs
<1> QED
  BY <1>1, <1>3, GovernsOwnStep DEF GovernsInv

\* A step that changes no row.
LEMMA SameRowsGovern ==
    ASSUME GovernsInv, [Next]_vars, rows' = rows
    PROVE  LapsedIsNotUngoverned'
<1>1. Overwritten => Overwritten'
  BY OverwrittenStays
<1> QED
  BY <1>1 DEF GovernsInv, LapsedIsNotUngoverned, Overwritten

LEMMA RecordGoverns ==
    ASSUME Inv, GovernsInv, [Next]_vars, NEW d \in Deciders, Record(d)
    PROVE  GovernsInv'
<1>1. PICK r \in Requests : r = job[d].request
  BY RecordIs DEF Inv
<1>2. /\ pc[d] \in {"ready", "decided"}
      /\ rows' = [rows EXCEPT ![r] = rows'[r]]
      /\ rows'[r].hadIntent = job[d].hadIntent /\ rows'[r].sawTorn = job[d].sawTorn
      /\ rows'[r].named = job[d].named /\ rows'[r].under = job[d].intent
      /\ \/ pc' = [pc EXCEPT ![d] = "approved"] /\ job' = job
         \/ pc' = [pc EXCEPT ![d] = "queueing"] /\ job' = job
         \/ Leave(d)
      /\ UNCHANGED <<files, lost>>
  BY <1>1, RecordIs DEF Inv
<1>3. Governs(d)
  BY DEF GovernsInv
<1>4. job[d].hadIntent /\ job[d].named = None /\ job[d].intent = None =>
          job[d].sawTorn \/ Overwritten
  BY <1>2, <1>3 DEF Governs, AfterIntent, AfterVerdict
<1>5. Overwritten => Overwritten'
  BY OverwrittenStays
<1>6. ASSUME NEW q \in Requests, rows'[q].hadIntent, rows'[q].named = None, rows'[q].under = None
      PROVE  rows'[q].sawTorn \/ Overwritten'
  <2>1. CASE q = r
    BY <1>2, <1>4, <1>5, <1>6, <2>1
  <2>2. CASE q # r
    <3>1. rows'[q] = rows[q]
      BY <1>2, <2>2 DEF Inv, JobsTyped
    <3> QED
      BY <1>6, <3>1, RowsGovern
  <2> QED
    BY <2>1, <2>2
<1>7. LapsedIsNotUngoverned'
  BY <1>6 DEF LapsedIsNotUngoverned, Overwritten
<1>8. ASSUME NEW place \in {"approved", "queueing"}, pc' = [pc EXCEPT ![d] = place], job' = job
      PROVE  GovernsInv'
  <2>1. job' = [job EXCEPT ![d] = job[d]] /\ job'[d] = job[d]
    BY <1>8 DEF Inv, JobsTyped
  <2>2. Governs(d)'
    BY <1>2, <1>3, <1>4, <2>1 DEF Governs, Known, Overwritten
  <2> QED
    BY <1>7, <1>8, <2>1, <2>2, GovernsOwnStep DEF GovernsInv
<1> QED
  BY <1>2, <1>7, <1>8, LeaveGoverns

LEMMA ThinksGoverns ==
    ASSUME Inv, GovernsInv, [Next]_vars, NEW d \in Deciders, Thinks(d)
    PROVE  GovernsInv'
<1>0. Governs(d) /\ JobsTyped /\ FilesInv
  BY DEF GovernsInv, Inv
<1>1. CASE Ask(d)
  <2>1. /\ pc' = [pc EXCEPT ![d] = "asked"] /\ job' = [job EXCEPT ![d] = job'[d]]
        /\ UNCHANGED <<files, lost, rows>>
        /\ job'[d].hadIntent => \E e \in DOMAIN files["intents"] :
                                    files["intents"][e].agent = AgentOf[d]
    BY <1>0, <1>1, AskIs DEF Reading
  <2>2. pc'[d] = "asked"
    BY <1>0, <2>1 DEF JobsTyped
  <2>3. Governs(d)'
    BY <2>1, <2>2 DEF Governs, Known, AfterIntent, AfterVerdict
  <2> QED
    BY <2>1, <2>3, SameRowsGovern, GovernsOwnStep DEF GovernsInv
<1>2. CASE FindIntent(d)
  <2>1. /\ Onward(d, pc'[d]) /\ pc'[d] \in {"lapsed", "looked"}
        /\ pc'[d] = "looked" /\ job[d].named = None => job'[d].intent # None
    BY <1>0, <1>2, FindIntentOnward
  <2>2. job'[d].named = job[d].named
    BY <2>1 DEF Onward
  <2> QED
    BY <2>1, <2>2, OnwardGoverns DEF AfterIntent, AfterVerdict
<1>3. CASE FindLapsed(d)
  <2>1. PICK i : i = LatestFor(Load("intents"), AgentOf[d])
    OBVIOUS
  <2>2. /\ Onward(d, "looked")
        /\ IF i = None THEN torn["intents"] => job'[d].sawTorn ELSE job'[d].intent = i
    BY <1>0, <1>3, <2>1, FindLapsedOnward
  <2>3. job'[d].hadIntent = job[d].hadIntent
    BY <2>2 DEF Onward
  <2>4. ASSUME job'[d].intent = None, job'[d].hadIntent, ~job'[d].sawTorn
        PROVE  Overwritten
    <3>1. i = None /\ ~torn["intents"]
      BY <2>2, <2>4
    <3>2. \A e \in DOMAIN files["intents"] : files["intents"][e].agent # AgentOf[d]
      BY <2>1, <3>1, LatestIs
    <3> QED
      BY <1>0, <2>3, <2>4, <3>2 DEF Governs, Known
  <2> QED
    BY <2>2, <2>4, OnwardGoverns
<1>4. CASE WeighIntent(d) \/ FindIdentity(d) \/ FindParent(d)
  <2>1. /\ \E place \in {"weighed", "delegated", "decided"} : Onward(d, place)
        /\ pc[d] \in {"looked", "weighed", "delegated"}
    BY <1>0, <1>4, WeighIntentOnward, FindIdentityOnward, FindParentOnward
  <2>2. pc[d] \in AfterIntent
    BY <2>1 DEF AfterIntent
  <2> QED
    BY <2>1, <2>2, OnwardGoverns
<1>5. CASE LookAgain(d) \/ LookForLapsedAgain(d)
  <2>1. Onward(d, pc'[d]) /\ pc[d] \in {"decided", "again"}
    BY <1>0, <1>5, LookAgainOnward
  <2>2. pc[d] \in AfterIntent
    BY <2>1 DEF AfterIntent, AfterVerdict
  <2> QED
    BY <2>1, <2>2, OnwardGoverns
<1>6. CASE Record(d)
  BY <1>6, RecordGoverns
<1>7. CASE Queued(d)
  <2>1. Leave(d) /\ rows' = rows
    BY <1>7 DEF Queued, Reading
  <2> QED
    BY <2>1, SameRowsGovern, LeaveGoverns
<1>8. CASE Settle(d)
  <2>1. /\ Leave(d)
        /\ \A r \in Requests : /\ rows'[r].hadIntent = rows[r].hadIntent
                               /\ rows'[r].sawTorn = rows[r].sawTorn
                               /\ rows'[r].named = rows[r].named
                               /\ rows'[r].under = rows[r].under
    BY <1>0, <1>8, SettleIs
  <2>2. LapsedIsNotUngoverned'
    BY <2>1, RowsGovern DEF LapsedIsNotUngoverned, Overwritten
  <2> QED
    BY <2>1, <2>2, LeaveGoverns
<1> QED
  BY <1>1, <1>2, <1>3, <1>4, <1>5, <1>6, <1>7, <1>8 DEF Thinks

LEMMA GovernsStep ==
    ASSUME Inv, GovernsInv, [Next]_vars
    PROVE  GovernsInv'
<1>1. ASSUME UNCHANGED <<rows, pc>>,
             \A e \in Deciders : /\ job'[e].hadIntent = job[e].hadIntent
                                 /\ job'[e].named = job[e].named
                                 /\ job'[e].intent = job[e].intent
                                 /\ job'[e].sawTorn = job[e].sawTorn
      PROVE  GovernsInv'
  <2>1. \A e \in Deciders : Governs(e)'
    BY <1>1, GovernsStays DEF GovernsInv
  <2> QED
    BY <1>1, <2>1, SameRowsGovern DEF GovernsInv
<1>2. ASSUME NEW o \in Operators, Operate(o) \/ CrashOperator(o)
      PROVE  GovernsInv'
  <2>1. UNCHANGED <<rows, pc, job>>
    BY <1>2, OperateIs DEF CrashOperator
  <2> QED
    BY <1>1, <2>1
<1>3. ASSUME NEW p \in Processes, Truncate(p)
      PROVE  GovernsInv'
  <2>1. UNCHANGED <<rows, pc, job>>
    BY <1>3 DEF Truncate
  <2> QED
    BY <1>1, <2>1
<1>4. ASSUME NEW p \in Processes, Write(p)
      PROVE  GovernsInv'
  <2>1. /\ UNCHANGED <<rows, pc>>
        /\ \A e \in Deciders : /\ job'[e].hadIntent = job[e].hadIntent
                               /\ job'[e].named = job[e].named
                               /\ job'[e].intent = job[e].intent
                               /\ job'[e].sawTorn = job[e].sawTorn
    BY <1>4, WriteJobs DEF Inv
  <2> QED
    BY <1>1, <2>1
<1>5. CASE Tick \/ UNCHANGED vars
  <2>1. UNCHANGED <<rows, pc, job>>
    BY <1>5 DEF Tick, vars
  <2> QED
    BY <1>1, <2>1
<1>6. ASSUME NEW d \in Deciders, Enqueue(d)
      PROVE  GovernsInv'
  <2>1. /\ pc[d] = "queueing" /\ pc' = [pc EXCEPT ![d] = "queued"]
        /\ UNCHANGED <<files, lost, rows, job>>
    BY <1>6 DEF Enqueue, Go
  <2>2. job' = [job EXCEPT ![d] = job[d]] /\ job'[d] = job[d]
    BY <2>1 DEF Inv, JobsTyped
  <2>3. Governs(d) /\ pc[d] \in AfterIntent
    BY <2>1 DEF GovernsInv, AfterIntent, AfterVerdict
  <2>4. Governs(d)'
    BY <2>1, <2>2, <2>3 DEF Governs, Known, Overwritten
  <2> QED
    BY <2>1, <2>2, <2>4, SameRowsGovern, GovernsOwnStep DEF GovernsInv
<1>7. ASSUME NEW d \in Deciders, CrashDecider(d)
      PROVE  GovernsInv'
  <2>1. Leave(d) /\ rows' = rows
    BY <1>7, CrashIs
  <2> QED
    BY <2>1, SameRowsGovern, LeaveGoverns
<1> QED
  BY <1>2, <1>3, <1>4, <1>5, <1>6, <1>7, StepKinds, ThinksGoverns

\* An agent that had declared what it was sent to do when it asked is never decided as one that
\* declared nothing, whatever lapses, is revoked or is declared between the two look-ups of
\* intent_for, unless it named an intent, a file was met torn or a declaration was overwritten.
THEOREM AuthorityLapsedIsNotUngoverned == Spec => []LapsedIsNotUngoverned
<1>1. Init => GovernsInv
  <2> SUFFICES ASSUME Init
               PROVE  GovernsInv
    OBVIOUS
  <2>1. \A d \in Deciders : ~job[d].hadIntent
    BY NoJobIs DEF Init
  <2>2. \A r \in Requests : ~rows[r].hadIntent
    BY DEF Init, NoRow
  <2> QED
    BY <2>1, <2>2 DEF GovernsInv, Governs, LapsedIsNotUngoverned
<1>2. Inv /\ GovernsInv /\ [Next]_vars => GovernsInv'
  BY GovernsStep
<1>3. GovernsInv => LapsedIsNotUngoverned
  BY DEF GovernsInv
<1> QED
  BY <1>1, <1>2, <1>3, InvInit, InvStep, PTL DEF Spec

-----------------------------------------------------------------------------
(***************************************************************************)
(* What is spent under an intent.                                          *)
(***************************************************************************)
\* What has settled under the intent it was decided under, ...
Straight(i) == {r \in SettledRows : rows[r].intent = i /\ rows[r].under = i}

\* ... each payment up to what was quoted for it.
AsQuoted(w) == Paid(w) - Overcharge(w)
QuotedOf(S) == SumFunctionOnSet([r \in Requests |-> AsQuoted(rows[r])], S)

Cap(i) == IF ceiling[i] = NotDeclared THEN 0 ELSE ceiling[i]

WithinMandate(i) == QuotedOf(Straight(i)) + AtStake(i) <= Cap(i) + overlap[i]

\* A decider knows what was declared for the intent it found, and its row says what it asked.
Mandated(d) ==
    job[d].intent # None => /\ job[d].intent \in IntentIds
                            /\ ceiling[job[d].intent] # NotDeclared
                            /\ job[d].max = ceiling[job[d].intent]

Backed(d) ==
    /\ pc[d] # "idle" => job[d].amount \in Amounts
    /\ Mandated(d)
    /\ pc[d] = "approved" => /\ job[d].verdict = "APPROVE"
                             /\ rows[job[d].request].amount = job[d].amount
                             /\ rows[job[d].request].under = job[d].intent
                             /\ ~rows[job[d].request].settled

FundsInv == /\ overlap \in [IntentIds -> Nat]
            /\ \A d \in Deciders : Backed(d)
            /\ \A i \in IntentIds : WithinMandate(i)

\* What the theorem asks of the constants.
Bounded == IsFiniteSet(Deciders) /\ IsFiniteSet(Requests)

\* A payment is its quote or less, and what it came to above that.
LEMMA PaidIs ==
    ASSUME NEW w, w \in RowShape(w)
    PROVE  /\ Paid(w) \in Nat /\ Overcharge(w) \in Nat /\ AsQuoted(w) \in Nat
           /\ Paid(w) = AsQuoted(w) + Overcharge(w)
           /\ AsQuoted(w) <= w.amount
<1>1. w.amount \in Nat /\ w.paid \in Nat \cup {NotReported}
  BY DEF RowShape
<1>2. PICK m : m = w.amount
  OBVIOUS
<1>3. PICK p : p = Paid(w)
  OBVIOUS
<1>4. m \in Nat /\ p \in Nat
  BY <1>1, <1>2, <1>3 DEF Paid, NotReported
<1>5. Overcharge(w) = IF p > m THEN p - m ELSE 0
  BY <1>2, <1>3 DEF Overcharge
<1>6. Overcharge(w) \in Nat /\ p - Overcharge(w) \in Nat /\ p - Overcharge(w) <= m
  BY <1>4, <1>5
<1>7. AsQuoted(w) = p - Overcharge(w)
  BY <1>3 DEF AsQuoted
<1> QED
  BY <1>2, <1>3, <1>4, <1>6, <1>7

LEMMA LargerOf ==
    ASSUME NEW a \in Nat, NEW b \in Nat
    PROVE  Max({a, b}) \in Nat /\ a <= Max({a, b}) /\ b <= Max({a, b})
<1>1. \E x \in {a, b} : \A y \in {a, b} : x >= y
  <2>1. a >= b \/ b >= a
    OBVIOUS
  <2> QED
    BY <2>1
<1>2. Max({a, b}) \in {a, b} /\ \A y \in {a, b} : Max({a, b}) >= y
  BY <1>1 DEF Max
<1> QED
  BY <1>2

\* What has settled does not grow but by a settlement, ...
LEMMA StraightKept ==
    ASSUME Bounded, JobsTyped, JobsTyped', NEW i,
           \A r \in Straight(i)' : r \in Straight(i) /\ rows'[r] = rows[r]
    PROVE  /\ QuotedOf(Straight(i)) \in Nat
           /\ QuotedOf(Straight(i))' \in Nat
           /\ QuotedOf(Straight(i))' <= QuotedOf(Straight(i))
<1>1. PICK f : f = [r \in Requests |-> AsQuoted(rows[r])]
  OBVIOUS
<1>2. PICK g : g = [r \in Requests |-> AsQuoted(rows'[r])]
  OBVIOUS
<1>3. PICK S : S = Straight(i)
  OBVIOUS
<1>4. PICK T : T = Straight(i)'
  OBVIOUS
<1>5. S \subseteq Requests /\ T \subseteq Requests
  BY <1>3, <1>4 DEF Straight, SettledRows
<1>6. IsFiniteSet(S) /\ IsFiniteSet(T)
  BY <1>5, FS_Subset DEF Bounded
<1>7. \A r \in Requests : f[r] \in Nat /\ g[r] \in Nat
  BY <1>1, <1>2, PaidIs DEF JobsTyped
<1>8. \A r \in T : r \in S /\ g[r] = f[r]
  BY <1>1, <1>2, <1>3, <1>4, <1>5
<1>9. QuotedOf(Straight(i)) = SumFunctionOnSet(f, S) /\ QuotedOf(Straight(i))' = SumFunctionOnSet(g, T)
  BY <1>1, <1>2, <1>3, <1>4 DEF QuotedOf
<1>10. \A r \in T : g[r] \in Nat /\ (g[r] = 0 \/ (r \in S /\ g[r] <= f[r]))
  BY <1>5, <1>7, <1>8
<1>11. SumFunctionOnSet(g, T) <= SumFunctionOnSet(f, S)
  BY <1>5, <1>6, <1>7, <1>10, SumBelow
<1>12. SumFunctionOnSet(f, S) \in Nat /\ SumFunctionOnSet(g, T) \in Nat
  BY <1>5, <1>6, <1>7, SumType
<1> QED
  BY <1>9, <1>11, <1>12

\* ... nor what is at stake but by a weighing.
LEMMA StakeKept ==
    ASSUME Bounded, JobsTyped, JobsTyped', NEW i,
           \A d \in InFlight(i)' : d \in InFlight(i) /\ job'[d].amount = job[d].amount
    PROVE  /\ AtStake(i) \in Nat
           /\ AtStake(i)' \in Nat
           /\ AtStake(i)' <= AtStake(i)
<1>1. PICK f : f = [d \in Deciders |-> job[d].amount]
  OBVIOUS
<1>2. PICK g : g = [d \in Deciders |-> job'[d].amount]
  OBVIOUS
<1>3. PICK S : S = InFlight(i)
  OBVIOUS
<1>4. PICK T : T = InFlight(i)'
  OBVIOUS
<1>5. S \subseteq Deciders /\ T \subseteq Deciders
  BY <1>3, <1>4 DEF InFlight
<1>6. IsFiniteSet(S) /\ IsFiniteSet(T)
  BY <1>5, FS_Subset DEF Bounded
<1>7. \A d \in Deciders : f[d] \in Nat /\ g[d] \in Nat
  BY <1>1, <1>2 DEF JobsTyped, JobShape
<1>8. \A d \in T : d \in S /\ g[d] = f[d]
  BY <1>1, <1>2, <1>3, <1>4, <1>5
<1>9. AtStake(i) = SumFunctionOnSet(f, S) /\ AtStake(i)' = SumFunctionOnSet(g, T)
  BY <1>1, <1>2, <1>3, <1>4 DEF AtStake
<1>10. \A d \in T : g[d] \in Nat /\ (g[d] = 0 \/ (d \in S /\ g[d] <= f[d]))
  BY <1>5, <1>7, <1>8
<1>11. SumFunctionOnSet(g, T) <= SumFunctionOnSet(f, S)
  BY <1>5, <1>6, <1>7, <1>10, SumBelow
<1>12. SumFunctionOnSet(f, S) \in Nat /\ SumFunctionOnSet(g, T) \in Nat
  BY <1>5, <1>6, <1>7, SumType
<1> QED
  BY <1>9, <1>11, <1>12

\* What was declared for an intent stays.
LEMMA CeilingStays ==
    ASSUME Inv, [Next]_vars
    PROVE  \A i \in IntentIds : ceiling[i] # NotDeclared => ceiling'[i] = ceiling[i]
<1>1. ASSUME NEW o \in Operators, Operate(o)
      PROVE  \A i \in IntentIds : ceiling[i] # NotDeclared => ceiling'[i] = ceiling[i]
  <2>1. ASSUME NEW i \in IntentIds, NEW form \in Declarations, Declare(o, i, form)
        PROVE  \A k \in IntentIds : ceiling[k] # NotDeclared => ceiling'[k] = ceiling[k]
    BY <2>1 DEF Declare, Inv, FilesInv
  <2> QED
    BY <1>1, <2>1 DEF Operate, Register, SetStatus, Revoke, Resolve, ClearResolved
<1>2. ASSUME NEW d \in Deciders, Thinks(d)
      PROVE  ceiling' = ceiling
  <2>1. Reading(d) => ceiling' = ceiling
    BY DEF Reading
  <2>2. CASE Ask(d) \/ FindIntent(d) \/ FindLapsed(d) \/ WeighIntent(d) \/ FindIdentity(d)
    BY <2>1, <2>2 DEF Ask, FindIntent, FindLapsed, WeighIntent, FindIdentity
  <2>3. CASE FindParent(d) \/ LookAgain(d) \/ LookForLapsedAgain(d) \/ Queued(d)
    BY <2>1, <2>3 DEF FindParent, LookAgain, LookForLapsedAgain, Queued
  <2>4. CASE Record(d) \/ Settle(d)
    BY <2>4 DEF Record, Settle
  <2> QED
    BY <1>2, <2>2, <2>3, <2>4 DEF Thinks
<1>3. ASSUME NEW d \in Deciders, Enqueue(d) \/ CrashDecider(d)
      PROVE  ceiling' = ceiling
  BY <1>3 DEF Enqueue, CrashDecider
<1>4. ASSUME NEW p \in Processes, Truncate(p) \/ Write(p)
      PROVE  ceiling' = ceiling
  BY <1>4 DEF Truncate, Write
<1>5. ASSUME NEW o \in Operators, CrashOperator(o)
      PROVE  ceiling' = ceiling
  BY <1>5 DEF CrashOperator
<1>6. CASE Tick \/ UNCHANGED vars
  BY <1>6 DEF Tick, vars
<1> QED
  BY <1>1, <1>2, <1>3, <1>4, <1>5, <1>6, StepKinds

LEMMA StakeIs ==
    ASSUME Bounded, JobsTyped, NEW i
    PROVE  AtStake(i) \in Nat
<1>1. PICK f : f = [d \in Deciders |-> job[d].amount]
  OBVIOUS
<1>2. PICK S : S = InFlight(i)
  OBVIOUS
<1>3. S \subseteq Deciders /\ \A d \in S : f[d] \in Nat
  BY <1>1, <1>2 DEF InFlight, JobsTyped, JobShape
<1>4. IsFiniteSet(S)
  BY <1>3, FS_Subset DEF Bounded
<1>5. SumFunctionOnSet(f, S) \in Nat
  BY <1>3, <1>4, SumType
<1> QED
  BY <1>1, <1>2, <1>5 DEF AtStake

\* The overlap grows, when a payment gets past an intent.
LEMMA OverlapGrows ==
    ASSUME Bounded, Inv, [Next]_vars, overlap \in [IntentIds -> Nat]
    PROVE  /\ overlap' \in [IntentIds -> Nat]
           /\ \A i \in IntentIds : overlap[i] <= overlap'[i]
<1> DEFINE Lifted == \E i \in IntentIds : \E n \in Nat :
                        overlap' = [overlap EXCEPT ![i] = n] /\ overlap[i] <= n
<1>0. Lifted => /\ overlap' \in [IntentIds -> Nat]
                /\ \A i \in IntentIds : overlap[i] <= overlap'[i]
  OBVIOUS
<1> HIDE DEF Lifted
<1>1. ASSUME NEW o \in Operators, Operate(o)
      PROVE  overlap' = overlap
  BY <1>1 DEF Operate, Operation, Register, SetStatus, Declare, Revoke, Resolve, ClearResolved
<1>2. ASSUME NEW d \in Deciders, WeighIntent(d), overlap' # overlap
      PROVE  Lifted
  <2>1. PICK i : i = job[d].intent
    OBVIOUS
  <2>2. PICK a : a = AtStake(i)
    OBVIOUS
  <2>3. overlap' = [overlap EXCEPT ![i] = Max({@, a})]
    BY <1>2, <2>1, <2>2 DEF WeighIntent
  <2>4. i \in IntentIds
    BY <1>2, <2>3
  <2>5. a \in Nat /\ overlap[i] \in Nat
    BY <2>2, <2>4, StakeIs DEF Inv
  <2>6. PICK n : n = Max({overlap[i], a})
    OBVIOUS
  <2>7. n \in Nat /\ overlap[i] <= n
    BY <2>5, <2>6, LargerOf
  <2> QED
    BY <2>3, <2>4, <2>6, <2>7 DEF Lifted
<1>3. ASSUME NEW d \in Deciders, Thinks(d), ~WeighIntent(d)
      PROVE  overlap' = overlap
  <2>1. CASE Ask(d) \/ FindIntent(d) \/ FindLapsed(d) \/ FindIdentity(d)
    BY <2>1 DEF Ask, FindIntent, FindLapsed, FindIdentity
  <2>2. CASE FindParent(d) \/ LookAgain(d) \/ LookForLapsedAgain(d) \/ Queued(d)
    BY <2>2 DEF FindParent, LookAgain, LookForLapsedAgain, Queued
  <2>3. CASE Record(d) \/ Settle(d)
    BY <2>3 DEF Record, Settle
  <2> QED
    BY <1>3, <2>1, <2>2, <2>3 DEF Thinks
<1>4. ASSUME NEW d \in Deciders, Enqueue(d) \/ CrashDecider(d)
      PROVE  overlap' = overlap
  BY <1>4 DEF Enqueue, CrashDecider
<1>5. ASSUME NEW p \in Processes, Truncate(p) \/ Write(p)
      PROVE  overlap' = overlap
  BY <1>5 DEF Truncate, Write
<1>6. ASSUME NEW o \in Operators, CrashOperator(o)
      PROVE  overlap' = overlap
  BY <1>6 DEF CrashOperator
<1>7. ASSUME Tick \/ UNCHANGED vars
      PROVE  overlap' = overlap
  BY <1>7 DEF Tick, vars
<1>8. overlap' = overlap \/ Lifted
  <2>1. CASE \E o \in Operators : Operate(o) \/ CrashOperator(o)
    BY <2>1, <1>1, <1>6
  <2>2. CASE \E p \in Processes : Truncate(p) \/ Write(p)
    BY <2>2, <1>5
  <2>3. CASE \E d \in Deciders : Thinks(d) \/ Enqueue(d) \/ CrashDecider(d)
    <3>1. PICK d \in Deciders : Thinks(d) \/ Enqueue(d) \/ CrashDecider(d)
      BY <2>3
    <3>2. CASE Enqueue(d) \/ CrashDecider(d)
      BY <3>2, <1>4
    <3>3. CASE Thinks(d) /\ ~WeighIntent(d)
      BY <3>3, <1>3
    <3>4. CASE WeighIntent(d)
      BY <3>4, <1>2
    <3> QED
      BY <3>1, <3>2, <3>3, <3>4
  <2> QED
    BY <2>1, <2>2, <2>3, <1>7, StepKinds
<1> QED
  BY <1>0, <1>8

LEMMA CapGrows ==
    ASSUME Inv, Inv', [Next]_vars, NEW i \in IntentIds
    PROVE  Cap(i) \in Nat /\ Cap(i)' \in Nat /\ Cap(i) <= Cap(i)'
<1>1. ceiling[i] \in Nat \cup {NotDeclared} /\ ceiling'[i] \in Nat \cup {NotDeclared}
  BY DEF Inv, FilesInv, Limits
<1>2. ceiling[i] # NotDeclared => ceiling'[i] = ceiling[i]
  BY CeilingStays
<1>3. PICK c \in Nat \cup {NotDeclared} : c = ceiling[i]
  BY <1>1
<1>4. PICK e \in Nat \cup {NotDeclared} : e = ceiling'[i]
  BY <1>1
<1>5. Cap(i) = (IF c = NotDeclared THEN 0 ELSE c) /\ Cap(i)' = (IF e = NotDeclared THEN 0 ELSE e)
  BY <1>3, <1>4 DEF Cap
<1>6. c # NotDeclared => e = c
  BY <1>2, <1>3, <1>4
<1> QED
  BY <1>5, <1>6

LEMMA MandateKept ==
    ASSUME Bounded, Inv, Inv', [Next]_vars, FundsInv, NEW i \in IntentIds,
           \A r \in Straight(i)' : r \in Straight(i) /\ rows'[r] = rows[r],
           \A d \in InFlight(i)' : d \in InFlight(i) /\ job'[d].amount = job[d].amount
    PROVE  WithinMandate(i)'
<1>1. /\ QuotedOf(Straight(i)) \in Nat /\ QuotedOf(Straight(i))' \in Nat
      /\ QuotedOf(Straight(i))' <= QuotedOf(Straight(i))
  BY StraightKept DEF Inv
<1>2. AtStake(i) \in Nat /\ AtStake(i)' \in Nat /\ AtStake(i)' <= AtStake(i)
  BY StakeKept DEF Inv
<1>3. Cap(i) \in Nat /\ Cap(i)' \in Nat /\ Cap(i) <= Cap(i)'
  BY CapGrows
<1>4. overlap[i] \in Nat /\ overlap'[i] \in Nat /\ overlap[i] <= overlap'[i]
  BY OverlapGrows DEF FundsInv
<1>5. WithinMandate(i)
  BY DEF FundsInv
<1> QED
  BY <1>1, <1>2, <1>3, <1>4, <1>5 DEF WithinMandate

\* A step in which no decider gets on but to wait for its place in the queue.
LEMMA StillFunds ==
    ASSUME Bounded, Inv, Inv', [Next]_vars, FundsInv, rows' = rows,
           \A d \in Deciders :
              /\ job'[d].request = job[d].request /\ job'[d].amount = job[d].amount
              /\ job'[d].intent = job[d].intent /\ job'[d].max = job[d].max
              /\ job'[d].verdict = job[d].verdict
              /\ pc'[d] = pc[d] \/ (pc[d] = "queueing" /\ pc'[d] = "queued")
    PROVE  FundsInv'
<1>1. ASSUME NEW d \in Deciders
      PROVE  Backed(d)'
  <2>1. Backed(d)
    BY DEF FundsInv
  <2>2. Mandated(d)'
    BY <2>1, CeilingStays DEF Backed, Mandated
  <2> QED
    BY <2>1, <2>2 DEF Backed
<1>2. ASSUME NEW i \in IntentIds
      PROVE  WithinMandate(i)'
  <2>1. Straight(i)' = Straight(i)
    BY DEF Straight, SettledRows
  <2>2. \A d \in InFlight(i)' : d \in InFlight(i)
    BY DEF InFlight, Weighed
  <2>3. \A d \in InFlight(i)' : d \in Deciders
    BY DEF InFlight
  <2> QED
    BY <2>1, <2>2, <2>3, MandateKept DEF FundsInv
<1> QED
  BY <1>1, <1>2, OverlapGrows DEF FundsInv

\* A step of one decider.
LEMMA OwnFunds ==
    ASSUME Bounded, Inv, Apart, [Next]_vars, FundsInv, NEW d \in Deciders,
           \A e \in Deciders : e # d => pc'[e] = pc[e] /\ job'[e] = job[e],
           \A q \in Requests : q # job[d].request => rows'[q] = rows[q],
           Backed(d)', \A i \in IntentIds : WithinMandate(i)'
    PROVE  FundsInv'
<1> SUFFICES ASSUME NEW e \in Deciders, e # d
             PROVE  Backed(e)'
  BY OverlapGrows DEF FundsInv
<1>1. Backed(e) /\ pc'[e] = pc[e] /\ job'[e] = job[e]
  BY DEF FundsInv
<1>2. Mandated(e)'
  BY <1>1, CeilingStays DEF Backed, Mandated
<1>3. ASSUME pc[e] = "approved"
      PROVE  rows'[job[e].request] = rows[job[e].request]
  <2>1. job[e].request \in Requests /\ job[e].request # None
    BY <1>3, Carries, AuthorityAssumption DEF Inv, AuthorityAssumption
  <2>2. job[e].request # job[d].request
    BY <2>1 DEF Apart
  <2> QED
    BY <2>1, <2>2
<1> QED
  BY <1>1, <1>2, <1>3 DEF Backed

\* ... that puts nothing more at stake and settles nothing.
LEMMA QuietFunds ==
    ASSUME Bounded, Inv, Inv', Apart, [Next]_vars, FundsInv, NEW d \in Deciders,
           \A e \in Deciders : e # d => pc'[e] = pc[e] /\ job'[e] = job[e],
           \A q \in Requests : q # job[d].request => rows'[q] = rows[q],
           rows' = rows \/ ~rows'[job[d].request].settled,
           Backed(d)',
           \A i \in IntentIds : d \in InFlight(i)' =>
               d \in InFlight(i) /\ job'[d].amount = job[d].amount
    PROVE  FundsInv'
<1>1. ASSUME NEW i \in IntentIds
      PROVE  WithinMandate(i)'
  <2>1. ASSUME NEW r \in Straight(i)'
        PROVE  r \in Straight(i) /\ rows'[r] = rows[r]
    <3>1. r \in Requests /\ rows'[r].settled
      BY DEF Straight, SettledRows
    <3>2. rows'[r] = rows[r]
      BY <3>1
    <3> QED
      BY <3>2 DEF Straight, SettledRows
  <2>2. ASSUME NEW e \in InFlight(i)'
        PROVE  e \in InFlight(i) /\ job'[e].amount = job[e].amount
    <3>1. e \in Deciders
      BY DEF InFlight
    <3> QED
      BY <3>1 DEF InFlight
  <2> QED
    BY <2>1, <2>2, MandateKept DEF FundsInv
<1> QED
  BY <1>1, OwnFunds

\* What the look-ups make of the amount and the intent of a request.
LEMMA AsksFor ==
    ASSUME JobsTyped, NEW d \in Deciders, Ask(d)
    PROVE  job'[d].amount \in Amounts /\ job'[d].intent = None
<1> DEFINE stopped == Stopped(files["identities"], AgentOf[d])
           had == \E e \in DOMAIN files["intents"] : files["intents"][e].agent = AgentOf[d]
<1>1. PICK r \in Askable, a \in Amounts, k \in Kinds, i \in Names, call \in Calls,
           rule \in PolicyVerdicts :
        job' = [job EXCEPT ![d] = [NoJob EXCEPT
                   !.request = r, !.call = call, !.amount = a, !.kind = k, !.named = i, !.verdict = rule,
                   !.today = SpentToday(AgentOf[d], k.channel),
                   !.stopped = stopped, !.hadIntent = had]]
  BY DEF Ask
<1> DEFINE today == SpentToday(AgentOf[d], k.channel)
           j == [NoJob EXCEPT
                   !.request = r, !.call = call, !.amount = a, !.kind = k, !.named = i, !.verdict = rule,
                   !.today = today, !.stopped = stopped, !.hadIntent = had]
<1> HIDE DEF stopped, had, today
<1>2. j.amount = a /\ j.intent = None
  BY DEF NoJob
<1>3. job' = [job EXCEPT ![d] = j]
  BY <1>1 DEF today
<1> HIDE DEF j
<1>4. job'[d] = j
  BY <1>3 DEF JobsTyped
<1> QED
  BY <1>2, <1>4

LEMMA NewestOf ==
    ASSUME NEW f, IntentFile(f), NEW S \in SUBSET DOMAIN f, Newest(f, S) # None
    PROVE  Newest(f, S) \in DOMAIN f
<1>1. S # {}
  BY DEF Newest
<1> QED
  BY <1>1, NewestIs

LEMMA FoundFor ==
    ASSUME FilesInv, JobsTyped, NEW d \in Deciders, NEW i, NEW m,
           i # None => i \in DOMAIN Load("intents"),
           \/ job' = [job EXCEPT ![d] = FoundIntent(d, Load("intents"), i, m)]
           \/ job' = [job EXCEPT ![d] = [FoundIntent(d, Load("intents"), i, m) EXCEPT !.moment = m]]
    PROVE  /\ job'[d].amount = job[d].amount
           /\ i = None => job'[d].intent = job[d].intent /\ job'[d].max = job[d].max
           /\ i # None => /\ job'[d].intent = i /\ i \in IntentIds
                          /\ ceiling[i] # NotDeclared /\ job'[d].max = ceiling[i]
<1>1. PICK f : f = Load("intents")
  OBVIOUS
<1>2. Whole("intents", f) /\ Declared(f)
  BY <1>1, LoadIs DEF Files
<1>3. i # None => i \in IntentIds /\ ceiling[i] # NotDeclared /\ f[i].terms.max = ceiling[i]
  BY <1>1, <1>2 DEF Whole, IntentFile, Declared
<1>4. PICK g : g = FoundIntent(d, f, i, m)
  OBVIOUS
<1>5. job[d] \in JobShape(job[d])
  BY DEF JobsTyped
<1>6. CASE i = None
  <2>1. PICK b : b = (job[d].sawTorn \/ torn["intents"])
    OBVIOUS
  <2>2. g = [job[d] EXCEPT !.sawTorn = b]
    BY <1>4, <1>6, <2>1 DEF FoundIntent
  <2>3. /\ g.amount = job[d].amount /\ g.intent = job[d].intent /\ g.max = job[d].max
        /\ [g EXCEPT !.moment = m].amount = job[d].amount
        /\ [g EXCEPT !.moment = m].intent = job[d].intent
        /\ [g EXCEPT !.moment = m].max = job[d].max
    BY <1>5, <2>2 DEF JobShape
  <2>4. job'[d] = g \/ job'[d] = [g EXCEPT !.moment = m]
    BY <1>1, <1>4 DEF JobsTyped
  <2> QED
    BY <1>6, <2>3, <2>4
<1>7. CASE i # None
  <2>1. PICK v : v = Narrower(job[d].verdict, IntentVerdict(f[i], job[d].kind, job[d].amount, m))
    OBVIOUS
  <2>2. PICK c : c = f[i].terms.max
    OBVIOUS
  <2>3. g = [job[d] EXCEPT !.intent = i, !.max = c, !.verdict = v]
    BY <1>4, <1>7, <2>1, <2>2 DEF FoundIntent
  <2>4. /\ g.amount = job[d].amount /\ g.intent = i /\ g.max = c
        /\ [g EXCEPT !.moment = m].amount = job[d].amount
        /\ [g EXCEPT !.moment = m].intent = i
        /\ [g EXCEPT !.moment = m].max = c
    BY <1>5, <2>3 DEF JobShape
  <2>5. job'[d] = g \/ job'[d] = [g EXCEPT !.moment = m]
    BY <1>1, <1>4 DEF JobsTyped
  <2> QED
    BY <1>3, <1>7, <2>2, <2>4, <2>5
<1> QED
  BY <1>6, <1>7

LEMMA FindsFor ==
    ASSUME FilesInv, JobsTyped, NEW d \in Deciders, FindIntent(d) \/ FindLapsed(d), Mandated(d)
    PROVE  /\ job'[d].amount = job[d].amount
           /\ job'[d].intent # None => /\ job'[d].intent \in IntentIds
                                       /\ ceiling[job'[d].intent] # NotDeclared
                                       /\ job'[d].max = ceiling[job'[d].intent]
<1>1. PICK f : f = Load("intents")
  OBVIOUS
<1>2. IntentFile(f)
  BY <1>1, LoadIs DEF Files, Whole
<1>3. CASE FindIntent(d)
  <2> DEFINE T == {e \in DOMAIN f : f[e].agent = AgentOf[d] /\ f[e].status = "active"
                                     /\ ~Expired(f[e], now)}
  <2>1. PICK i : i = IF job[d].named = None THEN ActiveFor(f, AgentOf[d], now)
                     ELSE IF job[d].named \in DOMAIN f THEN job[d].named ELSE None
    OBVIOUS
  <2>2. ActiveFor(f, AgentOf[d], now) = Newest(f, T)
    BY DEF ActiveFor
  <2>3. T \in SUBSET DOMAIN f
    OBVIOUS
  <2> HIDE DEF T
  <2>4. i # None => i \in DOMAIN Load("intents")
    BY <1>1, <1>2, <2>1, <2>2, <2>3, NewestOf
  <2>5. PICK m : m = now
    OBVIOUS
  <2>6. job' = [job EXCEPT ![d] = [FoundIntent(d, Load("intents"), i, m) EXCEPT !.moment = m]]
    BY <1>1, <1>3, <2>1, <2>5 DEF FindIntent
  <2>7. /\ job'[d].amount = job[d].amount
        /\ i = None => job'[d].intent = job[d].intent /\ job'[d].max = job[d].max
        /\ i # None => /\ job'[d].intent = i /\ i \in IntentIds
                       /\ ceiling[i] # NotDeclared /\ job'[d].max = ceiling[i]
    BY <2>4, <2>6, FoundFor
  <2> QED
    BY <2>7 DEF Mandated
<1>4. CASE FindLapsed(d)
  <2> DEFINE T == {e \in DOMAIN f : f[e].agent = AgentOf[d]}
  <2>1. PICK i : i = LatestFor(f, AgentOf[d])
    OBVIOUS
  <2>2. i = Newest(f, T)
    BY <2>1 DEF LatestFor
  <2>3. T \in SUBSET DOMAIN f
    OBVIOUS
  <2> HIDE DEF T
  <2>4. i # None => i \in DOMAIN Load("intents")
    BY <1>1, <1>2, <2>2, <2>3, NewestOf
  <2>5. PICK m : m = job[d].moment
    OBVIOUS
  <2>6. job' = [job EXCEPT ![d] = FoundIntent(d, Load("intents"), i, m)]
    BY <1>1, <1>4, <2>1, <2>5 DEF FindLapsed
  <2>7. /\ job'[d].amount = job[d].amount
        /\ i = None => job'[d].intent = job[d].intent /\ job'[d].max = job[d].max
        /\ i # None => /\ job'[d].intent = i /\ i \in IntentIds
                       /\ ceiling[i] # NotDeclared /\ job'[d].max = ceiling[i]
    BY <2>4, <2>6, FoundFor
  <2> QED
    BY <2>7 DEF Mandated
<1> QED
  BY <1>3, <1>4

LEMMA KeepsFor ==
    ASSUME JobsTyped, NEW d \in Deciders,
           \/ WeighIntent(d) \/ FindIdentity(d) \/ FindParent(d)
           \/ LookAgain(d) \/ LookForLapsedAgain(d)
    PROVE  /\ job'[d].amount = job[d].amount
           /\ job'[d].intent = job[d].intent
           /\ job'[d].max = job[d].max
<1>1. job[d] \in JobShape(job[d])
  BY DEF JobsTyped
<1>2. ASSUME NEW j, job' = [job EXCEPT ![d] = j],
             j.amount = job[d].amount, j.intent = job[d].intent, j.max = job[d].max
      PROVE  /\ job'[d].amount = job[d].amount
             /\ job'[d].intent = job[d].intent
             /\ job'[d].max = job[d].max
  BY <1>2 DEF JobsTyped
<1>3. CASE WeighIntent(d)
  <2>1. PICK j : j = [job[d] EXCEPT !.verdict = "REJECT"]
    OBVIOUS
  <2>2. j.amount = job[d].amount /\ j.intent = job[d].intent /\ j.max = job[d].max
    BY <1>1, <2>1 DEF JobShape
  <2>3. job' = [job EXCEPT ![d] = j] \/ job' = job
    BY <1>3, <2>1 DEF WeighIntent
  <2> QED
    BY <1>2, <2>2, <2>3
<1>4. CASE FindIdentity(d)
  <2>1. PICK own : own = IdentityOf(Load("identities"), AgentOf[d])
    OBVIOUS
  <2>2. PICK blind : blind = (job[d].sawTorn \/ (own = Unregistered /\ torn["identities"]))
    OBVIOUS
  <2>3. PICK j : j = [job[d] EXCEPT !.own = own, !.sawTorn = blind]
    OBVIOUS
  <2>4. PICK v : v = Narrower(j.verdict, IdentityVerdict(own, Unregistered, j.kind, j.amount,
                                                          j.today))
    OBVIOUS
  <2>5. PICK k : k = [j EXCEPT !.own = Unregistered, !.moment = now, !.verdict = v]
    OBVIOUS
  <2>6. j.amount = job[d].amount /\ j.intent = job[d].intent /\ j.max = job[d].max
    BY <1>1, <2>3 DEF JobShape
  <2>7. k.amount = job[d].amount /\ k.intent = job[d].intent /\ k.max = job[d].max
    BY <1>1, <2>3, <2>5 DEF JobShape
  <2>8. job' = [job EXCEPT ![d] = j] \/ job' = [job EXCEPT ![d] = k]
    BY <1>4, <2>1, <2>2, <2>3, <2>4, <2>5 DEF FindIdentity
  <2> QED
    BY <1>2, <2>6, <2>7, <2>8
<1>5. CASE FindParent(d)
  <2>1. PICK parent : parent = IdentityOf(Load("identities"), job[d].own.terms.parent)
    OBVIOUS
  <2>2. PICK v : v = Narrower(job[d].verdict, IdentityVerdict(job[d].own, parent, job[d].kind,
                                                             job[d].amount, job[d].today))
    OBVIOUS
  <2>3. PICK j : j = [job[d] EXCEPT !.own = Unregistered, !.moment = now, !.verdict = v]
    OBVIOUS
  <2>4. j.amount = job[d].amount /\ j.intent = job[d].intent /\ j.max = job[d].max
    BY <1>1, <2>3 DEF JobShape
  <2>5. job' = [job EXCEPT ![d] = j]
    BY <1>5, <2>1, <2>2, <2>3 DEF FindParent
  <2> QED
    BY <1>2, <2>4, <2>5
<1>6. CASE LookAgain(d) \/ LookForLapsedAgain(d)
  <2>1. PICK x : job' = [job EXCEPT ![d] = [job[d] EXCEPT !.charged = x]]
    BY <1>6 DEF LookAgain, LookForLapsedAgain
  <2>2. PICK j : j = [job[d] EXCEPT !.charged = x]
    OBVIOUS
  <2>3. j.amount = job[d].amount /\ j.intent = job[d].intent /\ j.max = job[d].max
    BY <1>1, <2>2 DEF JobShape
  <2> QED
    BY <1>2, <2>1, <2>2, <2>3
<1> QED
  BY <1>3, <1>4, <1>5, <1>6

\* What a row says of the money.
LEMMA RecordsFor ==
    ASSUME JobsTyped, NEW d \in Deciders, Record(d), NEW r, r = job[d].request
    PROVE  /\ rows'[r].amount = job[d].amount
           /\ ~rows'[r].settled
           /\ \A q \in Requests : q # r => rows'[q] = rows[q]
<1> DEFINE charged == IF job[d].call = "advise" THEN job[d].charged ELSE job[d].intent
           row == [NoRow EXCEPT
                     !.agent = AgentOf[d], !.channel = job[d].kind.channel, !.amount = job[d].amount,
                     !.verdict = job[d].verdict, !.under = job[d].intent, !.named = job[d].named,
                     !.intent = charged, !.stopped = job[d].stopped,
                     !.hadIntent = job[d].hadIntent, !.sawTorn = job[d].sawTorn]
<1>1. rows' = [rows EXCEPT ![r] = row]
  BY DEF Record
<1>2. r \in Requests
  BY RecordIs
<1> HIDE DEF charged
<1>3. row.amount = job[d].amount /\ ~row.settled
  BY DEF NoRow
<1> HIDE DEF row
<1> QED
  BY <1>1, <1>2, <1>3 DEF JobsTyped

LEMMA SettlesFor ==
    ASSUME JobsTyped, NEW d \in Deciders, Settle(d), NEW r, r = job[d].request
    PROVE  /\ r \in Requests
           /\ rows'[r].amount = rows[r].amount
           /\ rows'[r].intent = rows[r].intent /\ rows'[r].under = rows[r].under
           /\ \A q \in Requests : q # r => rows'[q] = rows[q]
<1>1. PICK success \in BOOLEAN, paid \in Reported \cup {NotReported} :
        rows' = [rows EXCEPT ![r].settled = TRUE, ![r].success = success, ![r].paid = paid]
  BY DEF Settle
<1>2. r \in Requests
  BY Carries DEF Settle
<1>3. rows[r] \in RowShape(rows[r])
  BY <1>2 DEF JobsTyped
<1>4. PICK row : row = [rows[r] EXCEPT !.settled = TRUE, !.success = success, !.paid = paid]
  OBVIOUS
<1>5. row.amount = rows[r].amount /\ row.intent = rows[r].intent /\ row.under = rows[r].under
  BY <1>3, <1>4 DEF RowShape
<1>6. rows' = [rows EXCEPT ![r] = row]
  BY <1>1, <1>2, <1>4 DEF JobsTyped
<1> QED
  BY <1>2, <1>5, <1>6 DEF JobsTyped

LEMMA WritesFor ==
    ASSUME JobsTyped, NEW p \in Processes, Write(p)
    PROVE  \A d \in Deciders : job'[d].amount = job[d].amount /\ job'[d].max = job[d].max
<1>1. CASE job' = job
  BY <1>1
<1>2. CASE job' # job
  <2> DEFINE cut(d) == job[d].stopped \cap Stopped(writer[p].copy, AgentOf[d])
             j(d) == [job[d] EXCEPT !.stopped = cut(d)]
  <2>1. job' = [d \in Deciders |-> j(d)]
    BY <1>2 DEF Write
  <2>2. ASSUME NEW d \in Deciders
        PROVE  j(d).amount = job[d].amount /\ j(d).max = job[d].max
    <3>1. job[d] \in JobShape(job[d])
      BY DEF JobsTyped
    <3> HIDE DEF cut
    <3> QED
      BY <3>1 DEF JobShape
  <2> HIDE DEF j
  <2> QED
    BY <2>1, <2>2
<1> QED
  BY <1>1, <1>2

\* A look-up: what a decider has at stake it had before.
LEMMA OnwardFunds ==
    ASSUME Bounded, Inv, Inv', Apart, [Next]_vars, FundsInv, NEW d \in Deciders, NEW place,
           Onward(d, place), place # "approved",
           job'[d].amount = job[d].amount, Mandated(d)',
           place \in Weighed => pc[d] \in Weighed /\ job'[d].intent = job[d].intent
    PROVE  FundsInv'
<1>1. /\ pc' = [pc EXCEPT ![d] = place] /\ job' = [job EXCEPT ![d] = job'[d]] /\ rows' = rows
      /\ job'[d].verdict = "APPROVE" => job[d].verdict = "APPROVE"
      /\ pc[d] # "idle"
  BY DEF Onward, Reading
<1>2. pc'[d] = place
  BY <1>1 DEF Inv, JobsTyped
<1>3. Backed(d)'
  BY <1>1, <1>2 DEF FundsInv, Backed
<1>4. \A e \in Deciders : e # d => pc'[e] = pc[e] /\ job'[e] = job[e]
  BY <1>1 DEF Inv, JobsTyped
<1>5. \A i \in IntentIds : d \in InFlight(i)' => d \in InFlight(i)
  BY <1>1, <1>2 DEF InFlight
<1> QED
  BY <1>1, <1>3, <1>4, <1>5, QuietFunds

\* A decider lets go of its request.
LEMMA LeaveFunds ==
    ASSUME Bounded, Inv, Inv', Apart, [Next]_vars, FundsInv, NEW d \in Deciders, Leave(d),
           \A q \in Requests : q # job[d].request => rows'[q] = rows[q],
           rows' = rows \/ ~rows'[job[d].request].settled
    PROVE  FundsInv'
<1>1. pc' = [pc EXCEPT ![d] = "idle"] /\ job' = [job EXCEPT ![d] = NoJob]
  BY DEF Leave, Go
<1>2. pc'[d] = "idle" /\ job'[d] = NoJob
  BY <1>1 DEF Inv, JobsTyped
<1>3. Backed(d)'
  BY <1>2, NoJobIs DEF Backed, Mandated
<1>4. \A e \in Deciders : e # d => pc'[e] = pc[e] /\ job'[e] = job[e]
  BY <1>1 DEF Inv, JobsTyped
<1>5. \A i \in IntentIds : d \notin InFlight(i)'
  BY <1>2 DEF InFlight, Weighed
<1> QED
  BY <1>3, <1>4, <1>5, QuietFunds

LEMMA RecordFunds ==
    ASSUME Bounded, Inv, Inv', Apart, [Next]_vars, FundsInv, NEW d \in Deciders, Record(d)
    PROVE  FundsInv'
<1>1. PICK r : r = job[d].request
  OBVIOUS
<1>2. /\ pc[d] \in {"ready", "decided"} /\ r \in Requests
      /\ rows'[r].verdict = job[d].verdict /\ rows'[r].under = job[d].intent
      /\ ceiling' = ceiling
      /\ \/ job[d].verdict = "APPROVE" /\ pc' = [pc EXCEPT ![d] = "approved"] /\ job' = job
         \/ NeedsHuman(job[d].verdict) /\ pc' = [pc EXCEPT ![d] = "queueing"] /\ job' = job
         \/ job[d].verdict = "REJECT" /\ Leave(d)
  BY <1>1, RecordIs DEF Inv
<1>3. /\ rows'[r].amount = job[d].amount /\ ~rows'[r].settled
      /\ \A q \in Requests : q # r => rows'[q] = rows[q]
  BY <1>1, RecordsFor DEF Inv
<1>4. CASE Leave(d)
  BY <1>1, <1>3, <1>4, LeaveFunds
<1>5. CASE ~Leave(d)
  <2>1. /\ job' = job /\ pc'[d] \in {"approved", "queueing"}
        /\ pc'[d] = "approved" => job[d].verdict = "APPROVE"
        /\ \A e \in Deciders : e # d => pc'[e] = pc[e]
    BY <1>2, <1>5 DEF Inv, JobsTyped
  <2>2. Backed(d)
    BY DEF FundsInv
  <2>3. Backed(d)'
    BY <1>1, <1>2, <1>3, <2>1, <2>2 DEF Backed, Mandated
  <2>4. \A i \in IntentIds : d \in InFlight(i)' => d \in InFlight(i)
    BY <1>2, <2>1 DEF InFlight, Weighed
  <2>5. \A e \in Deciders : e # d => pc'[e] = pc[e] /\ job'[e] = job[e]
    BY <2>1
  <2>6. /\ \A q \in Requests : q # job[d].request => rows'[q] = rows[q]
        /\ ~rows'[job[d].request].settled
    BY <1>1, <1>3
  <2> QED
    BY <2>1, <2>3, <2>4, <2>5, <2>6, QuietFunds
<1> QED
  BY <1>4, <1>5

\* What is spent is what was quoted under the intent it was decided under, what that came to
\* above it, and the rest.
LEMMA SpentIs ==
    ASSUME Bounded, JobsTyped, NEW i, NEW straight, NEW strays, straight = Straight(i),
           strays = {r \in SettledRows : rows[r].intent = i /\ rows[r].under # i}
    PROVE  /\ QuotedOf(Straight(i)) \in Nat /\ OverchargeOf(straight) \in Nat
           /\ AmountOf(strays) \in Nat
           /\ SpentUnderIntent(i) = QuotedOf(Straight(i)) + OverchargeOf(straight)
                                    + AmountOf(strays)
<1>1. PICK f : f = [r \in Requests |-> Paid(rows[r])]
  OBVIOUS
<1>2. PICK g : g = [r \in Requests |-> AsQuoted(rows[r])]
  OBVIOUS
<1>3. PICK h : h = [r \in Requests |-> Overcharge(rows[r])]
  OBVIOUS
<1>4. PICK A : A = {r \in SettledRows : rows[r].intent = i}
  OBVIOUS
<1>5. /\ straight \subseteq Requests /\ strays \subseteq Requests
      /\ straight \cap strays = {} /\ A = straight \cup strays
  BY <1>4 DEF Straight, SettledRows
<1>6. IsFiniteSet(straight) /\ IsFiniteSet(strays)
  BY <1>5, FS_Subset DEF Bounded
<1>7. \A r \in Requests : f[r] \in Nat /\ g[r] \in Nat /\ h[r] \in Nat /\ f[r] = g[r] + h[r]
  BY <1>1, <1>2, <1>3, PaidIs DEF JobsTyped
<1>8. SumFunctionOnSet(f, straight \cup strays)
        = SumFunctionOnSet(f, straight) + SumFunctionOnSet(f, strays)
  BY <1>5, <1>6, <1>7, SumUnion
<1>9. SumFunctionOnSet(f, straight) = SumFunctionOnSet(g, straight) + SumFunctionOnSet(h, straight)
  BY <1>5, <1>6, <1>7, SumParts
<1>10. /\ SumFunctionOnSet(g, straight) \in Nat /\ SumFunctionOnSet(h, straight) \in Nat
       /\ SumFunctionOnSet(f, strays) \in Nat
  BY <1>5, <1>6, <1>7, SumType
<1>11. /\ QuotedOf(Straight(i)) = SumFunctionOnSet(g, straight)
       /\ OverchargeOf(straight) = SumFunctionOnSet(h, straight)
       /\ AmountOf(strays) = SumFunctionOnSet(f, strays)
       /\ SpentUnderIntent(i) = SumFunctionOnSet(f, straight \cup strays)
  BY <1>1, <1>2, <1>3, <1>4, <1>5 DEF QuotedOf, OverchargeOf, AmountOf, SpentUnderIntent
<1> QED
  BY <1>8, <1>9, <1>10, <1>11

\* Who weighs an intent finds room in it for its own amount; the others are the overlap.
LEMMA WeighFunds ==
    ASSUME Bounded, Inv, Inv', Apart, [Next]_vars, FundsInv, NEW d \in Deciders, WeighIntent(d)
    PROVE  FundsInv'
<1>1. /\ Onward(d, "weighed") /\ rows' = rows /\ ceiling' = ceiling
      /\ pc' = [pc EXCEPT ![d] = "weighed"] /\ job' = [job EXCEPT ![d] = job'[d]]
      /\ pc[d] # "idle"
  BY WeighIntentOnward DEF Inv, Onward, Reading
<1>2. pc'[d] = "weighed" /\ \A e \in Deciders : e # d => pc'[e] = pc[e] /\ job'[e] = job[e]
  BY <1>1 DEF Inv, JobsTyped
<1>3. /\ job'[d].amount = job[d].amount /\ job'[d].intent = job[d].intent
      /\ job'[d].max = job[d].max
  BY KeepsFor DEF Inv
<1>4. Backed(d)
  BY DEF FundsInv
<1>5. Backed(d)'
  BY <1>1, <1>2, <1>3, <1>4 DEF Backed, Mandated
<1>6. ASSUME NEW i \in IntentIds, d \in InFlight(i)'
      PROVE  WithinMandate(i)'
  <2>1. /\ job[d].intent = i /\ i # None /\ job'[d].verdict = "APPROVE"
    BY <1>3, <1>6, AuthorityAssumption DEF InFlight, AuthorityAssumption
  <2>2. ~(job[d].amount > Remaining(d)) /\ job' = job
        /\ overlap' = [overlap EXCEPT ![i] = Max({@, AtStake(i)})]
    <3>1. ASSUME job' = [job EXCEPT ![d].verdict = "REJECT"]
          PROVE  FALSE
      <4>1. PICK j : j = [job[d] EXCEPT !.verdict = "REJECT"]
        OBVIOUS
      <4>2. job' = [job EXCEPT ![d] = j]
        BY <3>1, <4>1
      <4>3. job[d] \in JobShape(job[d]) /\ job'[d] = j
        BY <4>2 DEF Inv, JobsTyped
      <4>4. j.verdict = "REJECT"
        BY <4>1, <4>3 DEF JobShape
      <4> QED
        BY <2>1, <4>3, <4>4
    <3>2. /\ job[d].amount <= Remaining(d) /\ job' = job
          /\ overlap' = IF job[d].verdict # "APPROVE" THEN overlap
                        ELSE [overlap EXCEPT ![i] = Max({@, AtStake(i)})]
      BY <2>1, <3>1 DEF WeighIntent
    <3>3. job[d].verdict = "APPROVE"
      BY <2>1, <3>2
    <3>4. job[d].amount \in Nat /\ Remaining(d) \in Int
      <4>1. PICK strays : strays = {r \in SettledRows : rows[r].intent = i /\ rows[r].under # i}
        OBVIOUS
      <4>2. PICK straight : straight = Straight(i)
        OBVIOUS
      <4>3. SpentUnderIntent(i) \in Nat
        BY <4>1, <4>2, SpentIs DEF Inv
      <4>4. job[d].max = ceiling[i] /\ ceiling[i] \in Int
        BY <1>4, <2>1 DEF Backed, Mandated, Inv, FilesInv, Limits, NotDeclared
      <4> QED
        BY <2>1, <4>3, <4>4 DEF Remaining, Inv, JobsTyped, JobShape
    <3> QED
      BY <3>2, <3>3, <3>4
  <2>3. Remaining(d) = ceiling[i] - SpentUnderIntent(i) /\ ceiling[i] \in Nat /\ Cap(i)' = ceiling[i]
    <3>1. ceiling[i] # NotDeclared /\ job[d].max = ceiling[i]
      BY <1>4, <2>1 DEF Backed, Mandated
    <3>2. ceiling[i] \in Nat
      BY <3>1 DEF Inv, FilesInv, Limits
    <3> QED
      BY <1>1, <2>1, <3>1, <3>2 DEF Remaining, Cap
  <2>4. PICK strays : strays = {r \in SettledRows : rows[r].intent = i /\ rows[r].under # i}
    OBVIOUS
  <2>5. PICK straight : straight = Straight(i)
    OBVIOUS
  <2>6. /\ QuotedOf(Straight(i)) \in Nat /\ OverchargeOf(straight) \in Nat
        /\ AmountOf(strays) \in Nat
        /\ SpentUnderIntent(i) = QuotedOf(Straight(i)) + OverchargeOf(straight) + AmountOf(strays)
    BY <2>4, <2>5, SpentIs DEF Inv
  <2>7. job[d].amount \in Nat
    BY DEF Inv, JobsTyped, JobShape
  <2>8. QuotedOf(Straight(i)) + job[d].amount <= Cap(i)'
    BY <2>2, <2>3, <2>6, <2>7
  <2>9. QuotedOf(Straight(i))' = QuotedOf(Straight(i))
    BY <1>1 DEF QuotedOf, Straight, SettledRows
  <2>10. AtStake(i)' = job[d].amount + AtStake(i)
    <3>1. PICK f : f = [e \in Deciders |-> job[e].amount]
      OBVIOUS
    <3>2. PICK T : T = InFlight(i)
      OBVIOUS
    <3>3. InFlight(i)' = T \cup {d}
      BY <1>2, <1>6, <2>2, <3>2 DEF InFlight
    <3>4. d \notin T
      <4>1. pc[d] = "looked"
        BY DEF WeighIntent
      <4> QED
        BY <3>2, <4>1 DEF InFlight, Weighed
    <3>5. T \subseteq Deciders /\ IsFiniteSet(T)
      <4>1. T \subseteq Deciders
        BY <3>2 DEF InFlight
      <4> QED
        BY <4>1, FS_Subset DEF Bounded
    <3>6. \A e \in Deciders : f[e] \in Nat
      BY <3>1 DEF Inv, JobsTyped, JobShape
    <3>7. SumFunctionOnSet(f, T \cup {d}) = f[d] + SumFunctionOnSet(f, T)
      BY <3>4, <3>5, <3>6, SumAdd
    <3>8. AtStake(i) = SumFunctionOnSet(f, T) /\ AtStake(i)' = SumFunctionOnSet(f, T \cup {d})
      BY <2>2, <3>1, <3>2, <3>3 DEF AtStake
    <3> QED
      BY <3>1, <3>7, <3>8
  <2>11. AtStake(i) \in Nat /\ overlap'[i] \in Nat /\ AtStake(i) <= overlap'[i]
    <3>1. PICK a : a = AtStake(i)
      OBVIOUS
    <3>2. a \in Nat /\ overlap[i] \in Nat
      BY <3>1, StakeIs DEF Inv, FundsInv
    <3>3. overlap'[i] = Max({overlap[i], a})
      BY <2>2, <3>1 DEF FundsInv
    <3> QED
      BY <3>1, <3>2, <3>3, LargerOf
  <2>12. PICK q, o, a, m, c : /\ q = QuotedOf(Straight(i)) /\ o = overlap'[i] /\ a = AtStake(i)
                              /\ m = job[d].amount /\ c = Cap(i)'
    OBVIOUS
  <2>13. q + (m + a) <= c + o
    BY <2>3, <2>6, <2>7, <2>8, <2>11, <2>12
  <2> QED
    BY <2>9, <2>10, <2>12, <2>13 DEF WithinMandate
<1>7. ASSUME NEW i \in IntentIds, d \notin InFlight(i)'
      PROVE  WithinMandate(i)'
  <2>1. Straight(i)' = Straight(i)
    BY <1>1 DEF Straight, SettledRows
  <2>2. ASSUME NEW e \in InFlight(i)'
        PROVE  e \in InFlight(i) /\ job'[e].amount = job[e].amount
    BY <1>2, <1>7, <2>2 DEF InFlight
  <2> QED
    BY <1>1, <2>1, <2>2, MandateKept DEF FundsInv
<1> QED
  BY <1>1, <1>2, <1>5, <1>6, <1>7, OwnFunds

\* What settles was at stake.
LEMMA SettleFunds ==
    ASSUME Bounded, Inv, Inv', Apart, [Next]_vars, FundsInv, NEW d \in Deciders, Settle(d)
    PROVE  FundsInv'
<1>1. PICK r : r = job[d].request
  OBVIOUS
<1>2. pc[d] = "approved" /\ Leave(d)
  BY DEF Settle
<1>3. pc'[d] = "idle" /\ job'[d] = NoJob /\ \A e \in Deciders : e # d => pc'[e] = pc[e] /\ job'[e] = job[e]
  BY <1>2 DEF Leave, Go, Inv, JobsTyped
<1>4. /\ r \in Requests
      /\ rows'[r].amount = rows[r].amount
      /\ rows'[r].intent = rows[r].intent /\ rows'[r].under = rows[r].under
      /\ \A q \in Requests : q # r => rows'[q] = rows[q]
  BY <1>1, SettlesFor DEF Inv
<1>5. /\ job[d].verdict = "APPROVE" /\ rows[r].amount = job[d].amount
      /\ rows[r].under = job[d].intent /\ ~rows[r].settled
  BY <1>1, <1>2 DEF FundsInv, Backed
<1>6. Backed(d)'
  BY <1>3, NoJobIs DEF Backed, Mandated
<1>7. ASSUME NEW i \in IntentIds
      PROVE  WithinMandate(i)'
  <2>1. ASSUME NEW e \in InFlight(i)'
        PROVE  e \in InFlight(i) /\ e # d /\ job'[e].amount = job[e].amount
    BY <1>3, <2>1 DEF InFlight, Weighed
  <2>2. r \notin Straight(i)
    BY <1>5 DEF Straight, SettledRows
  <2>3. CASE r \notin Straight(i)'
    <3>1. ASSUME NEW q \in Straight(i)'
          PROVE  q \in Straight(i) /\ rows'[q] = rows[q]
      <4>1. q \in Requests
        BY DEF Straight, SettledRows
      <4>2. rows'[q] = rows[q]
        BY <1>4, <2>3, <4>1
      <4> QED
        BY <4>1, <4>2 DEF Straight, SettledRows
    <3> QED
      BY <2>1, <3>1, MandateKept DEF FundsInv
  <2>4. CASE r \in Straight(i)'
    <3>1. PICK f : f = [q \in Requests |-> AsQuoted(rows[q])]
      OBVIOUS
    <3>2. PICK p : p = [q \in Requests |-> AsQuoted(rows'[q])]
      OBVIOUS
    <3>3. PICK S : S = Straight(i)
      OBVIOUS
    <3>4. Straight(i)' = S \cup {r}
      <4>1. \A q \in Requests : q # r => (q \in Straight(i)' <=> q \in Straight(i))
        BY <1>4 DEF Straight, SettledRows
      <4>2. Straight(i) \subseteq Requests /\ Straight(i)' \subseteq Requests
        BY DEF Straight, SettledRows
      <4> QED
        BY <2>4, <3>3, <4>1, <4>2
    <3>5. S \subseteq Requests /\ IsFiniteSet(S)
      <4>1. S \subseteq Requests
        BY <3>3 DEF Straight, SettledRows
      <4> QED
        BY <4>1, FS_Subset DEF Bounded
    <3>6. \A q \in Requests : f[q] \in Nat /\ p[q] \in Nat
      BY <3>1, <3>2, PaidIs DEF Inv, JobsTyped
    <3>7. SumFunctionOnSet(p, S \cup {r}) = p[r] + SumFunctionOnSet(p, S)
      BY <1>4, <2>2, <3>3, <3>5, <3>6, SumAdd
    <3>8. p[r] <= job[d].amount
      <4>1. rows'[r] \in RowShape(rows'[r])
        BY <1>4 DEF Inv, JobsTyped
      <4>2. AsQuoted(rows'[r]) <= rows'[r].amount
        BY <4>1, PaidIs
      <4> QED
        BY <1>4, <1>5, <3>2, <4>2
    <3>14. SumFunctionOnSet(f, S) = SumFunctionOnSet(p, S)
      <4>1. \A q \in S : f[q] \in Nat /\ p[q] = f[q]
        BY <1>4, <2>2, <3>1, <3>2, <3>3, <3>5, <3>6
      <4> QED
        BY <3>5, <4>1, SumSame
    <3>15. QuotedOf(Straight(i))' = p[r] + QuotedOf(Straight(i))
      BY <3>1, <3>2, <3>3, <3>4, <3>7, <3>14 DEF QuotedOf
    <3>9. d \in InFlight(i)
      BY <1>2, <1>4, <1>5, <2>4 DEF Straight, InFlight, Weighed
    <3>10. AtStake(i) = job[d].amount + AtStake(i)' /\ AtStake(i)' \in Nat
      <4>1. PICK g : g = [e \in Deciders |-> job[e].amount]
        OBVIOUS
      <4>2. PICK h : h = [e \in Deciders |-> job'[e].amount]
        OBVIOUS
      <4>3. PICK T : T = InFlight(i)
        OBVIOUS
      <4>4. InFlight(i)' = T \ {d}
        BY <1>3, <2>1, <4>3 DEF InFlight
      <4>5. T \subseteq Deciders /\ IsFiniteSet(T)
        <5>1. T \subseteq Deciders
          BY <4>3 DEF InFlight
        <5> QED
          BY <5>1, FS_Subset DEF Bounded
      <4>6. \A e \in T : g[e] \in Nat
        BY <4>1, <4>5 DEF Inv, JobsTyped, JobShape
      <4>7. PICK U : U = T \ {d}
        OBVIOUS
      <4>8. SumFunctionOnSet(g, T) = g[d] + SumFunctionOnSet(g, U)
        BY <3>9, <4>3, <4>5, <4>6, <4>7, SumRemove
      <4>9. U \subseteq T /\ IsFiniteSet(U)
        BY <4>5, <4>7, FS_Subset
      <4>10. \A e \in U : g[e] \in Nat /\ h[e] = g[e]
        BY <1>3, <4>1, <4>2, <4>5, <4>6, <4>7
      <4>11. SumFunctionOnSet(g, U) = SumFunctionOnSet(h, U) /\ SumFunctionOnSet(g, U) \in Nat
        BY <4>9, <4>10, SumSame, SumType
      <4>12. AtStake(i) = SumFunctionOnSet(g, T) /\ AtStake(i)' = SumFunctionOnSet(h, U)
        BY <4>1, <4>2, <4>3, <4>4, <4>7 DEF AtStake
      <4> QED
        BY <4>1, <4>8, <4>11, <4>12
    <3>11. QuotedOf(Straight(i)) \in Nat /\ job[d].amount \in Nat /\ p[r] \in Nat
      <4>1. QuotedOf(Straight(i)) = SumFunctionOnSet(f, S)
        BY <3>1, <3>3 DEF QuotedOf
      <4>2. SumFunctionOnSet(f, S) \in Nat
        BY <3>5, <3>6, SumType
      <4> QED
        BY <1>4, <3>6, <4>1, <4>2 DEF Inv, JobsTyped, JobShape
    <3>12. /\ Cap(i) \in Nat /\ Cap(i)' \in Nat /\ Cap(i) <= Cap(i)'
           /\ overlap[i] \in Nat /\ overlap'[i] \in Nat /\ overlap[i] <= overlap'[i]
      BY CapGrows, OverlapGrows DEF FundsInv
    <3>13. WithinMandate(i)
      BY DEF FundsInv
    <3> QED
      BY <3>8, <3>15, <3>10, <3>11, <3>12, <3>13 DEF WithinMandate
  <2> QED
    BY <2>3, <2>4
<1> QED
  BY <1>1, <1>3, <1>4, <1>6, <1>7, OwnFunds

LEMMA ThinksFunds ==
    ASSUME Bounded, Inv, Inv', Apart, [Next]_vars, FundsInv, NEW d \in Deciders, Thinks(d)
    PROVE  FundsInv'
<1>0. JobsTyped /\ FilesInv /\ Backed(d) /\ Mandated(d)
  BY DEF Inv, FundsInv, Backed
<1>1. CASE Ask(d)
  <2>1. /\ pc' = [pc EXCEPT ![d] = "asked"] /\ job' = [job EXCEPT ![d] = job'[d]]
        /\ rows' = rows
    BY <1>0, <1>1, AskIs DEF Reading
  <2>2. pc'[d] = "asked" /\ \A e \in Deciders : e # d => pc'[e] = pc[e] /\ job'[e] = job[e]
    BY <1>0, <2>1 DEF JobsTyped
  <2>3. Backed(d)'
    BY <1>0, <1>1, <2>2, AsksFor DEF Backed, Mandated
  <2>4. \A i \in IntentIds : d \notin InFlight(i)'
    BY <2>2 DEF InFlight, Weighed
  <2> QED
    BY <2>1, <2>2, <2>3, <2>4, QuietFunds
<1>2. CASE FindIntent(d) \/ FindLapsed(d)
  <2>1. PICK place \in {"lapsed", "looked"} : Onward(d, place)
    BY <1>0, <1>2, FindIntentOnward, FindLapsedOnward
  <2>2. ceiling' = ceiling
    BY <2>1 DEF Onward, Reading
  <2>3. job'[d].amount = job[d].amount /\ Mandated(d)'
    BY <1>0, <1>2, <2>2, FindsFor DEF Mandated
  <2>4. place \notin Weighed /\ place # "approved"
    BY DEF Weighed
  <2> QED
    BY <2>1, <2>3, <2>4, OnwardFunds
<1>3. CASE WeighIntent(d)
  BY <1>3, WeighFunds
<1>4. CASE FindIdentity(d) \/ FindParent(d) \/ LookAgain(d) \/ LookForLapsedAgain(d)
  <2>1. PICK place \in {"delegated", "decided", "again", "ready"} :
            Onward(d, place) /\ pc[d] \in Weighed
    BY <1>0, <1>4, FindIdentityOnward, FindParentOnward, LookAgainOnward DEF Weighed
  <2>2. /\ job'[d].amount = job[d].amount /\ job'[d].intent = job[d].intent
        /\ job'[d].max = job[d].max
    BY <1>0, <1>4, KeepsFor
  <2>3. ceiling' = ceiling
    BY <2>1 DEF Onward, Reading
  <2>4. Mandated(d)'
    BY <1>0, <2>2, <2>3 DEF Mandated
  <2> QED
    BY <2>1, <2>2, <2>4, OnwardFunds
<1>5. CASE Record(d)
  BY <1>5, RecordFunds
<1>6. CASE Queued(d)
  <2>1. Leave(d) /\ rows' = rows
    BY <1>6 DEF Queued, Reading
  <2> QED
    BY <2>1, LeaveFunds
<1>7. CASE Settle(d)
  BY <1>7, SettleFunds
<1> QED
  BY <1>1, <1>2, <1>3, <1>4, <1>5, <1>6, <1>7 DEF Thinks

LEMMA FundsStep ==
    ASSUME Bounded, Inv, Inv', Apart, [Next]_vars, FundsInv
    PROVE  FundsInv'
<1>1. CASE UNCHANGED <<rows, pc, job>>
  BY <1>1, StillFunds
<1>2. ASSUME NEW o \in Operators, Operate(o) \/ CrashOperator(o)
      PROVE  UNCHANGED <<rows, pc, job>>
  BY <1>2, OperateIs DEF CrashOperator
<1>3. ASSUME NEW p \in Processes, Truncate(p)
      PROVE  UNCHANGED <<rows, pc, job>>
  BY <1>3 DEF Truncate
<1>4. ASSUME NEW p \in Processes, Write(p)
      PROVE  FundsInv'
  <2>1. /\ UNCHANGED <<rows, pc>>
        /\ \A d \in Deciders :
              /\ job'[d].request = job[d].request /\ job'[d].verdict = job[d].verdict
              /\ job'[d].intent = job[d].intent
    BY <1>4, WriteJobs DEF Inv
  <2>2. \A d \in Deciders : job'[d].amount = job[d].amount /\ job'[d].max = job[d].max
    BY <1>4, WritesFor DEF Inv
  <2> QED
    BY <2>1, <2>2, StillFunds
<1>5. ASSUME NEW d \in Deciders, Enqueue(d)
      PROVE  FundsInv'
  <2>1. /\ pc[d] = "queueing" /\ pc' = [pc EXCEPT ![d] = "queued"] /\ UNCHANGED <<rows, job>>
    BY <1>5 DEF Enqueue, Go
  <2>2. \A e \in Deciders : pc'[e] = pc[e] \/ (pc[e] = "queueing" /\ pc'[e] = "queued")
    BY <2>1 DEF Inv, JobsTyped
  <2> QED
    BY <2>1, <2>2, StillFunds
<1>6. ASSUME NEW d \in Deciders, CrashDecider(d)
      PROVE  FundsInv'
  <2>1. Leave(d) /\ rows' = rows
    BY <1>6, CrashIs
  <2> QED
    BY <2>1, LeaveFunds
<1>7. CASE Tick \/ UNCHANGED vars
  BY <1>1, <1>7 DEF Tick, vars
<1> QED
  BY <1>1, <1>2, <1>3, <1>4, <1>5, <1>6, <1>7, StepKinds, ThinksFunds

LEMMA FundsInit ==
    ASSUME Bounded, Init
    PROVE  FundsInv
<1>1. \A d \in Deciders : pc[d] = "idle" /\ job[d].intent = None
  BY NoJobIs DEF Init
<1>2. \A d \in Deciders : Backed(d)
  BY <1>1 DEF Backed, Mandated
<1>3. ASSUME NEW i \in IntentIds
      PROVE  WithinMandate(i)
  <2>1. Straight(i) = {} /\ InFlight(i) = {}
    BY <1>1 DEF Init, Straight, SettledRows, NoRow, InFlight, Weighed
  <2>2. QuotedOf(Straight(i)) = 0 /\ AtStake(i) = 0
    BY <2>1, SumEmpty DEF QuotedOf, AtStake
  <2>3. Cap(i) \in Nat
    BY FilesInit DEF FilesInv, Limits, Cap
  <2>4. overlap[i] = 0
    BY DEF Init
  <2> QED
    BY <2>2, <2>3, <2>4 DEF WithinMandate
<1>4. overlap \in [IntentIds -> Nat]
  BY DEF Init
<1> QED
  BY <1>2, <1>3, <1>4 DEF FundsInv

\* What is spent under an intent stays within what was declared for it, over all its payments,
\* but for what others had in flight when one more was let through, what settlements came to
\* above their quotes and what advise() charged to it that was decided under another: for any
\* number of deciders, whatever interleaves and crashes.
THEOREM AuthoritySpentWithinIntent ==
    ASSUME Bounded
    PROVE  Spec => []SpentWithinIntent
<1>1. Init => FundsInv
  BY FundsInit
<1>2. Inv /\ Inv' /\ QueueInv /\ FundsInv /\ [Next]_vars => FundsInv'
  BY FundsStep DEF QueueInv
<1>3. Inv /\ FundsInv => SpentWithinIntent
  <2> SUFFICES ASSUME Inv, FundsInv, NEW i \in IntentIds, ceiling[i] # NotDeclared,
                      NEW straight, NEW strays, straight = Straight(i),
                      strays = {r \in SettledRows : rows[r].intent = i /\ rows[r].under # i}
               PROVE  SpentUnderIntent(i) <= ceiling[i] + overlap[i] + OverchargeOf(straight)
                                             + AmountOf(strays)
    BY DEF SpentWithinIntent, Straight
  <2>1. /\ QuotedOf(Straight(i)) \in Nat /\ OverchargeOf(straight) \in Nat
        /\ AmountOf(strays) \in Nat
        /\ SpentUnderIntent(i) = QuotedOf(Straight(i)) + OverchargeOf(straight) + AmountOf(strays)
    BY SpentIs DEF Inv
  <2>2. AtStake(i) \in Nat /\ overlap[i] \in Nat
    BY StakeIs DEF Inv, FundsInv
  <2>3. Cap(i) = ceiling[i] /\ ceiling[i] \in Nat
    BY DEF Cap, Inv, FilesInv, Limits
  <2>4. QuotedOf(Straight(i)) + AtStake(i) <= Cap(i) + overlap[i]
    BY DEF FundsInv, WithinMandate
  <2> QED
    BY <2>1, <2>2, <2>3, <2>4
<1> QED
  BY <1>1, <1>2, <1>3, InvInit, InvStep, QueueInit, QueueStep, PTL DEF Spec

-----------------------------------------------------------------------------
(***************************************************************************)
(* The depth of a delegation.                                              *)
(***************************************************************************)
LEMMA LeastOf ==
    ASSUME NEW T, T \subseteq Nat, T # {}
    PROVE  \E m \in T : \A n \in T : m <= n
<1> DEFINE R == OpToRel(<, Nat)
<1>1. PICK m \in T : \A n \in T : <<n, m>> \notin R
  <2>1. IsWellFoundedOn(R, Nat)
    BY NatLessThanWellFounded
  <2> HIDE DEF R
  <2> QED
    BY <2>1, WFMin
<1>2. \A n \in T : ~(n < m)
  BY <1>1 DEF OpToRel
<1> QED
  BY <1>2

\* What the file of identities is, and nothing else of it matters here.
Lineage(f) == DOMAIN f \subseteq Agents /\ \A b \in DOMAIN f : f[b].terms.parent \in Agents \cup {None}

\* The chain of parents that delegation_depth follows, over n links.
Climb(at, f, a, n) == at = [m \in 0..n |-> IF m = 0 THEN a ELSE Up(f, at[m - 1])]

\* Those an agent answers to: the least set with its parent and theirs.
Holds(f, a, S) == /\ Up(f, a) # None => Up(f, a) \in S
                  /\ \A b \in S : Up(f, b) # None => Up(f, b) \in S
Over(f, a) == {b \in Agents : \A T \in SUBSET Agents : Holds(f, a, T) => b \in T}

LEMMA UpIs ==
    ASSUME NEW f, Lineage(f)
    PROVE  Up(f, None) = None /\ \A b : Up(f, b) \in Agents \cup {None}
BY AuthorityAssumption DEF AuthorityAssumption, Lineage, Up

LEMMA ClimbExists ==
    ASSUME NEW f, NEW a, NEW n \in Nat
    PROVE  \E at : Climb(at, f, a, n)
<1> DEFINE T == {m \in Nat : ~ \E at : Climb(at, f, a, m)}
<1>1. SUFFICES ASSUME T # {}
               PROVE  FALSE
  OBVIOUS
<1>2. PICK m \in T : \A k \in T : m <= k
  <2> HIDE DEF T
  <2>1. T \subseteq Nat
    BY DEF T
  <2> QED
    BY <1>1, <2>1, LeastOf
<1>3. m # 0
  <2>1. Climb([k \in 0..0 |-> a], f, a, 0)
    BY DEF Climb
  <2> QED
    BY <2>1
<1>4. m - 1 \in Nat /\ m - 1 \notin T
  BY <1>2, <1>3
<1>5. PICK at : Climb(at, f, a, m - 1)
  BY <1>4
<1> DEFINE on == [k \in 0..m |-> IF k = m THEN Up(f, at[m - 1]) ELSE at[k]]
<1>6. DOMAIN on = 0..m /\ m \in Nat
  OBVIOUS
<1>7. ASSUME NEW k \in 0..m
      PROVE  on[k] = IF k = 0 THEN a ELSE Up(f, on[k - 1])
  <2>1. CASE k = m
    BY <2>1, <1>3
  <2>2. CASE k # m
    <3>1. k \in 0..(m - 1)
      BY <2>2
    <3>2. at[k] = IF k = 0 THEN a ELSE Up(f, at[k - 1])
      BY <3>1, <1>5 DEF Climb
    <3>3. on[k] = at[k] /\ (k # 0 => on[k - 1] = at[k - 1])
      BY <2>2, <3>1
    <3> QED
      BY <3>2, <3>3
  <2> QED
    BY <2>1, <2>2
<1>8. Climb(on, f, a, m)
  <2>1. on = [k \in 0..m |-> on[k]]
    OBVIOUS
  <2> HIDE DEF on
  <2> QED
    BY <2>1, <1>7 DEF Climb
<1> QED
  BY <1>2, <1>8

LEMMA ClimbIs ==
    ASSUME NEW f, NEW a \in Agents, NEW n \in Nat, NEW at, Climb(at, f, a, n), Lineage(f)
    PROVE  /\ at[0] = a
           /\ \A m \in 1..n : at[m] = Up(f, at[m - 1])
           /\ \A m \in 0..n : at[m] \in Agents \cup {None}
<1>1. \A m \in 0..n : at[m] = IF m = 0 THEN a ELSE Up(f, at[m - 1])
  BY DEF Climb
<1>2. at[0] = a /\ \A m \in 1..n : at[m] = Up(f, at[m - 1])
  BY <1>1
<1>3. \A m \in 0..n : m = 0 \/ m \in 1..n
  OBVIOUS
<1> QED
  BY <1>2, <1>3, UpIs

\* Above the top of the chain there is nothing.
LEMMA NoneStays ==
    ASSUME NEW f, NEW a \in Agents, NEW n \in Nat, NEW at, Climb(at, f, a, n), Lineage(f),
           NEW j \in 0..n, at[j] = None, NEW k \in j..n
    PROVE  at[k] = None
<1> DEFINE T == {m \in j..n : at[m] # None}
<1>1. SUFFICES ASSUME T # {}
               PROVE  FALSE
  OBVIOUS
<1>2. PICK m \in T : \A i \in T : m <= i
  <2> HIDE DEF T
  <2>1. T \subseteq Nat
    BY DEF T
  <2> QED
    BY <1>1, <2>1, LeastOf
<1>3. m # j /\ m \in 1..n /\ m - 1 \in j..n
  OBVIOUS
<1>4. at[m - 1] = None
  BY <1>2, <1>3
<1>5. at[m] = Up(f, at[m - 1])
  BY <1>3, ClimbIs
<1> QED
  BY <1>4, <1>5, UpIs

\* Where the chain meets itself it runs on as before.
LEMMA MeetsAgain ==
    ASSUME NEW f, NEW a \in Agents, NEW n \in Nat, NEW at, Climb(at, f, a, n), Lineage(f),
           NEW j \in 0..n, NEW k \in j..n, at[j] = at[k], NEW t \in 0..(n - k)
    PROVE  at[j + t] = at[k + t]
<1> DEFINE T == {m \in 0..(n - k) : at[j + m] # at[k + m]}
<1>1. SUFFICES ASSUME T # {}
               PROVE  FALSE
  OBVIOUS
<1>2. PICK m \in T : \A i \in T : m <= i
  <2> HIDE DEF T
  <2>1. T \subseteq Nat
    BY DEF T
  <2> QED
    BY <1>1, <2>1, LeastOf
<1>3. m # 0
  OBVIOUS
<1>4. m - 1 \in 0..(n - k) /\ m - 1 \notin T
  BY <1>2, <1>3
<1>5. at[j + (m - 1)] = at[k + (m - 1)]
  BY <1>4
<1>6. /\ j + m \in 1..n /\ (j + m) - 1 = j + (m - 1)
      /\ k + m \in 1..n /\ (k + m) - 1 = k + (m - 1)
  BY <1>3
<1>7. at[j + m] = Up(f, at[j + (m - 1)]) /\ at[k + m] = Up(f, at[k + (m - 1)])
  BY <1>6, ClimbIs
<1> QED
  BY <1>2, <1>5, <1>7

LEMMA OverHolds ==
    ASSUME NEW f, Lineage(f), NEW a \in Agents
    PROVE  /\ Over(f, a) \in SUBSET Agents
           /\ Holds(f, a, Over(f, a))
           /\ \A T \in SUBSET Agents : Holds(f, a, T) => Over(f, a) \subseteq T
<1>1. \A b : Up(f, b) # None => Up(f, b) \in Agents
  BY UpIs
<1> QED
  BY <1>1 DEF Over, Holds

\* All the chain meets is above its start.
LEMMA ClimbsOver ==
    ASSUME NEW f, NEW a \in Agents, NEW n \in Nat, NEW at, Climb(at, f, a, n), Lineage(f),
           NEW k \in 1..n, at[k] # None
    PROVE  at[k] \in Over(f, a)
<1> DEFINE T == {m \in 1..n : at[m] # None /\ at[m] \notin Over(f, a)}
<1>1. SUFFICES ASSUME T # {}
               PROVE  FALSE
  OBVIOUS
<1>2. PICK m \in T : \A i \in T : m <= i
  <2> HIDE DEF T
  <2>1. T \subseteq Nat
    BY DEF T
  <2> QED
    BY <1>1, <2>1, LeastOf
<1>3. at[m] = Up(f, at[m - 1])
  BY ClimbIs
<1>4. CASE m = 1
  <2>1. at[m - 1] = a
    BY <1>4, ClimbIs
  <2> QED
    BY <1>3, <2>1, OverHolds DEF Holds
<1>5. CASE m # 1
  <2>1. m - 1 \in 1..n /\ m - 1 \notin T
    BY <1>2, <1>5
  <2>2. at[m - 1] # None
    BY <1>3, UpIs
  <2>3. at[m - 1] \in Over(f, a)
    BY <2>1, <2>2
  <2> QED
    BY <1>3, <2>3, OverHolds DEF Holds
<1> QED
  BY <1>4, <1>5

\* A chain that ends counts those above its start.
LEMMA EndCounts ==
    ASSUME NEW f, NEW a \in Agents, NEW n \in Nat, NEW at, Climb(at, f, a, n), Lineage(f),
           NEW e \in 0..n, at[e] \in DOMAIN f, Up(f, at[e]) = None
    PROVE  /\ a \in DOMAIN f /\ a \notin Over(f, a) /\ Over(f, a) \subseteq DOMAIN f
           /\ \E b \in Over(f, a) \cup {a} : Up(f, b) = None
           /\ Cardinality(Over(f, a)) = e
<1> DEFINE C == {at[m] : m \in 1..e}
<1>1. ASSUME NEW m \in 0..e
      PROVE  at[m] # None
  <2>1. e \in m..n
    OBVIOUS
  <2>2. at[e] # None
    BY AuthorityAssumption DEF AuthorityAssumption, Lineage
  <2> QED
    BY <2>1, <2>2, NoneStays
<1>2. ASSUME NEW m \in 0..(e - 1)
      PROVE  m + 1 \in 1..e /\ at[m + 1] = Up(f, at[m]) /\ Up(f, at[m]) # None
  <2>1. m + 1 \in 1..e /\ m + 1 \in 1..n /\ (m + 1) - 1 = m
    OBVIOUS
  <2>2. at[m + 1] = Up(f, at[m])
    BY <2>1, ClimbIs
  <2> QED
    BY <2>1, <2>2, <1>1
<1>3. \A m \in 0..e : at[m] \in DOMAIN f
  <2> SUFFICES ASSUME NEW m \in 0..e
               PROVE  at[m] \in DOMAIN f
    OBVIOUS
  <2>1. CASE m = e
    BY <2>1
  <2>2. CASE m # e
    BY <2>2, <1>2 DEF Up
  <2> QED
    BY <2>1, <2>2
<1>4. at[0] = a
  BY ClimbIs
<1>5. ASSUME NEW m \in 0..e, Up(f, at[m]) # None
      PROVE  Up(f, at[m]) \in C
  <2>1. m \in 0..(e - 1)
    BY <1>5
  <2> QED
    BY <2>1, <1>2
<1>6. C \in SUBSET Agents
  <2>1. \A m \in 1..e : at[m] \in Agents
    BY <1>3 DEF Lineage
  <2> QED
    BY <2>1
<1>7. Holds(f, a, C)
  <2>1. Up(f, a) # None => Up(f, a) \in C
    BY <1>4, <1>5
  <2>2. \A b \in C : Up(f, b) # None => Up(f, b) \in C
    <3> SUFFICES ASSUME NEW m \in 1..e, Up(f, at[m]) # None
                 PROVE  Up(f, at[m]) \in C
      OBVIOUS
    <3> QED
      BY <1>5
  <2> QED
    BY <2>1, <2>2 DEF Holds
<1>8. C \subseteq Over(f, a)
  <2> SUFFICES ASSUME NEW m \in 1..e
               PROVE  at[m] \in Over(f, a)
    OBVIOUS
  <2> QED
    BY <1>1, ClimbsOver
<1>9. Over(f, a) = C
  BY <1>6, <1>7, <1>8, OverHolds
<1>10. ASSUME NEW j \in 0..e, NEW k \in 0..e, j < k
       PROVE  at[j] # at[k]
  <2> SUFFICES ASSUME at[j] = at[k]
               PROVE  FALSE
    OBVIOUS
  <2>1. /\ k \in j..n
        /\ e - k \in 0..(n - k)
        /\ k + (e - k) = e
        /\ j + (e - k) \in 0..(e - 1)
    BY <1>10
  <2>2. at[j + (e - k)] = at[e]
    <3>1. PICK t \in 0..(n - k) : t = e - k
      BY <2>1
    <3>2. at[j + t] = at[k + t]
      BY <2>1, MeetsAgain
    <3> QED
      BY <2>1, <3>1, <3>2
  <2> QED
    BY <2>1, <2>2, <1>2
<1>11. a \notin C
  BY <1>4, <1>10
<1>12. Cardinality(C) = e
  <2> DEFINE g == [m \in 1..e |-> at[m]]
  <2>1. g \in [1..e -> C]
    OBVIOUS
  <2>2. \A j, k \in 1..e : g[j] = g[k] => j = k
    <3> SUFFICES ASSUME NEW j \in 1..e, NEW k \in 1..e, g[j] = g[k], j # k
                 PROVE  FALSE
      OBVIOUS
    <3>1. j < k \/ k < j
      OBVIOUS
    <3> QED
      BY <3>1, <1>10
  <2>3. \A b \in C : \E m \in 1..e : g[m] = b
    OBVIOUS
  <2> HIDE DEF C
  <2>4. g \in Bijection(1..e, C)
    BY <2>1, <2>2, <2>3 DEF Bijection, Injection, Surjection, IsInjective
  <2> QED
    BY <2>4, FS_CountingElements DEF ExistsBijection
<1>13. \E b \in C \cup {a} : Up(f, b) = None
  <2>1. at[e] \in C \cup {a}
    BY <1>4
  <2> QED
    BY <2>1
<1> QED
  BY <1>3, <1>4, <1>9, <1>11, <1>12, <1>13

\* As many links as there are agents are enough to find the end of a chain that has one.
LEMMA EndFound ==
    ASSUME NEW f, NEW a \in Agents, NEW n \in Nat, NEW at, Climb(at, f, a, n), Lineage(f),
           IsFiniteSet(Agents), n = Cardinality(Agents),
           a \in DOMAIN f, Over(f, a) \subseteq DOMAIN f,
           NEW b \in Over(f, a) \cup {a}, Up(f, b) = None
    PROVE  \E e \in 0..n : at[e] \in DOMAIN f /\ Up(f, at[e]) = None
<1>1. at[0] = a
  BY ClimbIs
<1>2. CASE \E m \in 0..n : at[m] = None
  <2> DEFINE T == {m \in 0..n : at[m] = None}
  <2>1. PICK m \in T : \A i \in T : m <= i
    <3>1. T # {} /\ T \subseteq Nat
      BY <1>2
    <3> HIDE DEF T
    <3> QED
      BY <3>1, LeastOf
  <2>2. m # 0
    BY <1>1, AuthorityAssumption DEF AuthorityAssumption
  <2>3. m \in 1..n /\ m - 1 \in 0..n /\ m - 1 \notin T
    BY <2>1, <2>2
  <2>4. at[m - 1] # None /\ Up(f, at[m - 1]) = None
    BY <2>1, <2>3, ClimbIs
  <2>5. at[m - 1] \in DOMAIN f
    <3>1. CASE m = 1
      BY <3>1, <1>1
    <3>2. CASE m # 1
      <4>1. m - 1 \in 1..n
        BY <2>3, <3>2
      <4> QED
        BY <4>1, <2>4, ClimbsOver
    <3> QED
      BY <3>1, <3>2
  <2> QED
    BY <2>3, <2>4, <2>5
<1>3. CASE \A m \in 0..n : at[m] # None
  <2>1. \A m \in 0..n : at[m] \in Agents
    BY <1>3, ClimbIs
  <2>2. PICK j \in 0..n, k \in 0..n : j < k /\ at[j] = at[k]
    <3> DEFINE g == [m \in 0..n |-> at[m]]
    <3>1. g \in [0..n -> Agents]
      BY <2>1
    <3>2. IsFiniteSet(0..n) /\ Cardinality(Agents) < Cardinality(0..n)
      <4>1. IsFiniteSet(0..n) /\ Cardinality(0..n) = n + 1
        BY FS_Interval
      <4> QED
        BY <4>1
    <3> HIDE DEF g
    <3>3. PICK x \in 0..n, y \in 0..n : x # y /\ g[x] = g[y]
      BY <3>1, <3>2, FS_PigeonHole
    <3>4. at[x] = at[y] /\ (x < y \/ y < x)
      BY <3>3 DEF g
    <3> QED
      BY <3>4
  <2> DEFINE C == {at[m] : m \in 1..n}
  <2>3. /\ k \in j..n
        /\ n - k \in 0..(n - k)
        /\ k + (n - k) = n
        /\ j + (n - k) \in 0..(n - 1)
    BY <2>2
  <2>4. at[j + (n - k)] = at[n]
    <3>1. PICK t \in 0..(n - k) : t = n - k
      BY <2>3
    <3>2. at[j + t] = at[k + t]
      BY <2>2, <2>3, MeetsAgain
    <3> QED
      BY <3>1, <3>2, <2>3
  <2>5. ASSUME NEW m \in 0..(n - 1)
        PROVE  m + 1 \in 1..n /\ at[m + 1] = Up(f, at[m])
    <3>1. m + 1 \in 1..n /\ (m + 1) - 1 = m
      OBVIOUS
    <3> QED
      BY <3>1, ClimbIs
  <2>6. ASSUME NEW m \in 0..n
        PROVE  Up(f, at[m]) \in C
    <3>1. CASE m = n
      <4>1. Up(f, at[m]) = Up(f, at[j + (n - k)])
        BY <3>1, <2>4
      <4> QED
        BY <4>1, <2>3, <2>5
    <3>2. CASE m # n
      <4>1. m \in 0..(n - 1)
        BY <3>2
      <4> QED
        BY <4>1, <2>5
    <3> QED
      BY <3>1, <3>2
  <2>7. C \in SUBSET Agents
    BY <2>1
  <2>8. Holds(f, a, C)
    <3>1. Up(f, a) \in C
      BY <1>1, <2>6
    <3>2. \A c \in C : Up(f, c) \in C
      <4> SUFFICES ASSUME NEW m \in 1..n
                   PROVE  Up(f, at[m]) \in C
        OBVIOUS
      <4> QED
        BY <2>6
    <3> QED
      BY <3>1, <3>2 DEF Holds
  <2>9. Over(f, a) \subseteq C
    BY <2>7, <2>8, OverHolds
  <2>10. Up(f, b) \in C
    <3>1. PICK m \in 0..n : b = at[m]
      BY <1>1, <2>9
    <3> QED
      BY <3>1, <2>6
  <2> QED
    BY <2>7, <2>10, AuthorityAssumption DEF AuthorityAssumption
<1> QED
  BY <1>2, <1>3

LEMMA DepthIs ==
    ASSUME NEW f, NEW a \in Agents, Lineage(f), IsFiniteSet(Agents)
    PROVE  DelegationDepth(f, a) =
               IF /\ a \in DOMAIN f /\ a \notin Over(f, a) /\ Over(f, a) \subseteq DOMAIN f
                  /\ \E b \in Over(f, a) \cup {a} : Up(f, b) = None
               THEN Cardinality(Over(f, a)) ELSE UnknownDepth
<1> DEFINE n == Cardinality(Agents)
           at == CHOOSE g : Climb(g, f, a, n)
           ends == {m \in 0..n : at[m] \in DOMAIN f /\ Up(f, at[m]) = None}
<1>1. DelegationDepth(f, a) = IF ends = {} THEN UnknownDepth ELSE Min(ends)
  BY DEF DelegationDepth, Climb
<1>2. n \in Nat
  BY FS_CardinalityType
<1> HIDE DEF n
<1>3. Climb(at, f, a, n)
  BY <1>2, ClimbExists
<1> HIDE DEF at
<1>4. \A e \in ends : /\ a \in DOMAIN f /\ a \notin Over(f, a) /\ Over(f, a) \subseteq DOMAIN f
                      /\ \E b \in Over(f, a) \cup {a} : Up(f, b) = None
                      /\ Cardinality(Over(f, a)) = e
  BY <1>2, <1>3, EndCounts
<1>5. CASE ends = {}
  <2>1. ~ (/\ a \in DOMAIN f /\ a \notin Over(f, a) /\ Over(f, a) \subseteq DOMAIN f
           /\ \E b \in Over(f, a) \cup {a} : Up(f, b) = None)
    BY <1>2, <1>3, <1>5, EndFound DEF n
  <2> QED
    BY <1>1, <1>5, <2>1
<1>6. CASE ends # {}
  <2>1. PICK e : e \in ends
    BY <1>6
  <2>2. \A d \in ends : d = e
    BY <2>1, <1>4
  <2>3. Min(ends) = e
    <3>1. ends = {e} /\ e \in 0..n
      BY <2>1, <2>2
    <3> HIDE DEF ends
    <3> QED
      BY <3>1, <1>2 DEF Min
  <2> QED
    BY <1>1, <1>4, <1>6, <2>1, <2>3
<1> QED
  BY <1>5, <1>6

\* Above, as DepthIsHonest chooses it, is what the chain can meet.
LEMMA AboveIs ==
    ASSUME NEW f, Lineage(f), NEW a \in Agents
    PROVE  (CHOOSE S \in SUBSET Agents :
               /\ Holds(f, a, S)
               /\ \A T \in SUBSET Agents : Holds(f, a, T) => S \subseteq T) = Over(f, a)
BY OverHolds

\* The recorded depth counts the agents above one, or says that it is not known.
THEOREM AuthorityDepthIsHonest ==
    ASSUME IsFiniteSet(Agents)
    PROVE  Spec => []DepthIsHonest
<1>1. Inv => DepthIsHonest
  <2> SUFFICES ASSUME Inv, NEW a \in Agents
               PROVE  LET f == files["identities"]
                          Closed(S) == \A b \in S : Up(f, b) # None => Up(f, b) \in S
                          Above == CHOOSE S \in SUBSET Agents :
                                      /\ (Up(f, a) # None => Up(f, a) \in S) /\ Closed(S)
                                      /\ \A T \in SUBSET Agents :
                                            (Up(f, a) # None => Up(f, a) \in T) /\ Closed(T) => S \subseteq T
                      IN  DelegationDepth(f, a) =
                              IF a \in DOMAIN f /\ a \notin Above /\ Above \subseteq DOMAIN f
                                 /\ \E b \in Above \cup {a} : Up(f, b) = None
                              THEN Cardinality(Above) ELSE UnknownDepth
    BY DEF DepthIsHonest
  <2>1. PICK f : f = files["identities"]
    OBVIOUS
  <2>2. Lineage(f)
    <3>1. IdentityFile(f)
      BY <2>1 DEF Inv, FilesInv, Whole, Files
    <3> QED
      BY <3>1 DEF IdentityFile, Lineage, Identity, Authorities
  <2> DEFINE Above == CHOOSE S \in SUBSET Agents :
                         /\ Holds(f, a, S)
                         /\ \A T \in SUBSET Agents : Holds(f, a, T) => S \subseteq T
  <2>3. Above = Over(f, a)
    BY <2>2, AboveIs
  <2>4. DelegationDepth(f, a) =
            IF a \in DOMAIN f /\ a \notin Above /\ Above \subseteq DOMAIN f
               /\ \E b \in Above \cup {a} : Up(f, b) = None
            THEN Cardinality(Above) ELSE UnknownDepth
    <3> HIDE DEF Above
    <3> QED
      BY <2>2, <2>3, DepthIs
  <2> QED
    BY <2>1, <2>4, Zenon DEF Holds
<1> QED
  BY <1>1, InvInit, InvStep, PTL DEF Spec
=============================================================================

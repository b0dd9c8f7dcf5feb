------------------------------ MODULE Journal ------------------------------
(***************************************************************************)
(* The evidence of the layer: the append-only journal (audit.py), its      *)
(* verification, the external anchor (anchor.py) and the decision records  *)
(* that are folded from it (record.py).                                    *)
(*                                                                         *)
(* An append is a read and a write: head() reads the whole file and the    *)
(* line is then added in append mode, with no lock between the two.  The   *)
(* writers are processes that share the file.  A crash may cut a line      *)
(* short, or leave it whole without its newline; the next line is then     *)
(* glued to it.  The file may be changed from outside.                     *)
(*                                                                         *)
(* The digest is collision free: it is the term it digests.  A timestamp   *)
(* is part of the payload.                                                 *)
(***************************************************************************)
EXTENDS Integers, Sequences, FiniteSets

CONSTANTS
    Writers,        \* processes that hold an AuditLog on the file
    Ids,            \* request ids
    MaxLines,       \* bound on the lines written, and on the lines of the file
    MaxTouches      \* bound on changes from outside

ASSUME JournalAssumption == MaxLines \in Nat /\ MaxTouches \in Nat

VARIABLES
    file,           \* the lines of the journal
    open,           \* does the last line lack its newline?
    held,           \* per writer: the line it has computed and not yet written
    settled,        \* ids the store holds as settled and paid
    anchor,         \* the highest commitment in the sink, or Empty
    attested,       \* history: the payloads of the file when that was published, if it verified
    written,        \* history: the entries some writer put on a line, whole
    told,           \* history: the last settlement recorded under each id
    touches         \* history: how often the file was changed from outside

vars == <<file, open, held, settled, anchor, attested, written, told, touches>>

-----------------------------------------------------------------------------
(***************************************************************************)
(* Entries.                                                                *)
(***************************************************************************)
Genesis == <<>>
Garbage == [seq |-> -1]         \* a line json.loads refuses
Nothing == [seq |-> -2]         \* a writer between two appends
Empty == [length |-> 0, head |-> <<"empty">>]
Untold == "none"

Outcomes == {"paid", "failed"}
Decided(id, verdict) == [kind |-> "decision", id |-> id, what |-> verdict]
Update(id, outcome) == [kind |-> "settlement_update", id |-> id, what |-> outcome]
Payloads == {Decided(id, v) : id \in Ids, v \in {"APPROVE", "REJECT"}}
            \cup {Update(id, o) : id \in Ids, o \in Outcomes \cup {"override"}}

\* _hash_entry
Digest(seq, prev, payload) == <<seq, prev, payload>>

\* mutant: an entry's hash does not cover the one before it
Entry_Unlinked(seq, prev, payload) ==
    [seq |-> seq, prev |-> prev, hash |-> Digest(seq, Genesis, payload), payload |-> payload]

Entry(seq, prev, payload) ==
    [seq |-> seq, prev |-> prev, hash |-> Digest(seq, prev, payload), payload |-> payload]

\* Every read goes through __iter__, which raises on a line that does not parse.
Readable == \A i \in DOMAIN file : file[i] # Garbage

\* head(): the next sequence number and the hash to chain from, as stored.
HeadRead == IF file = <<>> THEN [seq |-> 0, prev |-> Genesis]
            ELSE [seq |-> file[Len(file)].seq + 1, prev |-> file[Len(file)].hash]

-----------------------------------------------------------------------------
(***************************************************************************)
(* verify().                                                               *)
(***************************************************************************)
\* mutant: the content is not hashed again
Verifies_Unhashed ==
    \A i \in DOMAIN file :
        /\ file[i].seq = (IF i = 1 THEN 0 ELSE file[i - 1].seq + 1)
        /\ file[i].prev = (IF i = 1 THEN Genesis ELSE file[i - 1].hash)

\* mutant: links are not compared, an entry's own hash is
Verifies_Unlinked ==
    \A i \in DOMAIN file :
        file[i].hash = Digest(file[i].seq, file[i].prev, file[i].payload)

\* Over a readable file; verify() raises over another.
Verifies ==
    \A i \in DOMAIN file :
        /\ file[i].seq = (IF i = 1 THEN 0 ELSE file[i - 1].seq + 1)
        /\ file[i].prev = (IF i = 1 THEN Genesis ELSE file[i - 1].hash)
        /\ file[i].hash = Digest(file[i].seq, file[i].prev, file[i].payload)

Ok == Readable /\ Verifies

-----------------------------------------------------------------------------
Init ==
    /\ file = <<>>
    /\ open = FALSE
    /\ held = [w \in Writers |-> Nothing]
    /\ settled = {}
    /\ anchor = Empty
    /\ attested = <<>>
    /\ written = {}
    /\ told = [id \in Ids |-> Untold]
    /\ touches = 0

Compute(w, payload) ==
    /\ held[w] = Nothing
    /\ Readable
    /\ held' = [held EXCEPT ![w] = Entry(HeadRead.seq, HeadRead.prev, payload)]

\* Tesoro.authorize reaches append(): a request whose id has settled is refused.
Decide(w, id) ==
    /\ Compute(w, Decided(id, IF id \in settled THEN "REJECT" ELSE "APPROVE"))
    /\ UNCHANGED <<file, open, settled, anchor, attested, written, told, touches>>

\* Tesoro.record_settlement: the store first, then attach_settlement().  A head() that raises
\* leaves the settlement in the store alone; that case adds nothing to the file.
Settle(w, id, outcome) ==
    /\ \E i \in DOMAIN file : file[i] # Garbage /\ file[i].payload = Decided(id, "APPROVE")
    /\ settled' = IF outcome = "paid" THEN settled \cup {id} ELSE settled \ {id}
    /\ Compute(w, Update(id, outcome))
    /\ UNCHANGED <<file, open, anchor, attested, written, told, touches>>

\* record_override of the plugin: an update that tells of a person and not of money, before
\* there is a decision under its id or after it.
Override(w, id) ==
    /\ Compute(w, Update(id, "override"))
    /\ UNCHANGED <<file, open, settled, anchor, attested, written, told, touches>>

\* mutant: the file is written back from what was read, as the queue's is
Appended_Rewritten(e) == Append(SelectSeq(file, LAMBDA line : line.seq < e.seq), e)

\* Append mode: after a line without a newline, on that line.
Appended(e) == IF open THEN Append(SubSeq(file, 1, Len(file) - 1), Garbage)
               ELSE Append(file, e)

Remember(e) ==
    told' = IF e.payload.kind = "settlement_update" /\ e.payload.what \in Outcomes
            THEN [told EXCEPT ![e.payload.id] = e.payload.what] ELSE told

\* Bound: lines ever written, and lines in the file.
Room == Cardinality(written) < MaxLines /\ (open \/ Len(file) < MaxLines)

WriteLine(w) ==
    /\ held[w] # Nothing
    /\ Room
    /\ file' = Appended(held[w])
    /\ open' = FALSE
    /\ Remember(held[w])
    /\ written' = written \cup {held[w]}
    /\ held' = [held EXCEPT ![w] = Nothing]
    /\ UNCHANGED <<settled, anchor, attested, touches>>

\* The process dies before it writes, ...
CrashBefore(w) ==
    /\ held[w] # Nothing
    /\ held' = [held EXCEPT ![w] = Nothing]
    /\ UNCHANGED <<file, open, settled, anchor, attested, written, told, touches>>

\* ... part of the way through its line, or before the newline that ends it.
CrashWithin(w) ==
    /\ held[w] # Nothing
    /\ ~open /\ Room
    /\ \/ /\ file' = Append(file, Garbage)
          /\ UNCHANGED <<told, written>>
       \/ /\ file' = Append(file, held[w])
          /\ Remember(held[w])
          /\ written' = written \cup {held[w]}
    /\ open' = TRUE
    /\ held' = [held EXCEPT ![w] = Nothing]
    /\ UNCHANGED <<settled, anchor, attested, touches>>

-----------------------------------------------------------------------------
(***************************************************************************)
(* The anchor.  Whoever runs the sink publishes the length and the head.   *)
(***************************************************************************)
PayloadsOf(f) == [i \in DOMAIN f |-> f[i].payload]

Publish ==
    /\ Readable /\ file # <<>>
    /\ anchor = Empty \/ anchor.length < Len(file)
    /\ anchor' = [length |-> Len(file), head |-> HeadRead.prev]
    /\ attested' = IF Verifies THEN PayloadsOf(file) ELSE <<>>
    /\ UNCHANGED <<file, open, held, settled, written, told, touches>>

\* _recomputed_head_at: from the payloads, not from the stored hashes.
RecomputedHead_Stored(n) == file[n].hash        \* mutant: the hash the entry carries
RecomputedHead(n) ==
    LET chain[i \in 0..n] == IF i = 0 THEN Genesis
                             ELSE Digest(file[i].seq, chain[i - 1], file[i].payload)
    IN  chain[n]

\* What latest() may answer: it raises, it holds nothing, it lost the length, or it holds both.
Answers == {"raises", "nothing", "no length", "commitment"}

\* mutant: off by one
AnchorOutcome_Short(answer) ==
    IF answer # "commitment" \/ anchor = Empty THEN "unknown"
    ELSE IF anchor.length >= Len(file) THEN "truncated"
    ELSE IF RecomputedHead(anchor.length) = anchor.head THEN "consistent"
    ELSE "diverged"

AnchorOutcome(answer) ==
    IF answer # "commitment" \/ anchor = Empty THEN "unknown"
    ELSE IF anchor.length > Len(file) THEN "truncated"
    ELSE IF RecomputedHead(anchor.length) = anchor.head THEN "consistent"
    ELSE "diverged"

-----------------------------------------------------------------------------
(***************************************************************************)
(* The file is changed by something that is not an AuditLog: an entry is   *)
(* edited in place, one or the tail of them is gone, two trade places.     *)
(***************************************************************************)
Change(f) ==
    /\ touches < MaxTouches
    /\ Readable /\ ~open
    /\ file' = f
    /\ touches' = touches + 1
    /\ UNCHANGED <<open, held, settled, anchor, attested, written, told>>

EditLine == \E i \in DOMAIN file, p \in Payloads :
                /\ file[i] # Garbage
                /\ p.kind = file[i].payload.kind /\ p.id = file[i].payload.id
                /\ p # file[i].payload
                /\ Change([file EXCEPT ![i].payload = p])

Without(i) == SubSeq(file, 1, i - 1) \o SubSeq(file, i + 1, Len(file))
DropLine == \E i \in DOMAIN file : Change(Without(i))
DropTail == \E n \in 0..(Len(file) - 2) : Change(SubSeq(file, 1, n))
SwapLines == \E i \in 1..(Len(file) - 1) :
                Change([file EXCEPT ![i] = file[i + 1], ![i + 1] = file[i]])

Step(w) ==
    \/ \E id \in Ids : Decide(w, id)
    \/ \E id \in Ids, o \in Outcomes : Settle(w, id, o)
    \/ \E id \in Ids : Override(w, id)
    \/ WriteLine(w)
    \/ CrashBefore(w)
    \/ CrashWithin(w)

Outside == EditLine \/ DropLine \/ DropTail \/ SwapLines

Next == (\E w \in Writers : Step(w)) \/ Publish \/ Outside

Spec == Init /\ [][Next]_vars

-----------------------------------------------------------------------------
(***************************************************************************)
(* The records.                                                            *)
(***************************************************************************)
UpdatesOf(id) == {i \in DOMAIN file : /\ file[i].payload.kind = "settlement_update"
                                      /\ file[i].payload.id = id}

\* mutant: the fold keeps what it met first
SettlementOf_First(id) ==
    LET said == {i \in UpdatesOf(id) : file[i].payload.what \in Outcomes}
    IN  IF said = {} THEN Untold
        ELSE file[CHOOSE i \in said : \A j \in said : i <= j].payload.what

\* The last update that tells of money decides; one that tells of a person does not.
SettlementOf(id) ==
    LET said == {i \in UpdatesOf(id) : file[i].payload.what \in Outcomes}
    IN  IF said = {} THEN Untold
        ELSE file[CHOOSE i \in said : \A j \in said : j <= i].payload.what

\* records_from_journal: one record per entry with a decision; updates find it by the id.
RecordsFromJournal ==
    {[chainSequence |-> file[i].seq, decisionId |-> file[i].payload.id,
      decision |-> file[i].payload.what,
      settlement |-> SettlementOf(file[i].payload.id),
      humanReview |-> \E j \in UpdatesOf(file[i].payload.id) : file[j].payload.what = "override"]
        : i \in {k \in DOMAIN file : file[k].payload.kind = "decision"}}

-----------------------------------------------------------------------------
(***************************************************************************)
(* Properties.                                                             *)
(***************************************************************************)
\* The lines are entries or torn, a line that is waiting for its newline exists, and what a
\* writer holds chains onto something that was in the file.
TypeOK ==
    /\ Len(file) <= MaxLines
    /\ \A i \in DOMAIN file : file[i] # Garbage => file[i].payload \in Payloads
    /\ open \in BOOLEAN /\ (open => file # <<>>)
    /\ \A w \in Writers : held[w] # Nothing =>
           /\ held[w].payload \in Payloads
           /\ held[w].hash = Digest(held[w].seq, held[w].prev, held[w].payload)
    /\ settled \subseteq Ids
    /\ \A id \in Ids : told[id] \in Outcomes \cup {Untold}
    /\ touches \in 0..MaxTouches

\* Append only (audit.py): whatever the writers do, and wherever they crash, a line that has
\* its newline stays where it is.
Terminated == IF open THEN SubSeq(file, 1, Len(file) - 1) ELSE file
AppendOnly ==
    [][touches' = touches =>
        /\ Len(Terminated) <= Len(Terminated')
        /\ \A i \in DOMAIN Terminated : Terminated'[i] = Terminated[i]]_vars

\* Every entry of a journal that verifies is one a writer computed, unedited, whatever was done
\* to the file before: the hash an entry carries is the hash of what it says.
VerifiedWasWritten == Ok => \A i \in DOMAIN file : file[i] \in written

\* Left alone, the journal fails verification exactly when two appends read the same head: two
\* processes raced.  verify() calls that "a record was altered or removed".
Forked == \E i, j \in DOMAIN file : i < j /\ file[i].prev = file[j].prev
AlarmIffForked == Readable /\ touches = 0 => (Verifies <=> ~Forked)

\* An anchor that agrees vouches for what the entries say: the first ones say what they said
\* when their head was published, if the journal verified then and whatever was done since.
ConsistentMeansUnchanged ==
    Readable /\ AnchorOutcome("commitment") = "consistent" =>
        /\ Len(file) >= Len(attested)
        /\ \A i \in DOMAIN attested : file[i].payload = attested[i]

\* An anchor that cannot answer is never a pass, and one that can does not accuse a journal
\* that verifies and was left alone.
AnchorIsHonest ==
    Readable => /\ \A a \in Answers \ {"commitment"} : AnchorOutcome(a) = "unknown"
                /\ Ok /\ touches = 0 => AnchorOutcome("commitment") \in {"unknown", "consistent"}

\* The record of a decision shows the last settlement that was recorded under its id, however
\* many processes wrote them and whatever crashed (record.py).
RecordsTellTheLastSettlement ==
    Readable /\ touches = 0 => \A r \in RecordsFromJournal : r.settlement = told[r.decisionId]
=============================================================================

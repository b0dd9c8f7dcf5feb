--------------------------- MODULE JournalProofs ---------------------------
(***************************************************************************)
(* Theorems about the journal, for any writers, ids and bounds, and any    *)
(* changes from outside.                                                   *)
(***************************************************************************)
EXTENDS Journal, SequenceTheorems, WellFoundedInduction, TLAPS

-----------------------------------------------------------------------------
(***************************************************************************)
(* The inductive invariant.                                                *)
(***************************************************************************)
IsSequence(f) == \E S : f \in Seq(S)

\* An entry as a writer computes it.
Computed(e) ==
    /\ e = Entry(e.seq, e.prev, e.payload)
    /\ e.seq \in Nat
    /\ e.payload \in Payloads

\* What is left of an entry when its payload is edited: the hash is not.
WithPayload(e, p) == [seq |-> e.seq, prev |-> e.prev, hash |-> e.hash, payload |-> p]

IsLine(entries, line) ==
    \/ line = Garbage
    \/ \E e \in entries, p \in Payloads : line = WithPayload(e, p)

\* Every line is torn, or an entry some writer computed whose payload alone may differ.
Genuine ==
    /\ IsSequence(file)
    /\ Len(file) <= MaxLines
    /\ open \in BOOLEAN
    /\ open => file # <<>>
    /\ \A e \in written : Computed(e)
    /\ \A i \in DOMAIN file : IsLine(written, file[i])
    /\ held = [w \in Writers |-> held[w]]
    /\ \A w \in Writers : held[w] = Nothing \/ Computed(held[w])
    /\ settled \subseteq Ids
    /\ told = [id \in Ids |-> told[id]]
    /\ \A id \in Ids : told[id] \in Outcomes \cup {Untold}
    /\ touches \in 0..MaxTouches

-----------------------------------------------------------------------------
(***************************************************************************)
(* Sequences.                                                              *)
(***************************************************************************)
LEMMA SequenceIs ==
    ASSUME NEW f, IsSequence(f)
    PROVE  /\ Len(f) \in Nat
           /\ DOMAIN f = 1..Len(f)
           /\ f # <<>> => Len(f) >= 1
           /\ f = <<>> => Len(f) = 0
<1>1. PICK S : f \in Seq(S)
  BY DEF IsSequence
<1> QED
  BY <1>1, LenProperties, EmptySeq

LEMMA Appending ==
    ASSUME NEW f, IsSequence(f), NEW e
    PROVE  /\ IsSequence(Append(f, e))
           /\ Len(Append(f, e)) = Len(f) + 1
           /\ \A i \in DOMAIN f : Append(f, e)[i] = f[i]
           /\ Append(f, e)[Len(f) + 1] = e
<1>1. PICK S : f \in Seq(S)
  BY DEF IsSequence
<1>2. f \in Seq(S \cup {e})
  BY <1>1, SeqMonotonic
<1>3. Append(f, e) \in Seq(S \cup {e})
  BY <1>2, AppendProperties
<1> QED
  BY <1>1, <1>2, <1>3, AppendProperties, LenProperties DEF IsSequence

LEMMA Cutting ==
    ASSUME NEW f, IsSequence(f), NEW n \in 0..Len(f)
    PROVE  /\ IsSequence(SubSeq(f, 1, n))
           /\ Len(SubSeq(f, 1, n)) = n
           /\ \A i \in 1..n : SubSeq(f, 1, n)[i] = f[i]
<1>1. PICK S : f \in Seq(S)
  BY DEF IsSequence
<1>2. Len(f) \in Nat
  BY SequenceIs
<1> QED
  BY <1>1, <1>2, SubSeqProperties DEF IsSequence

LEMMA Replacing ==
    ASSUME NEW f, IsSequence(f), NEW i \in DOMAIN f, NEW e
    PROVE  /\ IsSequence([f EXCEPT ![i] = e])
           /\ Len([f EXCEPT ![i] = e]) = Len(f)
           /\ \A j \in DOMAIN f : [f EXCEPT ![i] = e][j] = IF j = i THEN e ELSE f[j]
<1>1. PICK S : f \in Seq(S)
  BY DEF IsSequence
<1>2. f \in Seq(S \cup {e}) /\ e \in S \cup {e}
  BY <1>1, SeqMonotonic
<1>3. i \in 1..Len(f) /\ DOMAIN f = 1..Len(f)
  BY SequenceIs
<1> QED
  BY <1>2, <1>3, ExceptSeq DEF IsSequence

\* Without a line, each line that is left was a line before.
LEMMA Removing ==
    ASSUME IsSequence(file), NEW i \in DOMAIN file
    PROVE  /\ IsSequence(Without(i))
           /\ Len(Without(i)) = Len(file) - 1
           /\ \A j \in DOMAIN Without(i) : \E k \in DOMAIN file : Without(i)[j] = file[k]
<1>1. PICK S : file \in Seq(S)
  BY DEF IsSequence
<1>2. Len(file) \in Nat /\ DOMAIN file = 1..Len(file)
  BY SequenceIs
<1> DEFINE a == SubSeq(file, 1, i - 1)
<1> DEFINE b == SubSeq(file, i + 1, Len(file))
<1>3. /\ a \in Seq(S) /\ Len(a) = i - 1
      /\ \A j \in 1..(i - 1) : a[j] = file[j]
  <2>1. 1 - 1 <= i - 1 /\ i - 1 <= Len(file)
    BY <1>2
  <2> QED
    BY <1>1, <1>2, SubSeqProperties
<1>4. /\ b \in Seq(S) /\ Len(b) = Len(file) - i
      /\ \A j \in 1..(Len(file) - i) : b[j] = file[i + j]
  BY <1>1, <1>2, SubSeqProperties
<1> HIDE DEF a, b
<1>5. /\ a \o b \in Seq(S)
      /\ Len(a \o b) = Len(a) + Len(b)
      /\ \A j \in 1..Len(a) + Len(b) :
            (a \o b)[j] = IF j <= Len(a) THEN a[j] ELSE b[j - Len(a)]
  <2>1. a \in Seq(S) /\ b \in Seq(S)
    BY <1>3, <1>4
  <2> QED
    BY <2>1, ConcatProperties
<1>6. Without(i) = a \o b
  BY DEF Without, a, b
<1>7. DOMAIN (a \o b) = 1..Len(a \o b) /\ Len(a \o b) = Len(file) - 1
  BY <1>2, <1>3, <1>4, <1>5, LenProperties
<1>8. ASSUME NEW j \in 1..(Len(file) - 1)
      PROVE  \E k \in DOMAIN file : (a \o b)[j] = file[k]
  <2>0. /\ i \in Int /\ j \in 1..Len(a) + Len(b)
        /\ (a \o b)[j] = IF j <= i - 1 THEN a[j] ELSE b[j - (i - 1)]
    BY <1>2, <1>3, <1>4, <1>5
  <2>1. CASE j <= i - 1
    <3>1. j \in 1..(i - 1) /\ j \in DOMAIN file
      BY <2>1, <1>2
    <3> QED
      BY <3>1, <2>0, <2>1, <1>3
  <2>2. CASE ~(j <= i - 1)
    <3>1. j - (i - 1) \in 1..(Len(file) - i) /\ i + (j - (i - 1)) \in DOMAIN file
      BY <2>2, <1>2
    <3>2. (a \o b)[j] = b[j - (i - 1)]
      BY <2>2, <2>0
    <3> QED
      BY <3>1, <3>2, <1>4
  <2> QED
    BY <2>1, <2>2
<1> QED
  BY <1>5, <1>6, <1>7, <1>8 DEF IsSequence

-----------------------------------------------------------------------------
(***************************************************************************)
(* The invariant is inductive.                                             *)
(***************************************************************************)
\* What a writer computes after a readable journal is an entry.
LEMMA Computing ==
    ASSUME Genuine, NEW w \in Writers, NEW payload \in Payloads, Compute(w, payload)
    PROVE  /\ held' = [v \in Writers |-> held'[v]]
           /\ \A v \in Writers : held'[v] = Nothing \/ Computed(held'[v])
<1>1. HeadRead.seq \in Nat
  <2>1. CASE file = <<>>
    BY <2>1 DEF HeadRead
  <2>2. CASE file # <<>>
    <3>1. Len(file) \in DOMAIN file
      BY <2>2, SequenceIs DEF Genuine
    <3>2. file[Len(file)] # Garbage
      BY <3>1 DEF Compute, Readable
    <3>3. PICK e \in written, p \in Payloads : file[Len(file)] = WithPayload(e, p)
      BY <3>1, <3>2 DEF Genuine, IsLine
    <3>4. e.seq \in Nat
      BY DEF Genuine, Computed
    <3> QED
      BY <2>2, <3>3, <3>4 DEF HeadRead, WithPayload
  <2> QED
    BY <2>1, <2>2
<1>2. Computed(Entry(HeadRead.seq, HeadRead.prev, payload))
  BY <1>1 DEF Computed, Entry
<1> QED
  BY <1>2 DEF Compute, Genuine

\* The lines of one journal are lines of the next, if nothing but entries were written.
LEMMA StillLines ==
    ASSUME NEW less, NEW more, less \subseteq more, NEW line, IsLine(less, line)
    PROVE  IsLine(more, line)
  BY DEF IsLine

\* Anything done to the file from outside that leaves lines leaves the invariant.
LEMMA Changing ==
    ASSUME Genuine, NEW f, Change(f),
           IsSequence(f), Len(f) <= MaxLines, \A i \in DOMAIN f : IsLine(written, f[i])
    PROVE  Genuine'
<1>1. file' = f /\ written' = written
  BY DEF Change
<1>2. touches' \in 0..MaxTouches
  BY JournalAssumption DEF Change, Genuine, JournalAssumption
<1>3. /\ open' = FALSE
      /\ UNCHANGED <<held, settled, told>>
  BY DEF Change, Genuine
<1> QED
  BY <1>1, <1>2, <1>3 DEF Genuine

\* A line of its own, of an entry or torn, added at the end.
LEMMA Adding ==
    ASSUME Genuine, NEW entries, written \subseteq entries,
           NEW line, IsLine(entries, line), Len(file) < MaxLines
    PROVE  /\ IsSequence(Append(file, line))
           /\ Len(Append(file, line)) <= MaxLines
           /\ Append(file, line) # <<>>
           /\ \A i \in DOMAIN Append(file, line) : IsLine(entries, Append(file, line)[i])
<1>1. /\ IsSequence(file)
      /\ Len(file) \in Nat /\ DOMAIN file = 1..Len(file)
  BY SequenceIs DEF Genuine
<1>2. /\ IsSequence(Append(file, line))
      /\ Len(Append(file, line)) = Len(file) + 1
      /\ \A i \in DOMAIN file : Append(file, line)[i] = file[i]
      /\ Append(file, line)[Len(file) + 1] = line
  BY <1>1, Appending
<1>3. /\ DOMAIN Append(file, line) = 1..(Len(file) + 1)
      /\ Append(file, line) = <<>> => Len(Append(file, line)) = 0
  BY <1>2, SequenceIs
<1>4. ASSUME NEW i \in DOMAIN Append(file, line)
      PROVE  IsLine(entries, Append(file, line)[i])
  <2>1. CASE i \in DOMAIN file
    <3>1. IsLine(written, file[i])
      BY <2>1 DEF Genuine
    <3> QED
      BY <3>1, <2>1, <1>2, StillLines
  <2>2. CASE i = Len(file) + 1
    BY <2>2, <1>2
  <2> QED
    BY <2>1, <2>2, <1>1, <1>3
<1> QED
  BY <1>1, <1>2, <1>3, <1>4, JournalAssumption DEF JournalAssumption

LEMMA GenuineInit == Init => Genuine
<1> SUFFICES ASSUME Init
             PROVE  Genuine
  OBVIOUS
<1>1. file = <<>> /\ written = {} /\ IsSequence(file)
  <2>1. <<>> \in Seq({})
    BY EmptySeq
  <2> QED
    BY <2>1 DEF Init, IsSequence
<1>2. Len(file) = 0 /\ DOMAIN file = {}
  BY <1>1, SequenceIs
<1>3. /\ held = [w \in Writers |-> Nothing]
      /\ told = [id \in Ids |-> Untold]
      /\ open = FALSE /\ settled = {} /\ touches = 0
  BY DEF Init
<1>4. /\ \A e \in written : Computed(e)
      /\ \A i \in DOMAIN file : IsLine(written, file[i])
  BY <1>1, <1>2
<1>5. \A w \in Writers : held[w] = Nothing
  BY <1>3
<1>6. /\ held = [w \in Writers |-> held[w]]
      /\ told = [id \in Ids |-> told[id]]
      /\ \A id \in Ids : told[id] \in Outcomes \cup {Untold}
  BY <1>3
<1>7. Len(file) <= MaxLines /\ touches \in 0..MaxTouches
  BY <1>2, <1>3, JournalAssumption DEF JournalAssumption
<1> QED
  BY <1>1, <1>3, <1>4, <1>5, <1>6, <1>7 DEF Genuine

\* A step that computes an entry and does nothing else but to the store.
LEMMA ComputingKeeps ==
    ASSUME Genuine, NEW w \in Writers, NEW payload \in Payloads, Compute(w, payload),
           settled' \subseteq Ids, UNCHANGED <<file, open, written, told, touches>>
    PROVE  Genuine'
<1>1. /\ held' = [v \in Writers |-> held'[v]]
      /\ \A v \in Writers : held'[v] = Nothing \/ Computed(held'[v])
  BY Computing
<1> QED
  BY <1>1 DEF Genuine

LEMMA TellingKeeps ==
    ASSUME Genuine, NEW e, Computed(e), Remember(e)
    PROVE  /\ told' = [id \in Ids |-> told'[id]]
           /\ \A id \in Ids : told'[id] \in Outcomes \cup {Untold}
  BY DEF Genuine, Remember

\* A writer is free again.
LEMMA FreeingKeeps ==
    ASSUME Genuine, NEW w \in Writers, held' = [held EXCEPT ![w] = Nothing]
    PROVE  /\ held' = [v \in Writers |-> held'[v]]
           /\ \A v \in Writers : held'[v] = Nothing \/ Computed(held'[v])
  BY DEF Genuine

\* What a writer holds is a line once it is written.
LEMMA HeldIsLine ==
    ASSUME Genuine, NEW w \in Writers, held[w] # Nothing
    PROVE  /\ Computed(held[w])
           /\ IsLine(written \cup {held[w]}, held[w])
           /\ \A e \in written \cup {held[w]} : Computed(e)
<1>1. Computed(held[w])
  BY DEF Genuine
<1>2. held[w] = WithPayload(held[w], held[w].payload)
  BY <1>1 DEF Computed, Entry, WithPayload
<1> QED
  BY <1>1, <1>2 DEF IsLine, Genuine, Computed

LEMMA WritingKeeps ==
    ASSUME Genuine, NEW w \in Writers, WriteLine(w)
    PROVE  Genuine'
<1>1. /\ held[w] # Nothing /\ Room
      /\ file' = Appended(held[w]) /\ open' = FALSE
      /\ Remember(held[w]) /\ written' = written \cup {held[w]}
      /\ held' = [held EXCEPT ![w] = Nothing]
      /\ UNCHANGED <<settled, touches>>
  BY DEF WriteLine
<1>2. /\ Computed(held[w])
      /\ IsLine(written', held[w])
      /\ \A e \in written' : Computed(e)
  BY <1>1, HeldIsLine
<1>3. /\ held' = [v \in Writers |-> held'[v]]
      /\ \A v \in Writers : held'[v] = Nothing \/ Computed(held'[v])
  BY <1>1, FreeingKeeps
<1>4. /\ told' = [id \in Ids |-> told'[id]]
      /\ \A id \in Ids : told'[id] \in Outcomes \cup {Untold}
  BY <1>1, <1>2, TellingKeeps
<1>5. /\ IsSequence(file)
      /\ Len(file) \in Nat /\ DOMAIN file = 1..Len(file)
  BY SequenceIs DEF Genuine
<1>6. /\ IsSequence(file') /\ Len(file') <= MaxLines
      /\ \A i \in DOMAIN file' : IsLine(written', file'[i])
  <2>1. CASE open
    <3> DEFINE n == Len(file) - 1
    <3> DEFINE cut == SubSeq(file, 1, n)
    <3>1. n \in 0..Len(file)
      <4>1. Len(file) >= 1
        BY <2>1, SequenceIs DEF Genuine
      <4> QED
        BY <4>1, <1>5
    <3>2. IsSequence(cut) /\ Len(cut) = n /\ \A i \in 1..n : cut[i] = file[i]
      BY <3>1, <1>5, Cutting
    <3> HIDE DEF cut
    <3>3. file' = Append(cut, Garbage)
      BY <1>1, <2>1 DEF Appended, cut
    <3>4. /\ IsSequence(file') /\ Len(file') = n + 1
          /\ \A i \in DOMAIN cut : file'[i] = cut[i]
          /\ file'[n + 1] = Garbage
      BY <3>2, <3>3, Appending
    <3>5. DOMAIN cut = 1..n /\ DOMAIN file' = 1..(n + 1)
      BY <3>2, <3>4, SequenceIs
    <3>6. Len(file') <= MaxLines
      BY <3>4, <1>5 DEF Genuine
    <3>7. ASSUME NEW i \in 1..n
          PROVE  IsLine(written', file'[i])
      <4>1. file'[i] = file[i] /\ i \in DOMAIN file
        BY <3>1, <3>2, <3>4, <3>5, <1>5
      <4>2. IsLine(written, file[i])
        BY <4>1 DEF Genuine
      <4> QED
        BY <4>1, <4>2, <1>1, StillLines
    <3>8. IsLine(written', file'[n + 1])
      BY <3>4 DEF IsLine
    <3>9. \A i \in DOMAIN file' : i \in 1..n \/ i = n + 1
      BY <3>1, <3>5, <1>5
    <3> QED
      BY <3>4, <3>6, <3>7, <3>8, <3>9
  <2>2. CASE ~open
    <3>1. file' = Append(file, held[w])
      BY <1>1, <2>2 DEF Appended
    <3>2. Len(file) < MaxLines
      BY <1>1, <2>2 DEF Room
    <3>3. written \subseteq written'
      BY <1>1
    <3> QED
      BY <3>1, <3>2, <3>3, <1>2, Adding
  <2> QED
    BY <2>1, <2>2
<1> QED
  BY <1>1, <1>2, <1>3, <1>4, <1>6 DEF Genuine

LEMMA CrashingKeeps ==
    ASSUME Genuine, NEW w \in Writers, CrashWithin(w)
    PROVE  Genuine'
<1>1. /\ held[w] # Nothing /\ ~open /\ Room
      /\ open' = TRUE
      /\ held' = [held EXCEPT ![w] = Nothing]
      /\ UNCHANGED <<settled, touches>>
  BY DEF CrashWithin
<1>2. /\ held' = [v \in Writers |-> held'[v]]
      /\ \A v \in Writers : held'[v] = Nothing \/ Computed(held'[v])
  BY <1>1, FreeingKeeps
<1>3. Len(file) < MaxLines
  BY <1>1 DEF Room
<1>4. CASE file' = Append(file, Garbage) /\ UNCHANGED <<told, written>>
  <2>1. IsLine(written, Garbage) /\ written \subseteq written
    BY DEF IsLine
  <2>2. /\ IsSequence(file') /\ Len(file') <= MaxLines /\ file' # <<>>
        /\ \A i \in DOMAIN file' : IsLine(written, file'[i])
    BY <2>1, <1>3, <1>4, Adding
  <2> QED
    BY <1>1, <1>2, <1>4, <2>2 DEF Genuine
<1>5. CASE /\ file' = Append(file, held[w])
           /\ Remember(held[w])
           /\ written' = written \cup {held[w]}
  <2>1. /\ Computed(held[w])
        /\ IsLine(written', held[w])
        /\ \A e \in written' : Computed(e)
    BY <1>1, <1>5, HeldIsLine
  <2>2. written \subseteq written'
    BY <1>5
  <2>3. /\ IsSequence(file') /\ Len(file') <= MaxLines /\ file' # <<>>
        /\ \A i \in DOMAIN file' : IsLine(written', file'[i])
    BY <2>1, <2>2, <1>3, <1>5, Adding
  <2>4. /\ told' = [id \in Ids |-> told'[id]]
        /\ \A id \in Ids : told'[id] \in Outcomes \cup {Untold}
    BY <2>1, <1>5, TellingKeeps
  <2> QED
    BY <1>1, <1>2, <2>1, <2>3, <2>4 DEF Genuine
<1> QED
  BY <1>4, <1>5 DEF CrashWithin

LEMMA EditingKeeps ==
    ASSUME Genuine, EditLine
    PROVE  Genuine'
<1>1. PICK i \in DOMAIN file, p \in Payloads :
          file[i] # Garbage /\ Change([file EXCEPT ![i].payload = p])
  BY DEF EditLine
<1>2. PICK e \in written, q \in Payloads : file[i] = WithPayload(e, q)
  BY <1>1 DEF Genuine, IsLine
<1>3. [file[i] EXCEPT !.payload = p] = WithPayload(e, p)
  BY <1>2 DEF WithPayload
<1> DEFINE line == [file[i] EXCEPT !.payload = p]
<1>4. IsLine(written, line)
  BY <1>3 DEF IsLine
<1>5. Change([file EXCEPT ![i] = line])
  BY <1>1
<1> HIDE DEF line
<1>6. /\ IsSequence([file EXCEPT ![i] = line])
      /\ Len([file EXCEPT ![i] = line]) = Len(file)
      /\ \A j \in DOMAIN file : [file EXCEPT ![i] = line][j] = IF j = i THEN line ELSE file[j]
  BY Replacing DEF Genuine
<1>7. DOMAIN [file EXCEPT ![i] = line] = DOMAIN file
  OBVIOUS
<1>8. /\ Len([file EXCEPT ![i] = line]) <= MaxLines
      /\ \A j \in DOMAIN [file EXCEPT ![i] = line] :
            IsLine(written, [file EXCEPT ![i] = line][j])
  BY <1>4, <1>6, <1>7 DEF Genuine
<1> QED
  BY <1>5, <1>6, <1>8, Changing

LEMMA DroppingKeeps ==
    ASSUME Genuine, DropLine \/ DropTail
    PROVE  Genuine'
<1>1. /\ IsSequence(file)
      /\ Len(file) \in Nat /\ DOMAIN file = 1..Len(file)
      /\ Len(file) <= MaxLines
  BY SequenceIs DEF Genuine
<1>2. ASSUME NEW i \in DOMAIN file, Change(Without(i))
      PROVE  Genuine'
  <2>1. /\ IsSequence(Without(i))
        /\ Len(Without(i)) = Len(file) - 1
        /\ \A j \in DOMAIN Without(i) : \E k \in DOMAIN file : Without(i)[j] = file[k]
    BY <1>1, Removing
  <2>2. Len(Without(i)) <= MaxLines
    BY <1>1, <2>1, JournalAssumption DEF JournalAssumption
  <2>3. \A j \in DOMAIN Without(i) : IsLine(written, Without(i)[j])
    BY <2>1 DEF Genuine
  <2> QED
    BY <1>2, <2>1, <2>2, <2>3, Changing
<1>3. ASSUME NEW n \in 0..(Len(file) - 2), Change(SubSeq(file, 1, n))
      PROVE  Genuine'
  <2>1. n \in 0..Len(file)
    BY <1>1
  <2>2. /\ IsSequence(SubSeq(file, 1, n)) /\ Len(SubSeq(file, 1, n)) = n
        /\ \A i \in 1..n : SubSeq(file, 1, n)[i] = file[i]
    BY <1>1, <2>1, Cutting
  <2>3. DOMAIN SubSeq(file, 1, n) = 1..n
    BY <2>2, SequenceIs
  <2>4. Len(SubSeq(file, 1, n)) <= MaxLines
    BY <1>1, <2>1, <2>2, JournalAssumption DEF JournalAssumption
  <2>5. \A i \in 1..n : i \in DOMAIN file
    BY <1>1, <2>1
  <2>6. \A i \in DOMAIN SubSeq(file, 1, n) : IsLine(written, SubSeq(file, 1, n)[i])
    BY <2>2, <2>3, <2>5 DEF Genuine
  <2> QED
    BY <1>3, <2>2, <2>4, <2>6, Changing
<1> QED
  BY <1>2, <1>3 DEF DropLine, DropTail

LEMMA SwappingKeeps ==
    ASSUME Genuine, SwapLines
    PROVE  Genuine'
<1>1. /\ IsSequence(file)
      /\ Len(file) \in Nat /\ DOMAIN file = 1..Len(file)
      /\ Len(file) <= MaxLines
  BY SequenceIs DEF Genuine
<1>2. PICK i \in 1..(Len(file) - 1) :
          Change([file EXCEPT ![i] = file[i + 1], ![i + 1] = file[i]])
  BY DEF SwapLines
<1>3. i \in DOMAIN file /\ i + 1 \in DOMAIN file
  BY <1>1
<1> PICK upper, lower : upper = file[i] /\ lower = file[i + 1]
  OBVIOUS
<1> DEFINE half == [file EXCEPT ![i] = lower]
<1> DEFINE whole == [half EXCEPT ![i + 1] = upper]
<1>4. Change(whole)
  BY <1>2
<1>5. /\ IsSequence(half) /\ Len(half) = Len(file)
      /\ \A j \in DOMAIN file : half[j] = IF j = i THEN lower ELSE file[j]
  BY <1>1, <1>3, Replacing
<1>6. DOMAIN half = DOMAIN file
  OBVIOUS
<1> HIDE DEF half
<1>7. /\ IsSequence(whole) /\ Len(whole) = Len(half)
      /\ \A j \in DOMAIN half : whole[j] = IF j = i + 1 THEN upper ELSE half[j]
  BY <1>3, <1>5, <1>6, Replacing
<1>8. DOMAIN whole = DOMAIN file
  BY <1>6
<1> HIDE DEF whole
<1>9. \A j \in DOMAIN whole : \E k \in DOMAIN file : whole[j] = file[k]
  BY <1>3, <1>5, <1>6, <1>7, <1>8
<1>10. \A j \in DOMAIN whole : IsLine(written, whole[j])
  BY <1>9 DEF Genuine
<1>11. Len(whole) <= MaxLines
  BY <1>1, <1>5, <1>7
<1> QED
  BY <1>4, <1>7, <1>10, <1>11, Changing

LEMMA GenuineNext == Genuine /\ [Next]_vars => Genuine'
<1> SUFFICES ASSUME Genuine, [Next]_vars
             PROVE  Genuine'
  OBVIOUS
<1>1. ASSUME NEW w \in Writers, NEW id \in Ids, Decide(w, id)
      PROVE  Genuine'
  <2> DEFINE payload == Decided(id, IF id \in settled THEN "REJECT" ELSE "APPROVE")
  <2>1. payload \in Payloads
    BY DEF Payloads
  <2>2. Compute(w, payload) /\ UNCHANGED <<file, open, settled, written, told, touches>>
    BY <1>1 DEF Decide
  <2>3. settled' \subseteq Ids
    BY <2>2 DEF Genuine
  <2> QED
    BY <2>1, <2>2, <2>3, ComputingKeeps
<1>2. ASSUME NEW w \in Writers, NEW id \in Ids, NEW outcome \in Outcomes,
             Settle(w, id, outcome)
      PROVE  Genuine'
  <2>1. Update(id, outcome) \in Payloads
    BY DEF Payloads
  <2>2. /\ Compute(w, Update(id, outcome))
        /\ UNCHANGED <<file, open, written, told, touches>>
    BY <1>2 DEF Settle
  <2>3. settled' \subseteq Ids
    BY <1>2 DEF Settle, Genuine
  <2> QED
    BY <2>1, <2>2, <2>3, ComputingKeeps
<1>3. ASSUME NEW w \in Writers, NEW id \in Ids, Override(w, id)
      PROVE  Genuine'
  <2>1. Update(id, "override") \in Payloads
    BY DEF Payloads
  <2>2. /\ Compute(w, Update(id, "override"))
        /\ UNCHANGED <<file, open, settled, written, told, touches>>
    BY <1>3 DEF Override
  <2>3. settled' \subseteq Ids
    BY <2>2 DEF Genuine
  <2> QED
    BY <2>1, <2>2, <2>3, ComputingKeeps
<1>4. ASSUME NEW w \in Writers, CrashBefore(w)
      PROVE  Genuine'
  <2>1. /\ held' = [held EXCEPT ![w] = Nothing]
        /\ UNCHANGED <<file, open, settled, written, told, touches>>
    BY <1>4 DEF CrashBefore
  <2>2. /\ held' = [v \in Writers |-> held'[v]]
        /\ \A v \in Writers : held'[v] = Nothing \/ Computed(held'[v])
    BY <2>1, FreeingKeeps
  <2> QED
    BY <2>1, <2>2 DEF Genuine
<1>5. CASE Publish
  BY <1>5 DEF Publish, Genuine
<1>6. CASE UNCHANGED vars
  BY <1>6 DEF vars, Genuine
<1>7. ASSUME NEW w \in Writers, Step(w)
      PROVE  Genuine'
  <2>1. CASE WriteLine(w) \/ CrashWithin(w)
    BY <2>1, WritingKeeps, CrashingKeeps
  <2> QED
    BY <1>7, <2>1, <1>1, <1>2, <1>3, <1>4 DEF Step
<1>8. CASE Outside
  BY <1>8, EditingKeeps, DroppingKeeps, SwappingKeeps DEF Outside
<1> QED
  BY <1>5, <1>6, <1>7, <1>8 DEF Next

\* Whatever is done to the journal, every line of it is torn or stems from an entry a writer
\* computed, and what the writers, the store and the readers hold is well formed.
LEMMA AlwaysGenuine == Spec => []Genuine
  BY GenuineInit, GenuineNext, PTL DEF Spec

-----------------------------------------------------------------------------
(***************************************************************************)
(* The theorems.                                                           *)
(***************************************************************************)
\* The lines of the journal are torn or carry a payload of the system, a line that waits for
\* its newline exists, and an entry that waits to be written carries the hash of its content.
THEOREM JournalTypeOK == Spec => []TypeOK
<1>1. Genuine => TypeOK
  <2> SUFFICES ASSUME Genuine
               PROVE  TypeOK
    OBVIOUS
  <2>1. ASSUME NEW i \in DOMAIN file, file[i] # Garbage
        PROVE  file[i].payload \in Payloads
    BY <2>1 DEF Genuine, IsLine, WithPayload
  <2>2. ASSUME NEW w \in Writers, held[w] # Nothing
        PROVE  /\ held[w].payload \in Payloads
               /\ held[w].hash = Digest(held[w].seq, held[w].prev, held[w].payload)
    <3>1. held[w] = Entry(held[w].seq, held[w].prev, held[w].payload)
      BY <2>2 DEF Genuine, Computed
    <3>2. held[w].payload \in Payloads
      BY <2>2 DEF Genuine, Computed
    <3> QED
      BY <3>1, <3>2 DEF Entry
  <2> QED
    BY <2>1, <2>2 DEF TypeOK, Genuine
<1> QED
  BY <1>1, AlwaysGenuine, PTL

\* Every entry of a journal that verifies is an entry some writer computed: whatever was done
\* to the file, verify() passes over no content of its own.
THEOREM JournalVerifiedWasWritten == Spec => []VerifiedWasWritten
<1>1. Genuine => VerifiedWasWritten
  <2> SUFFICES ASSUME Genuine, Ok, NEW i \in DOMAIN file
               PROVE  file[i] \in written
    BY DEF VerifiedWasWritten
  <2>1. file[i] # Garbage
    BY DEF Ok, Readable
  <2>2. PICK e \in written, p \in Payloads : file[i] = WithPayload(e, p)
    BY <2>1 DEF Genuine, IsLine
  <2>3. e = Entry(e.seq, e.prev, e.payload)
    BY DEF Genuine, Computed
  <2>4. file[i].hash = Digest(file[i].seq, file[i].prev, file[i].payload)
    BY DEF Ok, Verifies
  <2>5. e.hash = Digest(e.seq, e.prev, e.payload) /\ e.hash = Digest(e.seq, e.prev, p)
    BY <2>2, <2>3, <2>4 DEF Entry, WithPayload
  <2>6. p = e.payload
    BY <2>5 DEF Digest
  <2> QED
    BY <2>2, <2>3, <2>6 DEF WithPayload, Entry
<1> QED
  BY <1>1, AlwaysGenuine, PTL

\* Append only: whatever the writers do, and wherever they crash, a line that has its newline
\* stays where it is.
THEOREM JournalAppendOnly == Spec => AppendOnly
<1> DEFINE Kept == /\ Len(Terminated) <= Len(Terminated')
                   /\ \A i \in DOMAIN Terminated : Terminated'[i] = Terminated[i]
<1>1. ASSUME Genuine, [Next]_vars, touches' = touches
      PROVE  Kept
  <2>1. /\ IsSequence(file)
        /\ Len(file) \in Nat /\ DOMAIN file = 1..Len(file)
        /\ touches \in Nat
    BY <1>1, SequenceIs, JournalAssumption DEF Genuine, JournalAssumption
  <2>2. open => Len(file) >= 1
    BY <1>1, SequenceIs DEF Genuine
  <2> DEFINE cut == SubSeq(file, 1, Len(file) - 1)
  <2>3. ASSUME open
        PROVE  IsSequence(cut) /\ Terminated = cut
    <3>1. Len(file) - 1 \in 0..Len(file)
      BY <2>1, <2>2, <2>3
    <3>2. IsSequence(cut)
      BY <2>1, <3>1, Cutting
    <3> QED
      BY <3>2, <2>3 DEF Terminated
  <2>4. ASSUME ~open
        PROVE  Terminated = file
    BY <2>4 DEF Terminated
  <2>5. IsSequence(Terminated)
    BY <2>1, <2>3, <2>4
  <2>6. Len(Terminated) \in Nat /\ DOMAIN Terminated = 1..Len(Terminated)
    BY <2>5, SequenceIs
  <2> HIDE DEF cut
  <2>7. CASE UNCHANGED <<file, open>>
    <3>1. Terminated' = Terminated
      BY <2>7 DEF Terminated
    <3> QED
      BY <3>1, <2>6
  <2>8. ASSUME NEW w \in Writers, WriteLine(w)
        PROVE  Kept
    <3>1. file' = Appended(held[w]) /\ open' = FALSE
      BY <2>8 DEF WriteLine
    <3>2. Terminated' = file'
      BY <3>1 DEF Terminated
    <3>3. \E line : file' = Append(Terminated, line)
      <4>1. CASE open
        <5>1. file' = Append(cut, Garbage)
          BY <4>1, <3>1 DEF Appended, cut
        <5> QED
          BY <5>1, <4>1, <2>3
      <4>2. CASE ~open
        <5>1. file' = Append(file, held[w])
          BY <4>2, <3>1 DEF Appended
        <5> QED
          BY <5>1, <4>2, <2>4
      <4> QED
        BY <4>1, <4>2
    <3>4. PICK line : file' = Append(Terminated, line)
      BY <3>3
    <3>5. /\ Len(file') = Len(Terminated) + 1
          /\ \A i \in DOMAIN Terminated : file'[i] = Terminated[i]
      BY <3>4, <2>5, Appending
    <3> QED
      BY <3>2, <3>5, <2>6
  <2>9. ASSUME NEW w \in Writers, CrashWithin(w)
        PROVE  Kept
    <3>1. ~open /\ open' = TRUE /\ \E line : file' = Append(file, line)
      BY <2>9 DEF CrashWithin
    <3>2. PICK line : file' = Append(file, line)
      BY <3>1
    <3>3. /\ IsSequence(file') /\ Len(file') = Len(file) + 1
          /\ \A i \in DOMAIN file : file'[i] = file[i]
      BY <3>2, <2>1, Appending
    <3>4. Terminated' = SubSeq(file', 1, Len(file') - 1)
      BY <3>1 DEF Terminated
    <3>5. Terminated' = SubSeq(file', 1, Len(file))
      BY <3>3, <3>4, <2>1
    <3>6. Len(file) \in 0..Len(file')
      BY <3>3, <2>1
    <3>7. /\ Len(SubSeq(file', 1, Len(file))) = Len(file)
          /\ \A i \in 1..Len(file) : SubSeq(file', 1, Len(file))[i] = file'[i]
      BY <3>3, <3>6, Cutting
    <3> QED
      BY <3>1, <3>3, <3>5, <3>7, <2>1, <2>4
  <2>10. ASSUME Outside
         PROVE  FALSE
    <3>1. ASSUME NEW f, Change(f)
          PROVE  FALSE
      BY <3>1, <1>1, <2>1 DEF Change
    <3> QED
      BY <3>1, <2>10 DEF Outside, EditLine, DropLine, DropTail, SwapLines
  <2>11. ASSUME NEW w \in Writers, Step(w)
         PROVE  Kept
    <3>1. CASE WriteLine(w) \/ CrashWithin(w)
      BY <3>1, <2>8, <2>9
    <3>2. CASE ~(WriteLine(w) \/ CrashWithin(w))
      <4>1. UNCHANGED <<file, open>>
        BY <3>2, <2>11 DEF Step, Decide, Settle, Override, CrashBefore
      <4> QED
        BY <4>1, <2>7
    <3> QED
      BY <3>1, <3>2
  <2>12. CASE Publish \/ UNCHANGED vars
    <3>1. UNCHANGED <<file, open>>
      BY <2>12 DEF Publish, vars
    <3> QED
      BY <3>1, <2>7
  <2> QED
    BY <1>1, <2>10, <2>11, <2>12 DEF Next
<1>2. Genuine /\ [Next]_vars => [touches' = touches => Kept]_vars
  BY <1>1
<1> QED
  BY <1>2, AlwaysGenuine, PTL DEF Spec, AppendOnly

-----------------------------------------------------------------------------
(***************************************************************************)
(* A journal left alone: the forks, and the last settlements.              *)
(***************************************************************************)
\* An entry chains from the beginning, or from one of the first n lines.
Rooted(f, e, n) ==
    \/ e.prev = Genesis /\ e.seq = 0
    \/ \E k \in 1..n : k \in DOMAIN f /\ e.prev = f[k].hash /\ e.seq = f[k].seq + 1

Said(f, id) == {i \in DOMAIN f : /\ f[i].payload.kind = "settlement_update"
                                 /\ f[i].payload.id = id
                                 /\ f[i].payload.what \in Outcomes}

LastSaid(f, id, outcome) ==
    \/ Said(f, id) = {} /\ outcome = Untold
    \/ \E i \in Said(f, id) : /\ \A j \in Said(f, id) : j <= i
                              /\ outcome = f[i].payload.what

\* The invariant: each line and each entry that waits chains from a line before it, and what
\* was told last is what the last line tells.
Chained ==
    Readable /\ touches = 0 =>
        /\ \A i \in DOMAIN file : Computed(file[i]) /\ Rooted(file, file[i], i - 1)
        /\ \A w \in Writers : held[w] = Nothing \/ Rooted(file, held[w], Len(file))
        /\ \A id \in Ids : LastSaid(file, id, told[id])

\* A readable journal that was left alone was so before, and the step computed an entry,
\* dropped one, wrote one, or did nothing to either.
Quiet ==
    /\ UNCHANGED <<file, told>>
    /\ \A w \in Writers : \/ held'[w] \in {held[w], Nothing}
                          \/ held'[w].prev = HeadRead.prev /\ held'[w].seq = HeadRead.seq

Written(w) ==
    /\ held[w] # Nothing
    /\ file' = Append(file, held[w])
    /\ Remember(held[w])
    /\ held' = [held EXCEPT ![w] = Nothing]

LEMMA LeftAlone ==
    ASSUME Genuine, [Next]_vars, Readable', touches' = 0
    PROVE  /\ Readable /\ touches = 0
           /\ Quiet \/ \E w \in Writers : Written(w)
<1>1. /\ IsSequence(file)
      /\ Len(file) \in Nat /\ DOMAIN file = 1..Len(file)
      /\ touches \in Nat
  BY SequenceIs, JournalAssumption DEF Genuine, JournalAssumption
<1>2. ~Outside
  <2>1. ASSUME NEW f, Change(f)
        PROVE  FALSE
    BY <2>1, <1>1 DEF Change
  <2> QED
    BY <2>1 DEF Outside, EditLine, DropLine, DropTail, SwapLines
<1>3. ASSUME UNCHANGED <<file, told, held, touches>>
      PROVE  Readable /\ touches = 0 /\ Quiet
  <2>1. Readable
    BY <1>3 DEF Readable
  <2>2. \A w \in Writers : held'[w] = held[w]
    BY <1>3
  <2>3. Quiet
    BY <1>3, <2>2 DEF Quiet
  <2> QED
    BY <1>3, <2>1, <2>3
<1>4. ASSUME NEW w \in Writers, NEW payload, Compute(w, payload),
             UNCHANGED <<file, told, touches>>
      PROVE  Readable /\ touches = 0 /\ Quiet
  <2>1. held' = [held EXCEPT ![w] = Entry(HeadRead.seq, HeadRead.prev, payload)]
    BY <1>4 DEF Compute
  <2>2. held = [v \in Writers |-> held[v]]
    BY DEF Genuine
  <2>3. \A v \in Writers : v # w => held'[v] = held[v]
    BY <2>1, <2>2
  <2>4. held'[w] = Entry(HeadRead.seq, HeadRead.prev, payload)
    BY <2>1, <2>2
  <2>5. held'[w].prev = HeadRead.prev /\ held'[w].seq = HeadRead.seq
    BY <2>4 DEF Entry
  <2>6. Readable /\ touches = 0
    BY <1>4 DEF Compute
  <2>7. Quiet
    BY <1>4, <2>3, <2>5 DEF Quiet
  <2> QED
    BY <2>6, <2>7
<1>5. ASSUME NEW w \in Writers, CrashBefore(w)
      PROVE  Readable /\ touches = 0 /\ Quiet
  <2>1. /\ held' = [held EXCEPT ![w] = Nothing]
        /\ UNCHANGED <<file, told, touches>>
    BY <1>5 DEF CrashBefore
  <2>2. \A v \in Writers : held'[v] \in {held[v], Nothing}
    BY <2>1 DEF Genuine
  <2>3. Readable
    BY <2>1 DEF Readable
  <2>4. Quiet
    BY <2>1, <2>2 DEF Quiet
  <2> QED
    BY <2>1, <2>3, <2>4
<1>6. ASSUME NEW line, file' = Append(file, line)
      PROVE  Readable /\ line # Garbage
  <2>1. /\ IsSequence(file') /\ Len(file') = Len(file) + 1
        /\ \A i \in DOMAIN file : file'[i] = file[i]
        /\ file'[Len(file) + 1] = line
    BY <1>6, <1>1, Appending
  <2>2. DOMAIN file' = 1..(Len(file) + 1)
    BY <2>1, SequenceIs
  <2>3. \A i \in DOMAIN file : i \in DOMAIN file'
    BY <2>2, <1>1
  <2>4. Len(file) + 1 \in DOMAIN file'
    BY <2>2, <1>1
  <2> QED
    BY <2>1, <2>3, <2>4 DEF Readable
<1>7. ASSUME NEW w \in Writers, WriteLine(w)
      PROVE  Readable /\ touches = 0 /\ Written(w)
  <2>1. /\ held[w] # Nothing /\ file' = Appended(held[w]) /\ Remember(held[w])
        /\ held' = [held EXCEPT ![w] = Nothing] /\ touches' = touches
    BY <1>7 DEF WriteLine
  <2>2. ~open
    <3> SUFFICES ASSUME open
                 PROVE  FALSE
      OBVIOUS
    <3> DEFINE n == Len(file) - 1
    <3>1. n \in 0..Len(file)
      <4>1. Len(file) >= 1
        BY SequenceIs DEF Genuine
      <4> QED
        BY <4>1, <1>1
    <3>2. file' = Append(SubSeq(file, 1, n), Garbage)
      BY <2>1 DEF Appended
    <3>3. IsSequence(SubSeq(file, 1, n)) /\ Len(SubSeq(file, 1, n)) = n
      BY <3>1, <1>1, Cutting
    <3>4. /\ IsSequence(file') /\ Len(file') = n + 1
          /\ file'[n + 1] = Garbage
      BY <3>2, <3>3, Appending
    <3>5. n + 1 \in DOMAIN file'
      BY <3>1, <3>4, <1>1, SequenceIs
    <3> QED
      BY <3>4, <3>5 DEF Readable
  <2>3. file' = Append(file, held[w])
    BY <2>1, <2>2 DEF Appended
  <2> QED
    BY <2>1, <2>3, <1>6 DEF Written
<1>8. ASSUME NEW w \in Writers, CrashWithin(w)
      PROVE  Readable /\ touches = 0 /\ Written(w)
  <2>1. file' # Append(file, Garbage)
    BY <1>6
  <2>2. /\ held[w] # Nothing /\ file' = Append(file, held[w]) /\ Remember(held[w])
        /\ held' = [held EXCEPT ![w] = Nothing] /\ touches' = touches
    BY <1>8, <2>1 DEF CrashWithin
  <2> QED
    BY <2>2, <1>6 DEF Written
<1>9. ASSUME NEW w \in Writers, Step(w)
      PROVE  /\ Readable /\ touches = 0
             /\ Quiet \/ Written(w)
  <2>1. CASE \E id \in Ids : Decide(w, id)
    BY <2>1, <1>4 DEF Decide
  <2>2. CASE \E id \in Ids, o \in Outcomes : Settle(w, id, o)
    BY <2>2, <1>4 DEF Settle
  <2>3. CASE \E id \in Ids : Override(w, id)
    BY <2>3, <1>4 DEF Override
  <2> QED
    BY <1>9, <2>1, <2>2, <2>3, <1>5, <1>7, <1>8 DEF Step
<1>10. CASE Publish \/ UNCHANGED vars
  <2>1. UNCHANGED <<file, told, held, touches>>
    BY <1>10 DEF Publish, vars
  <2> QED
    BY <2>1, <1>3
<1> QED
  BY <1>2, <1>9, <1>10 DEF Next

LEMMA RootedStays ==
    ASSUME NEW f, NEW g, \A i \in DOMAIN f : i \in DOMAIN g /\ g[i] = f[i],
           NEW e, NEW n \in Int, NEW m \in Int, n <= m, Rooted(f, e, n)
    PROVE  Rooted(g, e, m)
<1>1. CASE e.prev = Genesis /\ e.seq = 0
  BY <1>1 DEF Rooted
<1>2. ASSUME NEW k \in 1..n, k \in DOMAIN f, e.prev = f[k].hash, e.seq = f[k].seq + 1
      PROVE  Rooted(g, e, m)
  <2>1. k \in 1..m /\ k \in DOMAIN g /\ g[k] = f[k]
    BY <1>2
  <2> QED
    BY <1>2, <2>1 DEF Rooted
<1> QED
  BY <1>1, <1>2 DEF Rooted

\* The line that is added tells last, if it tells of money under that id.
Tells(e, id) == /\ e.payload.kind = "settlement_update"
                /\ e.payload.id = id
                /\ e.payload.what \in Outcomes

LEMMA LastSaidStays ==
    ASSUME NEW f, IsSequence(f), NEW e, NEW id, NEW outcome, LastSaid(f, id, outcome)
    PROVE  LastSaid(Append(f, e), id, IF Tells(e, id) THEN e.payload.what ELSE outcome)
<1> DEFINE g == Append(f, e)
<1> DEFINE n == Len(f)
<1>1. /\ n \in Nat /\ DOMAIN f = 1..n
      /\ IsSequence(g) /\ Len(g) = n + 1
      /\ \A i \in DOMAIN f : g[i] = f[i]
      /\ g[n + 1] = e
  BY SequenceIs, Appending
<1>2. DOMAIN g = 1..(n + 1)
  BY <1>1, SequenceIs
<1> HIDE DEF g, n
<1>3. \A i : i \in Said(g, id) <=> i \in Said(f, id) \/ (i = n + 1 /\ Tells(e, id))
  <2>1. \A i : i \in DOMAIN g <=> i \in DOMAIN f \/ i = n + 1
    BY <1>1, <1>2
  <2>2. n + 1 \notin DOMAIN f
    BY <1>1
  <2> QED
    BY <2>1, <2>2, <1>1 DEF Said, Tells
<1>4. \A i \in Said(f, id) : i \in DOMAIN f
  BY DEF Said
<1>5. CASE Tells(e, id)
  <2>1. n + 1 \in Said(g, id)
    BY <1>3, <1>5
  <2>2. \A j \in Said(g, id) : j <= n + 1
    BY <1>1, <1>3, <1>4
  <2>3. LastSaid(g, id, e.payload.what)
    BY <2>1, <2>2, <1>1 DEF LastSaid
  <2> QED
    BY <2>3, <1>5 DEF g
<1>6. CASE ~Tells(e, id)
  <2>1. Said(g, id) = Said(f, id)
    BY <1>3, <1>6
  <2>2. \A i \in Said(f, id) : g[i] = f[i]
    BY <1>1, <1>4
  <2>3. LastSaid(g, id, outcome)
    BY <2>1, <2>2 DEF LastSaid
  <2> QED
    BY <2>3, <1>6 DEF g
<1> QED
  BY <1>5, <1>6

LEMMA ChainedInit == Init => Chained
<1> SUFFICES ASSUME Init
             PROVE  Chained
  OBVIOUS
<1>1. DOMAIN file = {}
  <2>1. <<>> \in Seq({})
    BY EmptySeq
  <2>2. file = <<>> /\ IsSequence(file)
    BY <2>1 DEF Init, IsSequence
  <2>3. Len(file) = 0 /\ DOMAIN file = 1..Len(file)
    BY <2>2, SequenceIs
  <2> QED
    BY <2>3
<1>2. \A w \in Writers : held[w] = Nothing
  BY DEF Init
<1>3. \A id \in Ids : told[id] = Untold /\ Said(file, id) = {}
  BY <1>1 DEF Init, Said
<1> QED
  BY <1>1, <1>2, <1>3 DEF Chained, LastSaid

LEMMA ChainedNext ==
    ASSUME Genuine, Chained, [Next]_vars
    PROVE  Chained'
<1> SUFFICES ASSUME Readable', touches' = 0
             PROVE  /\ \A i \in DOMAIN file' : /\ Computed(file'[i])
                                             /\ Rooted(file', file'[i], i - 1)
                    /\ \A w \in Writers : \/ held'[w] = Nothing
                                          \/ Rooted(file', held'[w], Len(file'))
                    /\ \A id \in Ids : LastSaid(file', id, told'[id])
  BY DEF Chained
<1>1. /\ \A i \in DOMAIN file : Computed(file[i]) /\ Rooted(file, file[i], i - 1)
      /\ \A w \in Writers : held[w] = Nothing \/ Rooted(file, held[w], Len(file))
      /\ \A id \in Ids : LastSaid(file, id, told[id])
  BY LeftAlone DEF Chained
<1>2. IsSequence(file) /\ Len(file) \in Nat /\ DOMAIN file = 1..Len(file)
  BY SequenceIs DEF Genuine
<1>3. CASE Quiet
  <2>1. file' = file /\ told' = told
    BY <1>3 DEF Quiet
  <2>2. ASSUME NEW w \in Writers
        PROVE  held'[w] = Nothing \/ Rooted(file, held'[w], Len(file))
    <3>1. CASE held'[w] \in {held[w], Nothing}
      BY <3>1, <1>1
    <3>2. CASE held'[w].prev = HeadRead.prev /\ held'[w].seq = HeadRead.seq
      <4>1. CASE file = <<>>
        BY <3>2, <4>1 DEF HeadRead, Rooted
      <4>2. CASE file # <<>>
        <5>1. Len(file) \in 1..Len(file) /\ Len(file) \in DOMAIN file
          BY <4>2, <1>2, SequenceIs
        <5>2. /\ held'[w].prev = file[Len(file)].hash
              /\ held'[w].seq = file[Len(file)].seq + 1
          BY <3>2, <4>2 DEF HeadRead
        <5> QED
          BY <5>1, <5>2 DEF Rooted
      <4> QED
        BY <4>1, <4>2
    <3> QED
      BY <3>1, <3>2, <1>3 DEF Quiet
  <2> QED
    BY <2>1, <2>2, <1>1
<1>4. ASSUME NEW w \in Writers, Written(w)
      PROVE  /\ \A i \in DOMAIN file' : /\ Computed(file'[i])
                                      /\ Rooted(file', file'[i], i - 1)
             /\ \A v \in Writers : \/ held'[v] = Nothing
                                   \/ Rooted(file', held'[v], Len(file'))
             /\ \A id \in Ids : LastSaid(file', id, told'[id])
  <2> DEFINE n == Len(file)
  <2>1. /\ held[w] # Nothing /\ file' = Append(file, held[w]) /\ Remember(held[w])
        /\ held' = [held EXCEPT ![w] = Nothing]
    BY <1>4 DEF Written
  <2>2. /\ IsSequence(file') /\ Len(file') = n + 1
        /\ \A i \in DOMAIN file : file'[i] = file[i]
        /\ file'[n + 1] = held[w]
    BY <2>1, <1>2, Appending
  <2>3. DOMAIN file' = 1..(n + 1)
    BY <2>2, SequenceIs
  <2>4. \A i \in DOMAIN file : i \in DOMAIN file' /\ file'[i] = file[i]
    BY <2>2, <2>3, <1>2
  <2>5. Computed(held[w]) /\ Rooted(file, held[w], n)
    BY <2>1, <1>1 DEF Genuine
  <2>6. ASSUME NEW i \in DOMAIN file'
        PROVE  Computed(file'[i]) /\ Rooted(file', file'[i], i - 1)
    <3>1. CASE i \in DOMAIN file
      <4>1. file'[i] = file[i] /\ Computed(file[i]) /\ Rooted(file, file[i], i - 1)
        BY <3>1, <2>4, <1>1
      <4>2. i - 1 \in Int /\ i - 1 <= i - 1
        BY <3>1, <1>2
      <4> QED
        BY <4>1, <4>2, <2>4, RootedStays
    <3>2. CASE i = n + 1
      <4>1. n \in Int /\ n <= n /\ i - 1 = n
        BY <3>2, <1>2
      <4>2. Rooted(file', held[w], n)
        BY <4>1, <2>4, <2>5, RootedStays
      <4> QED
        BY <4>1, <4>2, <3>2, <2>2, <2>5
    <3> QED
      BY <3>1, <3>2, <2>3, <1>2
  <2>7. ASSUME NEW v \in Writers, held'[v] # Nothing
        PROVE  Rooted(file', held'[v], Len(file'))
    <3>1. held'[v] = held[v] /\ held[v] # Nothing
      BY <2>1, <2>7 DEF Genuine
    <3>2. Rooted(file, held[v], n)
      BY <3>1, <1>1
    <3>3. n \in Int /\ n + 1 \in Int /\ n <= n + 1
      BY <1>2
    <3>4. Rooted(file', held[v], n + 1)
      BY <3>2, <3>3, <2>4, RootedStays
    <3> QED
      BY <3>1, <3>4, <2>2
  <2>8. ASSUME NEW id \in Ids
        PROVE  LastSaid(file', id, told'[id])
    <3> DEFINE outcome == IF Tells(held[w], id) THEN held[w].payload.what ELSE told[id]
    <3>1. LastSaid(Append(file, held[w]), id, outcome)
      BY <1>1, <1>2, LastSaidStays
    <3>2. told'[id] = outcome
      BY <2>1 DEF Remember, Tells, Genuine
    <3> HIDE DEF outcome
    <3> QED
      BY <3>1, <3>2, <2>1
  <2> QED
    BY <2>6, <2>7, <2>8
<1> QED
  BY <1>3, <1>4, LeftAlone

LEMMA AlwaysChained == Spec => []Chained
<1>1. Genuine /\ Chained /\ [Next]_vars => Chained'
  BY ChainedNext
<1> QED
  BY <1>1, ChainedInit, AlwaysGenuine, PTL DEF Spec

\* The record of a decision shows the last settlement that was recorded under its id, for any
\* number of processes and however they crash, as long as the journal reads and was left alone.
THEOREM JournalRecordsTellTheLastSettlement == Spec => []RecordsTellTheLastSettlement
<1>1. Genuine /\ Chained => RecordsTellTheLastSettlement
  <2> SUFFICES ASSUME Genuine, Chained, Readable, touches = 0,
                      NEW id, \E i \in DOMAIN file : /\ file[i].payload.kind = "decision"
                                                    /\ file[i].payload.id = id
               PROVE  SettlementOf(id) = told[id]
    BY DEF RecordsTellTheLastSettlement, RecordsFromJournal
  <2>1. id \in Ids
    <3>1. PICK i \in DOMAIN file : file[i].payload.id = id
      OBVIOUS
    <3>2. file[i].payload \in Payloads
      BY <3>1 DEF Chained, Computed
    <3> QED
      BY <3>1, <3>2 DEF Payloads, Decided, Update
  <2>2. LastSaid(file, id, told[id])
    BY <2>1 DEF Chained
  <2>3. {i \in UpdatesOf(id) : file[i].payload.what \in Outcomes} = Said(file, id)
    BY DEF UpdatesOf, Said
  <2>4. \A i \in Said(file, id) : i \in Int
    BY SequenceIs DEF Said, Genuine
  <2>5. CASE Said(file, id) = {}
    BY <2>2, <2>3, <2>5 DEF LastSaid, SettlementOf
  <2>6. CASE Said(file, id) # {}
    <3>1. PICK i \in Said(file, id) : /\ \A j \in Said(file, id) : j <= i
                                      /\ told[id] = file[i].payload.what
      BY <2>2, <2>6 DEF LastSaid
    <3> DEFINE last == CHOOSE k \in Said(file, id) : \A j \in Said(file, id) : j <= k
    <3>2. last \in Said(file, id) /\ \A j \in Said(file, id) : j <= last
      BY <3>1
    <3>3. last = i
      BY <3>1, <3>2, <2>4
    <3>4. SettlementOf(id) = file[last].payload.what
      BY <2>3, <2>6 DEF SettlementOf
    <3> QED
      BY <3>1, <3>3, <3>4
  <2> QED
    BY <2>5, <2>6
<1> QED
  BY <1>1, AlwaysGenuine, AlwaysChained, PTL

\* A set of numbers has a least one.
LEMMA Least ==
    ASSUME NEW T, T \subseteq Nat, T # {}
    PROVE  \E m \in T : \A n \in T : m <= n
<1> DEFINE R == OpToRel(<, Nat)
<1>1. PICK m \in T : \A n \in T : <<n, m>> \notin R
  <2>1. IsWellFoundedOn(R, Nat)
    BY NatLessThanWellFounded
  <2> HIDE DEF R
  <2> QED
    BY <2>1, WFMin
<1>2. \A n \in T : ~(n < m)
  BY <1>1 DEF OpToRel
<1> QED
  BY <1>2

\* In a journal that verifies the sequence numbers count the lines.
LEMMA VerifiedCounts ==
    ASSUME IsSequence(file), Verifies
    PROVE  \A i \in DOMAIN file : file[i].seq = i - 1
<1> DEFINE T == {i \in DOMAIN file : file[i].seq # i - 1}
<1>1. Len(file) \in Nat /\ DOMAIN file = 1..Len(file)
  BY SequenceIs
<1>2. SUFFICES ASSUME T # {}
               PROVE  FALSE
  OBVIOUS
<1>3. T \subseteq Nat
  BY <1>1
<1>4. PICK m \in T : \A n \in T : m <= n
  <2> HIDE DEF T
  <2> QED
    BY <1>2, <1>3, Least
<1>5. m \in DOMAIN file /\ file[m].seq # m - 1
  OBVIOUS
<1>6. CASE m = 1
  BY <1>5, <1>6 DEF Verifies
<1>7. CASE m # 1
  <2>1. m - 1 \in DOMAIN file /\ m - 1 < m /\ m \in Int
    BY <1>1, <1>5, <1>7
  <2>2. m - 1 \notin T
    BY <2>1, <1>4, <1>1
  <2>3. file[m - 1].seq = m - 1 - 1
    BY <2>1, <2>2
  <2>4. file[m].seq = file[m - 1].seq + 1
    BY <1>5, <1>7 DEF Verifies
  <2> QED
    BY <2>1, <2>3, <2>4, <1>5
<1> QED
  BY <1>6, <1>7

LEMMA VerifiedIsStraight ==
    ASSUME IsSequence(file), Verifies
    PROVE  ~Forked
<1> SUFFICES ASSUME NEW i \in DOMAIN file, NEW j \in DOMAIN file, i < j,
                    file[i].prev = file[j].prev
             PROVE  FALSE
  BY DEF Forked
<1>1. Len(file) \in Nat /\ DOMAIN file = 1..Len(file)
  BY SequenceIs
<1>2. \A k \in DOMAIN file : file[k].seq = k - 1
  BY VerifiedCounts
<1>3. \A k \in DOMAIN file :
          file[k].hash = <<file[k].seq, file[k].prev, file[k].payload>>
  BY DEF Verifies, Digest
<1>4. j # 1 /\ j - 1 \in DOMAIN file
  BY <1>1
<1>5. file[j].prev = file[j - 1].hash
  BY <1>4 DEF Verifies
<1>6. CASE i = 1
  <2>1. file[i].prev = <<>>
    BY <1>6 DEF Verifies, Genesis
  <2>2. <<file[j - 1].seq, file[j - 1].prev, file[j - 1].payload>> = <<>>
    BY <2>1, <1>3, <1>4, <1>5
  <2> QED
    BY <2>2
<1>7. CASE i # 1
  <2>1. i - 1 \in DOMAIN file /\ i - 1 # j - 1
    BY <1>1, <1>7
  <2>2. file[i].prev = file[i - 1].hash
    BY <1>7 DEF Verifies
  <2>3. <<file[i - 1].seq, file[i - 1].prev, file[i - 1].payload>>
            = <<file[j - 1].seq, file[j - 1].prev, file[j - 1].payload>>
    BY <2>1, <2>2, <1>3, <1>4, <1>5
  <2>4. file[i - 1].seq = file[j - 1].seq
    BY <2>3
  <2>5. file[i - 1].seq = (i - 1) - 1 /\ file[j - 1].seq = (j - 1) - 1
    BY <2>1, <1>2, <1>4
  <2>6. i \in Int /\ j \in Int
    BY <1>1
  <2>7. (i - 1) - 1 = (j - 1) - 1
    BY <2>4, <2>5
  <2> QED
    BY <2>6, <2>7
<1> QED
  BY <1>6, <1>7

LEMMA StraightVerifies ==
    ASSUME Genuine, Chained, Readable, touches = 0, ~Forked
    PROVE  Verifies
<1> DEFINE Linked(i) == /\ file[i].seq = (IF i = 1 THEN 0 ELSE file[i - 1].seq + 1)
                        /\ file[i].prev = (IF i = 1 THEN Genesis ELSE file[i - 1].hash)
<1> DEFINE T == {i \in DOMAIN file : ~Linked(i)}
<1>1. Len(file) \in Nat /\ DOMAIN file = 1..Len(file)
  BY SequenceIs DEF Genuine
<1>2. \A i \in DOMAIN file : Computed(file[i]) /\ Rooted(file, file[i], i - 1)
  BY DEF Chained
<1>3. T = {}
  <2> SUFFICES ASSUME T # {}
               PROVE  FALSE
    OBVIOUS
  <2>1. T \subseteq Nat
    BY <1>1
  <2>2. PICK m \in T : \A n \in T : m <= n
    <3> HIDE DEF T
    <3> QED
      BY <2>1, Least
  <2>3. m \in DOMAIN file /\ ~Linked(m) /\ m \in Int
    BY <1>1
  <2>4. Rooted(file, file[m], m - 1)
    BY <2>3, <1>2
  <2>5. \A n \in DOMAIN file : n < m => Linked(n)
    BY <2>2, <2>3, <1>1
  <2> HIDE DEF Linked, T
  <2>6. CASE m = 1
    <3>1. ~\E k \in 1..(m - 1) : TRUE
      BY <2>6
    <3>2. file[m].prev = Genesis /\ file[m].seq = 0
      BY <3>1, <2>4 DEF Rooted
    <3> QED
      BY <3>2, <2>3, <2>6 DEF Linked
  <2>7. CASE m # 1
    <3>1. 1 \in DOMAIN file /\ 1 < m
      BY <2>3, <2>7, <1>1
    <3>2. CASE file[m].prev = Genesis /\ file[m].seq = 0
      <4>1. file[1].prev = Genesis
        BY <3>1, <2>5 DEF Linked
      <4> QED
        BY <4>1, <3>1, <3>2, <2>3 DEF Forked
    <3>3. ASSUME NEW k \in 1..(m - 1), k \in DOMAIN file,
                 file[m].prev = file[k].hash, file[m].seq = file[k].seq + 1
          PROVE  FALSE
      <4>1. CASE k = m - 1
        BY <4>1, <3>3, <2>3, <2>7 DEF Linked
      <4>2. CASE k # m - 1
        <5>1. k + 1 \in DOMAIN file /\ k + 1 < m /\ k + 1 # 1 /\ k + 1 - 1 = k
          BY <4>2, <3>3, <2>3, <1>1
        <5>2. file[k + 1].prev = file[k].hash
          BY <5>1, <2>5 DEF Linked
        <5> QED
          BY <5>1, <5>2, <3>3, <2>3 DEF Forked
      <4> QED
        BY <4>1, <4>2
    <3> QED
      BY <3>2, <3>3, <2>4 DEF Rooted
  <2> QED
    BY <2>6, <2>7
<1>4. \A i \in DOMAIN file : Linked(i)
  BY <1>3
<1>5. \A i \in DOMAIN file :
          file[i].hash = Digest(file[i].seq, file[i].prev, file[i].payload)
  <2>1. \A i \in DOMAIN file : file[i] = Entry(file[i].seq, file[i].prev, file[i].payload)
    BY <1>2 DEF Computed
  <2> QED
    BY <2>1 DEF Entry
<1> QED
  BY <1>4, <1>5 DEF Verifies

\* A journal that was left alone fails verification exactly when two appends chained to the
\* same head: for any number of processes, an alarm without tampering is a race.
THEOREM JournalAlarmIffForked == Spec => []AlarmIffForked
<1>1. Genuine /\ Chained => AlarmIffForked
  BY VerifiedIsStraight, StraightVerifies DEF AlarmIffForked, Genuine
<1> QED
  BY <1>1, AlwaysGenuine, AlwaysChained, PTL

-----------------------------------------------------------------------------
(***************************************************************************)
(* The anchor.                                                             *)
(***************************************************************************)
\* The hashes of a journal's first n lines, from its payloads.
ChainOf(f, n, g) ==
    g = [i \in 0..n |-> IF i = 0 THEN Genesis ELSE Digest(f[i].seq, g[i - 1], f[i].payload)]

LEMMA ChainExists ==
    ASSUME NEW f, NEW n \in Nat
    PROVE  \E g : ChainOf(f, n, g)
<1> DEFINE T == {k \in Nat : ~ \E g : ChainOf(f, k, g)}
<1>1. SUFFICES ASSUME T # {}
               PROVE  FALSE
  OBVIOUS
<1>2. PICK m \in T : \A k \in T : m <= k
  <2>1. T \subseteq Nat
    OBVIOUS
  <2> HIDE DEF T
  <2> QED
    BY <1>1, <2>1, Least
<1>3. m \in Nat /\ ~ \E g : ChainOf(f, m, g)
  OBVIOUS
<1>4. CASE m = 0
  <2> DEFINE g == [i \in 0..0 |-> Genesis]
  <2>1. g = [i \in 0..0 |-> IF i = 0 THEN Genesis ELSE Digest(f[i].seq, g[i - 1], f[i].payload)]
    OBVIOUS
  <2>2. ChainOf(f, m, g)
    BY <2>1, <1>4 DEF ChainOf
  <2> QED
    BY <2>2, <1>3
<1>5. CASE m # 0
  <2>1. m - 1 \in Nat /\ ~(m <= m - 1)
    BY <1>3, <1>5
  <2>2. m - 1 \notin T
    BY <2>1, <1>2
  <2>3. PICK h : ChainOf(f, m - 1, h)
    BY <2>1, <2>2
  <2>4. \A i \in 0..(m - 1) : h[i] = IF i = 0 THEN Genesis
                                     ELSE Digest(f[i].seq, h[i - 1], f[i].payload)
    BY <2>3 DEF ChainOf
  <2> DEFINE g == [i \in 0..m |-> IF i = 0 THEN Genesis
                                  ELSE Digest(f[i].seq, h[i - 1], f[i].payload)]
  <2>5. \A i \in 0..(m - 1) : g[i] = h[i]
    BY <2>4, <1>3
  <2>6. \A i \in 0..m : i = 0 \/ i - 1 \in 0..(m - 1)
    BY <1>3
  <2>7. g = [i \in 0..m |-> IF i = 0 THEN Genesis
                            ELSE Digest(f[i].seq, g[i - 1], f[i].payload)]
    BY <2>5, <2>6
  <2>8. ChainOf(f, m, g)
    BY <2>7 DEF ChainOf
  <2> QED
    BY <2>8, <1>3
<1> QED
  BY <1>4, <1>5

\* What _recomputed_head_at() returns is the end of that chain.
LEMMA RecomputedIs ==
    ASSUME NEW n \in Nat
    PROVE  \E g : /\ RecomputedHead(n) = g[n]
                  /\ g[0] = Genesis
                  /\ \A i \in 1..n : g[i] = Digest(file[i].seq, g[i - 1], file[i].payload)
<1> DEFINE g == CHOOSE h : ChainOf(file, n, h)
<1>1. ChainOf(file, n, g)
  BY ChainExists
<1>2. RecomputedHead(n) = g[n]
  BY DEF RecomputedHead, ChainOf
<1> HIDE DEF g
<1>3. \A i \in 0..n : g[i] = IF i = 0 THEN Genesis
                             ELSE Digest(file[i].seq, g[i - 1], file[i].payload)
  BY <1>1 DEF ChainOf
<1>4. 0 \in 0..n /\ \A i \in 1..n : i \in 0..n /\ i # 0
  OBVIOUS
<1> QED
  BY <1>2, <1>3, <1>4

\* In a journal that verifies it is the hash the line carries.
LEMMA RecomputedIsStored ==
    ASSUME IsSequence(file), Verifies, NEW n \in DOMAIN file
    PROVE  RecomputedHead(n) = file[n].hash
<1>1. Len(file) \in Nat /\ DOMAIN file = 1..Len(file) /\ n \in Nat /\ n \in 1..n
  BY SequenceIs
<1>2. PICK g : /\ RecomputedHead(n) = g[n]
               /\ g[0] = Genesis
               /\ \A i \in 1..n : g[i] = Digest(file[i].seq, g[i - 1], file[i].payload)
  BY <1>1, RecomputedIs
<1> DEFINE T == {i \in 1..n : g[i] # file[i].hash}
<1>3. T = {}
  <2> SUFFICES ASSUME T # {}
               PROVE  FALSE
    OBVIOUS
  <2>1. T \subseteq Nat
    OBVIOUS
  <2>2. PICK m \in T : \A k \in T : m <= k
    <3> HIDE DEF T
    <3> QED
      BY <2>1, Least
  <2>3. /\ m \in 1..n /\ g[m] # file[m].hash /\ m \in DOMAIN file
        /\ \A k \in 1..n : k < m => g[k] = file[k].hash
    BY <2>2, <1>1
  <2> HIDE DEF T
  <2>4. g[m - 1] = file[m].prev
    <3>1. CASE m = 1
      BY <3>1, <2>3, <1>2 DEF Verifies
    <3>2. CASE m # 1
      <4>1. m - 1 \in 1..n /\ m - 1 < m
        BY <3>2, <2>3, <1>1
      <4> QED
        BY <4>1, <3>2, <2>3 DEF Verifies
    <3> QED
      BY <3>1, <3>2
  <2>5. g[m] = Digest(file[m].seq, file[m].prev, file[m].payload)
    BY <2>3, <2>4, <1>2
  <2> QED
    BY <2>3, <2>5 DEF Verifies
<1> QED
  BY <1>1, <1>2, <1>3

\* Nothing the writers or the anchor do takes a line away; at worst it is torn.
LEMMA LinesStand ==
    ASSUME Genuine, [Next]_vars, touches' = touches, NEW n \in DOMAIN file
    PROVE  n \in DOMAIN file' /\ file'[n] \in {file[n], Garbage}
<1>1. /\ IsSequence(file)
      /\ Len(file) \in Nat /\ DOMAIN file = 1..Len(file)
      /\ touches \in Nat
      /\ open => Len(file) >= 1
  BY SequenceIs, JournalAssumption DEF Genuine, JournalAssumption
<1>2. CASE UNCHANGED file
  BY <1>2
<1>3. ASSUME NEW line, file' = Append(file, line)
      PROVE  n \in DOMAIN file' /\ file'[n] = file[n]
  <2>1. /\ IsSequence(file') /\ Len(file') = Len(file) + 1
        /\ file'[n] = file[n]
    BY <1>1, <1>3, Appending
  <2>2. DOMAIN file' = 1..Len(file')
    BY <2>1, SequenceIs
  <2> QED
    BY <2>1, <2>2, <1>1
<1>4. CASE open /\ \E w \in Writers : WriteLine(w)
  <2> DEFINE m == Len(file) - 1
  <2> DEFINE cut == SubSeq(file, 1, m)
  <2>1. file' = Append(cut, Garbage)
    BY <1>4 DEF WriteLine, Appended
  <2>2. m \in 0..Len(file)
    BY <1>1, <1>4
  <2>3. IsSequence(cut) /\ Len(cut) = m /\ \A i \in 1..m : cut[i] = file[i]
    BY <1>1, <2>2, Cutting
  <2> HIDE DEF cut
  <2>4. /\ IsSequence(file') /\ Len(file') = m + 1
        /\ \A i \in DOMAIN cut : file'[i] = cut[i]
        /\ file'[m + 1] = Garbage
    BY <2>1, <2>3, Appending
  <2>5. DOMAIN cut = 1..m /\ DOMAIN file' = 1..(m + 1)
    BY <2>3, <2>4, SequenceIs
  <2>6. n \in 1..m \/ n = m + 1
    BY <1>1
  <2>7. n \in 1..(m + 1)
    BY <1>1
  <2> QED
    BY <2>3, <2>4, <2>5, <2>6, <2>7
<1>5. ASSUME NEW w \in Writers, Step(w)
      PROVE  n \in DOMAIN file' /\ file'[n] \in {file[n], Garbage}
  <2>1. CASE WriteLine(w) /\ ~open
    <3>1. file' = Append(file, held[w])
      BY <2>1 DEF WriteLine, Appended
    <3> QED
      BY <3>1, <1>3
  <2>2. CASE CrashWithin(w)
    <3>1. \E line : file' = Append(file, line)
      BY <2>2 DEF CrashWithin
    <3> QED
      BY <3>1, <1>3
  <2>3. CASE ~(WriteLine(w) \/ CrashWithin(w))
    <3>1. UNCHANGED file
      BY <2>3, <1>5 DEF Step, Decide, Settle, Override, CrashBefore
    <3> QED
      BY <3>1, <1>2
  <2> QED
    BY <2>1, <2>2, <2>3, <1>4
<1>6. ASSUME Outside
      PROVE  FALSE
  <2>1. ASSUME NEW f, Change(f)
        PROVE  FALSE
    BY <2>1, <1>1 DEF Change
  <2> QED
    BY <2>1, <1>6 DEF Outside, EditLine, DropLine, DropTail, SwapLines
<1>7. CASE Publish \/ UNCHANGED vars
  BY <1>7, <1>2 DEF Publish, vars
<1> QED
  BY <1>5, <1>6, <1>7 DEF Next

\* The commitment of a journal that was left alone is the hash one of its lines carries, or
\* carried until it was torn.
Anchored ==
    touches = 0 /\ anchor # Empty =>
        /\ anchor.length \in DOMAIN file
        /\ file[anchor.length] # Garbage => file[anchor.length].hash = anchor.head

\* Who changes the anchor, and who lets it be.
LEMMA Publishing ==
    ASSUME [Next]_vars
    PROVE  Publish \/ UNCHANGED <<anchor, attested>>
<1>1. ASSUME NEW w \in Writers, Step(w)
      PROVE  UNCHANGED <<anchor, attested>>
  BY <1>1 DEF Step, Decide, Settle, Override, WriteLine, CrashBefore, CrashWithin
<1>2. CASE Outside
  <2>1. ASSUME NEW f, Change(f)
        PROVE  UNCHANGED <<anchor, attested>>
    BY <2>1 DEF Change
  <2> QED
    BY <2>1, <1>2 DEF Outside, EditLine, DropLine, DropTail, SwapLines
<1>3. CASE UNCHANGED vars
  BY <1>3 DEF vars
<1> QED
  BY <1>1, <1>2, <1>3 DEF Next

\* Once the file was changed it stays changed.
LEMMA TouchedStays ==
    ASSUME Genuine, [Next]_vars, touches' = 0
    PROVE  touches = 0
<1>1. touches \in Nat
  BY JournalAssumption DEF Genuine, JournalAssumption
<1>2. ASSUME NEW w \in Writers, Step(w)
      PROVE  touches' = touches
  BY <1>2 DEF Step, Decide, Settle, Override, WriteLine, CrashBefore, CrashWithin
<1>3. CASE Outside
  <2>1. ASSUME NEW f, Change(f)
        PROVE  FALSE
    BY <2>1, <1>1 DEF Change
  <2> QED
    BY <2>1, <1>3 DEF Outside, EditLine, DropLine, DropTail, SwapLines
<1>4. CASE Publish \/ UNCHANGED vars
  BY <1>4 DEF Publish, vars
<1> QED
  BY <1>2, <1>3, <1>4 DEF Next

LEMMA AnchoredNext ==
    ASSUME Genuine, Anchored, [Next]_vars
    PROVE  Anchored'
<1> SUFFICES ASSUME touches' = 0, anchor' # Empty
             PROVE  /\ anchor'.length \in DOMAIN file'
                    /\ file'[anchor'.length] # Garbage =>
                           file'[anchor'.length].hash = anchor'.head
  BY DEF Anchored
<1>1. touches = 0
  BY TouchedStays
<1>2. CASE Publish
  <2>1. /\ file # <<>> /\ file' = file
        /\ anchor' = [length |-> Len(file), head |-> HeadRead.prev]
    BY <1>2 DEF Publish
  <2>2. Len(file) \in DOMAIN file
    BY <2>1, SequenceIs DEF Genuine
  <2>3. HeadRead.prev = file[Len(file)].hash
    BY <2>1 DEF HeadRead
  <2> QED
    BY <2>1, <2>2, <2>3
<1>3. CASE UNCHANGED anchor
  <2>1. /\ anchor.length \in DOMAIN file
        /\ file[anchor.length] # Garbage => file[anchor.length].hash = anchor.head
    BY <1>1, <1>3 DEF Anchored
  <2>2. /\ anchor.length \in DOMAIN file'
        /\ file'[anchor.length] \in {file[anchor.length], Garbage}
    BY <2>1, <1>1, LinesStand
  <2> QED
    BY <2>1, <2>2, <1>3
<1> QED
  BY <1>2, <1>3, Publishing

\* An anchor that cannot answer is never a pass, and one that can does not accuse a journal
\* that verifies and was left alone: however many processes wrote it and whatever crashed, the
\* head that is computed again from the payloads is the one that was published.
THEOREM JournalAnchorIsHonest == Spec => []AnchorIsHonest
<1>1. Init => Anchored
  BY DEF Init, Anchored
<1>2. Genuine /\ Anchored /\ [Next]_vars => Anchored'
  BY AnchoredNext
<1>3. Genuine /\ Anchored => AnchorIsHonest
  <2> SUFFICES ASSUME Genuine, Anchored, Readable
               PROVE  /\ \A a \in Answers \ {"commitment"} : AnchorOutcome(a) = "unknown"
                      /\ Ok /\ touches = 0 =>
                             AnchorOutcome("commitment") \in {"unknown", "consistent"}
    BY DEF AnchorIsHonest
  <2>1. \A a \in Answers \ {"commitment"} : AnchorOutcome(a) = "unknown"
    BY DEF AnchorOutcome
  <2>2. ASSUME Ok, touches = 0, anchor # Empty
        PROVE  AnchorOutcome("commitment") = "consistent"
    <3>1. IsSequence(file) /\ Len(file) \in Nat /\ DOMAIN file = 1..Len(file)
      BY SequenceIs DEF Genuine
    <3>2. anchor.length \in DOMAIN file /\ file[anchor.length].hash = anchor.head
      BY <2>2 DEF Anchored, Readable
    <3>3. ~(anchor.length > Len(file))
      BY <3>1, <3>2
    <3>4. RecomputedHead(anchor.length) = anchor.head
      BY <2>2, <3>1, <3>2, RecomputedIsStored DEF Ok
    <3> QED
      BY <2>2, <3>3, <3>4 DEF AnchorOutcome
  <2>3. anchor = Empty => AnchorOutcome("commitment") = "unknown"
    BY DEF AnchorOutcome
  <2> QED
    BY <2>1, <2>2, <2>3
<1> QED
  BY <1>1, <1>2, <1>3, AlwaysGenuine, PTL DEF Spec

LEMMA SameRange ==
    ASSUME NEW k \in Nat, NEW n \in Nat, 1..k = 1..n
    PROVE  k = n
<1>1. k = 0 \/ k \in 1..n
  OBVIOUS
<1>2. n = 0 \/ n \in 1..k
  OBVIOUS
<1> QED
  BY <1>1, <1>2

\* A chain of digests that tells of the payloads.
ChainOver(g, n, payloads) ==
    \A i \in 1..n : \E s : g[i] = Digest(s, g[i - 1], payloads[i])

\* What was attested is what the commitment digests.
Vouched ==
    attested # <<>> =>
        /\ IsSequence(attested)
        /\ Len(attested) >= 1
        /\ anchor.length = Len(attested)
        /\ \E g : /\ g[0] = Genesis
                  /\ g[anchor.length] = anchor.head
                  /\ ChainOver(g, anchor.length, attested)

LEMMA VouchedNext ==
    ASSUME Genuine, Vouched, [Next]_vars
    PROVE  Vouched'
<1>1. CASE UNCHANGED <<anchor, attested>>
  BY <1>1 DEF Vouched
<1>2. CASE Publish /\ ~Verifies
  <2>1. attested' = <<>>
    BY <1>2 DEF Publish
  <2> QED
    BY <2>1 DEF Vouched
<1>3. CASE Publish /\ Verifies
  <2> DEFINE n == Len(file)
  <2>1. /\ file # <<>>
        /\ anchor' = [length |-> n, head |-> HeadRead.prev]
        /\ attested' = PayloadsOf(file)
    BY <1>3 DEF Publish
  <2>2. n \in Nat /\ DOMAIN file = 1..n /\ n >= 1
    BY <2>1, SequenceIs DEF Genuine
  <2>3. HeadRead.prev = file[n].hash
    BY <2>1 DEF HeadRead
  <2>4. attested' = [i \in 1..n |-> file[i].payload]
    BY <2>1, <2>2 DEF PayloadsOf
  <2> DEFINE S == {file[i].payload : i \in 1..n}
  <2>5. attested' \in Seq(S) /\ Len(attested') = n
    <3>1. attested' \in [1..n -> S]
      BY <2>4
    <3>2. attested' \in Seq(S)
      <4> HIDE DEF S, n
      <4> QED
        BY <3>1, <2>2, SeqDef
    <3>3. Len(attested') \in Nat /\ DOMAIN attested' = 1..Len(attested')
      BY <3>2, LenProperties
    <3>4. DOMAIN attested' = 1..n
      BY <2>4
    <3>5. Len(attested') = n
      <4> HIDE DEF n, S
      <4> QED
        BY <3>3, <3>4, <2>2, SameRange
    <3> QED
      BY <3>2, <3>5
  <2> DEFINE g == [i \in 0..n |-> IF i = 0 THEN Genesis ELSE file[i].hash]
  <2>6. /\ g[0] = Genesis
        /\ g[n] = file[n].hash
        /\ \A i \in 1..n : g[i] = Digest(file[i].seq, g[i - 1], file[i].payload)
    <3>1. /\ \A i \in 1..n : i \in 0..n /\ i # 0 /\ i - 1 \in 0..n
          /\ \A i \in 1..n : i # 1 => i - 1 # 0
          /\ 0 \in 0..n /\ n \in 1..n
      BY <2>2
    <3>2. \A i \in 1..n : g[i] = file[i].hash
      BY <3>1
    <3>3. \A i \in 1..n : g[i - 1] = file[i].prev
      BY <3>1, <2>2, <1>3 DEF Verifies
    <3>4. \A i \in 1..n : file[i].hash = Digest(file[i].seq, file[i].prev, file[i].payload)
      BY <2>2, <1>3 DEF Verifies
    <3> HIDE DEF n
    <3>5. g[0] = Genesis
      BY <3>1
    <3> HIDE DEF g
    <3> QED
      BY <3>1, <3>2, <3>3, <3>4, <3>5
  <2>7. DOMAIN attested' = 1..n /\ \A i \in 1..n : attested'[i] = file[i].payload
    BY <2>4
  <2>8. anchor'.length = n /\ anchor'.head = file[n].hash
    BY <2>1, <2>3
  <2> HIDE DEF g, n, S
  <2>9. ChainOver(g, n, attested')
    BY <2>6, <2>7 DEF ChainOver
  <2> QED
    BY <2>2, <2>5, <2>6, <2>8, <2>9 DEF Vouched, IsSequence
<1> QED
  BY <1>1, <1>2, <1>3, Publishing

\* Two chains that end in the same digest tell the same payloads.
LEMMA ChainsAgree ==
    ASSUME NEW n \in Nat, NEW g, NEW h, NEW p, NEW q, g[n] = h[n],
           ChainOver(g, n, p), ChainOver(h, n, q)
    PROVE  \A i \in 1..n : p[i] = q[i]
<1>1. \A i \in 1..n : g[i] = h[i] => g[i - 1] = h[i - 1] /\ p[i] = q[i]
  BY DEF Digest, ChainOver
<1> DEFINE T == {k \in 0..n : g[n - k] # h[n - k]}
<1>2. T = {}
  <2> SUFFICES ASSUME T # {}
               PROVE  FALSE
    OBVIOUS
  <2>1. T \subseteq Nat
    OBVIOUS
  <2>2. PICK m \in T : \A k \in T : m <= k
    <3> HIDE DEF T
    <3> QED
      BY <2>1, Least
  <2>3. m \in 0..n /\ g[n - m] # h[n - m]
    OBVIOUS
  <2>4. m # 0
    BY <2>3
  <2>5. m - 1 \in 0..n /\ m - 1 \notin T
    <3>1. m - 1 \in 0..n /\ ~(m <= m - 1)
      BY <2>3, <2>4
    <3> HIDE DEF T
    <3> QED
      BY <3>1, <2>2
  <2>6. g[n - (m - 1)] = h[n - (m - 1)]
    BY <2>5
  <2>7. n - (m - 1) \in 1..n /\ n - (m - 1) - 1 = n - m
    BY <2>3, <2>4
  <2> HIDE DEF T
  <2> QED
    BY <2>3, <2>6, <2>7, <1>1
<1>3. ASSUME NEW i \in 1..n
      PROVE  g[i] = h[i]
  <2>1. n - i \in 0..n /\ n - (n - i) = i
    OBVIOUS
  <2>2. n - i \notin T
    BY <1>2
  <2> QED
    BY <2>1, <2>2
<1> QED
  BY <1>1, <1>3

\* An anchor that agrees vouches for what the entries say: the first ones say what they said
\* when their head was published, if the journal verified then and whatever was done since.
THEOREM JournalConsistentMeansUnchanged == Spec => []ConsistentMeansUnchanged
<1>1. Init => Vouched
  BY DEF Init, Vouched
<1>2. Genuine /\ Vouched /\ [Next]_vars => Vouched'
  BY VouchedNext
<1>3. Genuine /\ Vouched => ConsistentMeansUnchanged
  <2> SUFFICES ASSUME Genuine, Vouched, AnchorOutcome("commitment") = "consistent"
               PROVE  /\ Len(file) >= Len(attested)
                      /\ \A i \in DOMAIN attested : file[i].payload = attested[i]
    BY DEF ConsistentMeansUnchanged
  <2>1. Len(file) \in Nat /\ DOMAIN file = 1..Len(file)
    BY SequenceIs DEF Genuine
  <2>2. CASE attested = <<>>
    <3>1. IsSequence(attested)
      BY <2>2, EmptySeq DEF IsSequence
    <3>2. Len(attested) = 0 /\ DOMAIN attested = 1..Len(attested)
      BY <2>2, <3>1, SequenceIs
    <3> QED
      BY <3>2, <2>1
  <2>3. CASE attested # <<>>
    <3> DEFINE n == Len(attested)
    <3>1. /\ IsSequence(attested) /\ n >= 1 /\ anchor.length = n
          /\ \E g : /\ g[0] = Genesis
                    /\ g[anchor.length] = anchor.head
                    /\ ChainOver(g, anchor.length, attested)
      BY <2>3 DEF Vouched
    <3>2. n \in Nat /\ DOMAIN attested = 1..n
      BY <3>1, SequenceIs
    <3>3. ~(n > Len(file)) /\ RecomputedHead(n) = anchor.head
      BY <3>1 DEF AnchorOutcome
    <3> HIDE DEF n
    <3>4. PICK g : g[n] = anchor.head /\ ChainOver(g, n, attested)
      BY <3>1
    <3>5. PICK h : /\ RecomputedHead(n) = h[n]
                   /\ h[0] = Genesis
                   /\ \A i \in 1..n : h[i] = Digest(file[i].seq, h[i - 1], file[i].payload)
      BY <3>2, RecomputedIs
    <3>6. PICK q : q = [i \in 1..n |-> file[i].payload]
      OBVIOUS
    <3>7. \A i \in 1..n : q[i] = file[i].payload
      BY <3>6
    <3>8. \A i \in 1..n : attested[i] = q[i]
      <4>1. g[n] = h[n]
        BY <3>3, <3>4, <3>5
      <4>2. ChainOver(h, n, q)
        BY <3>5, <3>7 DEF ChainOver
      <4> QED
        BY <3>2, <3>4, <4>1, <4>2, ChainsAgree
    <3> QED
      BY <3>2, <3>3, <3>7, <3>8, <2>1 DEF n
  <2> QED
    BY <2>2, <2>3
<1> QED
  BY <1>1, <1>2, <1>3, AlwaysGenuine, PTL DEF Spec
=============================================================================

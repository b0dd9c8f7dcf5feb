-------------------------------- MODULE Sums --------------------------------
(***************************************************************************)
(* Facts about SumFunctionOnSet(f, S), the sum of f[x] over a finite set:  *)
(* what the spent totals of the ledger, the intents and the treasury are.  *)
(*                                                                         *)
(* The sum is a recursive function on the subsets of S.  Every induction   *)
(* is a search for a smallest counterexample among those subsets.          *)
(***************************************************************************)
EXTENDS Integers, FiniteSets, Functions, FiniteSetTheorems, TLAPS

-----------------------------------------------------------------------------
(***************************************************************************)
(* The recursion has a solution, and one only.                             *)
(***************************************************************************)

\* Among subsets of a finite set there is a smallest one.
LEMMA SmallestSet ==
    ASSUME NEW S, IsFiniteSet(S), NEW Bad, Bad \subseteq SUBSET S, Bad # {}
    PROVE  \E T \in Bad : \A U \in Bad : U \subseteq T => U = T
<1>1. IsWellFoundedOn(StrictSubsetOrdering(S), SUBSET S)
  BY FS_StrictSubsetOrderingWellFounded, FS_FiniteSubsetsOfFinite
<1>2. PICK T \in Bad : \A U \in Bad : ~ (<<U, T>> \in StrictSubsetOrdering(S))
  BY <1>1, WFMin
<1> QED
  BY <1>2 DEF StrictSubsetOrdering

Pick(s) == CHOOSE x \in s : TRUE

SumsUp(g, f, S) ==
    g = [s \in SUBSET S |-> IF s = {} THEN 0 ELSE f[Pick(s)] + g[s \ {Pick(s)}]]

LEMMA SumIs ==
    ASSUME NEW f, NEW S
    PROVE  SumFunctionOnSet(f, S) = (CHOOSE g : SumsUp(g, f, S))[S]
BY DEF SumFunctionOnSet, FoldFunctionOnSet, MapThenFoldSet, SumsUp, Pick

LEMMA SumsUpOnce ==
    ASSUME NEW f, NEW S, NEW T, IsFiniteSet(S), T \subseteq S,
           NEW g, NEW h, SumsUp(g, f, S), SumsUp(h, f, T)
    PROVE  g[T] = h[T]
<1> DEFINE Bad == {s \in SUBSET T : g[s] # h[s]}
<1> SUFFICES ASSUME Bad # {} PROVE FALSE
  OBVIOUS
<1>1. PICK s \in Bad : \A u \in Bad : u \subseteq s => u = s
  <2>1. Bad \subseteq SUBSET S
    OBVIOUS
  <2> HIDE DEF Bad
  <2> QED
    BY <2>1, SmallestSet
<1>2. s # {}
  BY <1>1 DEF SumsUp
<1>3. Pick(s) \in s
  BY <1>2 DEF Pick
<1>4. s \ {Pick(s)} \in SUBSET T /\ g[s \ {Pick(s)}] = h[s \ {Pick(s)}]
  BY <1>1, <1>3
<1>5. g[s] = f[Pick(s)] + g[s \ {Pick(s)}] /\ h[s] = f[Pick(s)] + h[s \ {Pick(s)}]
  BY <1>1, <1>2 DEF SumsUp
<1> QED
  BY <1>1, <1>4, <1>5

LEMMA SumsUpExists ==
    ASSUME NEW f, NEW S, IsFiniteSet(S)
    PROVE  \E g : SumsUp(g, f, S)
<1> DEFINE Bad == {s \in SUBSET S : ~ \E g : SumsUp(g, f, s)}
           of(s) == CHOOSE g : SumsUp(g, f, s)
<1> SUFFICES ASSUME Bad # {} PROVE FALSE
  OBVIOUS
<1>1. PICK T \in Bad : \A u \in Bad : u \subseteq T => u = T
  <2>1. Bad \subseteq SUBSET S
    OBVIOUS
  <2> HIDE DEF Bad
  <2> QED
    BY <2>1, SmallestSet
<1>2. \A s \in SUBSET T : s # T => SumsUp(of(s), f, s)
  BY <1>1
<1> DEFINE under(s) == IF s = {} THEN 0
                       ELSE f[Pick(s)] + of(s \ {Pick(s)})[s \ {Pick(s)}]
           h == [s \in SUBSET T |-> under(s)]
<1> HIDE DEF of
<1>3. ASSUME NEW s \in SUBSET T, s # T PROVE of(s)[s] = under(s)
  <2>1. SumsUp(of(s), f, s)
    BY <1>2, <1>3
  <2>2. CASE s = {}
    BY <2>1, <2>2 DEF SumsUp
  <2>3. CASE s # {}
    <3>1. Pick(s) \in s
      BY <2>3 DEF Pick
    <3>2. PICK u : u = s \ {Pick(s)}
      OBVIOUS
    <3>3. u \subseteq s /\ u \in SUBSET T /\ u # T
      BY <1>3, <3>1, <3>2
    <3>4. SumsUp(of(u), f, u)
      BY <1>2, <3>3
    <3>5. IsFiniteSet(s)
      BY <1>1, FS_Subset
    <3>6. of(s)[u] = of(u)[u]
      BY <2>1, <3>3, <3>4, <3>5, SumsUpOnce
    <3>7. of(s)[s] = f[Pick(s)] + of(s)[u]
      BY <2>1, <2>3, <3>2 DEF SumsUp
    <3> QED
      BY <2>3, <3>2, <3>6, <3>7
  <2> QED
    BY <2>2, <2>3
<1>4. ASSUME NEW s \in SUBSET T, s # {} PROVE h[s] = f[Pick(s)] + h[s \ {Pick(s)}]
  <2>1. Pick(s) \in s
    BY <1>4 DEF Pick
  <2>2. PICK u : u = s \ {Pick(s)}
    OBVIOUS
  <2>3. u \in SUBSET T /\ u # T
    BY <2>1, <2>2
  <2>4. of(u)[u] = under(u) /\ h[u] = under(u)
    BY <1>3, <2>3
  <2>5. h[s] = f[Pick(s)] + of(u)[u]
    BY <1>4, <2>2
  <2> QED
    BY <2>2, <2>4, <2>5
<1>5. h[{}] = 0 /\ h = [s \in SUBSET T |-> h[s]]
  OBVIOUS
<1> HIDE DEF h
<1>6. SumsUp(h, f, T)
  BY <1>4, <1>5 DEF SumsUp
<1> QED
  BY <1>1, <1>6

LEMMA SumOf ==
    ASSUME NEW f, NEW S, IsFiniteSet(S)
    PROVE  \E g : SumsUp(g, f, S) /\ SumFunctionOnSet(f, S) = g[S]
<1>1. SumsUp(CHOOSE g : SumsUp(g, f, S), f, S)
  BY SumsUpExists
<1> QED
  BY <1>1, SumIs

-----------------------------------------------------------------------------
(***************************************************************************)
(* Adding and removing.                                                    *)
(***************************************************************************)
LEMMA SumEmpty ==
    ASSUME NEW f
    PROVE  SumFunctionOnSet(f, {}) = 0
<1>1. PICK g : SumsUp(g, f, {}) /\ SumFunctionOnSet(f, {}) = g[{}]
  BY SumOf, FS_EmptySet
<1> QED
  BY <1>1 DEF SumsUp

\* The sum over a set that is not empty is some element's value and the rest.
LEMMA SumSplits ==
    ASSUME NEW f, NEW S, IsFiniteSet(S), S # {}
    PROVE  \E x \in S : SumFunctionOnSet(f, S) = f[x] + SumFunctionOnSet(f, S \ {x})
<1>1. PICK g : SumsUp(g, f, S) /\ SumFunctionOnSet(f, S) = g[S]
  BY SumOf
<1>2. PICK x \in S : x = Pick(S)
  BY DEF Pick
<1>3. PICK T : T = S \ {x}
  OBVIOUS
<1>4. T \subseteq S /\ IsFiniteSet(T)
  BY <1>3, FS_Subset
<1>5. PICK h : SumsUp(h, f, T) /\ SumFunctionOnSet(f, T) = h[T]
  BY <1>4, SumOf
<1>6. g[T] = h[T]
  BY <1>1, <1>4, <1>5, SumsUpOnce
<1>7. g[S] = f[x] + g[T]
  BY <1>1, <1>2, <1>3 DEF SumsUp
<1> QED
  BY <1>1, <1>3, <1>5, <1>6, <1>7

LEMMA SumType ==
    ASSUME NEW f, NEW S, IsFiniteSet(S), \A x \in S : f[x] \in Nat
    PROVE  SumFunctionOnSet(f, S) \in Nat
<1> DEFINE Bad == {T \in SUBSET S : SumFunctionOnSet(f, T) \notin Nat}
<1> SUFFICES ASSUME Bad # {} PROVE FALSE
  BY DEF Bad
<1>1. PICK T \in Bad : \A u \in Bad : u \subseteq T => u = T
  <2>1. Bad \subseteq SUBSET S
    OBVIOUS
  <2> HIDE DEF Bad
  <2> QED
    BY <2>1, SmallestSet
<1>2. IsFiniteSet(T) /\ T # {}
  <2>1. SumFunctionOnSet(f, T) \notin Nat /\ T \subseteq S
    BY <1>1
  <2>2. ASSUME T = {} PROVE FALSE
    <3>1. SumFunctionOnSet(f, T) = 0
      BY <2>2, SumEmpty
    <3> QED
      BY <2>1, <3>1
  <2> QED
    BY <2>1, <2>2, FS_Subset
<1>3. PICK x \in T : SumFunctionOnSet(f, T) = f[x] + SumFunctionOnSet(f, T \ {x})
  BY <1>2, SumSplits
<1>4. SumFunctionOnSet(f, T \ {x}) \in Nat /\ f[x] \in Nat
  BY <1>1, <1>3
<1> QED
  BY <1>1, <1>3, <1>4

\* Any element will do.
LEMMA SumRemove ==
    ASSUME NEW f, NEW S, IsFiniteSet(S), \A x \in S : f[x] \in Nat, NEW x \in S
    PROVE  SumFunctionOnSet(f, S) = f[x] + SumFunctionOnSet(f, S \ {x})
<1> DEFINE Splits(T, z) == SumFunctionOnSet(f, T) = f[z] + SumFunctionOnSet(f, T \ {z})
           Bad == {T \in SUBSET S : \E z \in T : ~Splits(T, z)}
<1> SUFFICES ASSUME Bad # {} PROVE FALSE
  BY DEF Bad
<1>1. PICK T \in Bad : \A u \in Bad : u \subseteq T => u = T
  <2>1. Bad \subseteq SUBSET S
    OBVIOUS
  <2> HIDE DEF Bad
  <2> QED
    BY <2>1, SmallestSet
<1>2. PICK z \in T : ~Splits(T, z)
  BY <1>1
<1>3. IsFiniteSet(T) /\ T \subseteq S
  BY <1>1, FS_Subset
<1>4. PICK y \in T : Splits(T, y)
  BY <1>2, <1>3, SumSplits
<1>5. y # z
  BY <1>2, <1>4
<1>6. PICK Y, Z, R : Y = T \ {y} /\ Z = T \ {z} /\ R = T \ {y, z}
  OBVIOUS
<1>7. R = Y \ {z} /\ R = Z \ {y}
  BY <1>6
<1>8. Splits(Y, z) /\ Splits(Z, y)
  <2>1. Y \subseteq T /\ Y # T /\ Z \subseteq T /\ Z # T /\ z \in Y /\ y \in Z
    BY <1>5, <1>6
  <2> HIDE DEF Splits
  <2> QED
    BY <1>1, <1>3, <2>1
<1>9. /\ SumFunctionOnSet(f, T) = f[y] + SumFunctionOnSet(f, Y)
      /\ SumFunctionOnSet(f, Y) = f[z] + SumFunctionOnSet(f, R)
      /\ SumFunctionOnSet(f, Z) = f[y] + SumFunctionOnSet(f, R)
  BY <1>4, <1>6, <1>7, <1>8
<1>10. IsFiniteSet(R) /\ R \subseteq S
  BY <1>3, <1>6, FS_Subset
<1>11. f[y] \in Nat /\ f[z] \in Nat /\ SumFunctionOnSet(f, R) \in Nat
  BY <1>3, <1>10, SumType
<1>12. SumFunctionOnSet(f, T) = f[z] + SumFunctionOnSet(f, Z)
  BY <1>9, <1>11
<1> QED
  BY <1>2, <1>6, <1>12

LEMMA SumAdd ==
    ASSUME NEW f, NEW S, IsFiniteSet(S), \A y \in S : f[y] \in Nat,
           NEW x, x \notin S, f[x] \in Nat
    PROVE  SumFunctionOnSet(f, S \cup {x}) = f[x] + SumFunctionOnSet(f, S)
<1>1. PICK T : T = S \cup {x}
  OBVIOUS
<1>2. IsFiniteSet(T) /\ x \in T /\ S = T \ {x} /\ \A y \in T : f[y] \in Nat
  BY <1>1, FS_AddElement
<1> QED
  BY <1>1, <1>2, SumRemove

-----------------------------------------------------------------------------
(***************************************************************************)
(* Comparing.                                                              *)
(***************************************************************************)

\* What f counts of S, g counts of T, and at least as much.
LEMMA SumBelow ==
    ASSUME NEW f, NEW g, NEW S, NEW T, IsFiniteSet(S), IsFiniteSet(T),
           \A x \in S : f[x] \in Nat, \A x \in T : g[x] \in Nat,
           \A x \in S : f[x] = 0 \/ (x \in T /\ f[x] <= g[x])
    PROVE  SumFunctionOnSet(f, S) <= SumFunctionOnSet(g, T)
<1> DEFINE Bad == {s \in SUBSET S :
                      ~ (SumFunctionOnSet(f, s) <= SumFunctionOnSet(g, T \cap s))}
<1>1. CASE Bad # {}
  <2>1. PICK s \in Bad : \A u \in Bad : u \subseteq s => u = s
    <3>1. Bad \subseteq SUBSET S
      OBVIOUS
    <3> HIDE DEF Bad
    <3> QED
      BY <1>1, <3>1, SmallestSet
  <2>2. PICK t : t = T \cap s
    OBVIOUS
  <2>3. IsFiniteSet(s) /\ s \subseteq S /\ IsFiniteSet(t) /\ t \subseteq T
    BY <2>1, <2>2, FS_Subset
  <2>4. SumFunctionOnSet(f, s) \in Nat /\ SumFunctionOnSet(g, t) \in Nat
    <3>1. \A x \in s : f[x] \in Nat
      BY <2>3
    <3>2. \A x \in t : g[x] \in Nat
      BY <2>3
    <3> QED
      BY <2>3, <3>1, <3>2, SumType
  <2>5. ASSUME s = {} PROVE FALSE
    <3>1. t = {}
      BY <2>2, <2>5
    <3>2. SumFunctionOnSet(f, s) = 0 /\ SumFunctionOnSet(g, t) = 0
      BY <2>5, <3>1, SumEmpty
    <3> QED
      BY <2>1, <2>2, <3>2
  <2>6. PICK x \in s : TRUE
    BY <2>5
  <2>7. PICK r, q : r = s \ {x} /\ q = T \cap r
    OBVIOUS
  <2>8. SumFunctionOnSet(f, r) <= SumFunctionOnSet(g, q)
    <3>1. r \subseteq S /\ r \subseteq s /\ r # s
      BY <2>3, <2>6, <2>7
    <3> QED
      BY <2>1, <2>7, <3>1
  <2>9. SumFunctionOnSet(f, s) = f[x] + SumFunctionOnSet(f, r)
    BY <2>3, <2>7, SumRemove
  <2>10. IsFiniteSet(r) /\ r \subseteq S /\ IsFiniteSet(q) /\ q \subseteq T
    BY <2>3, <2>7, FS_Subset
  <2>11. SumFunctionOnSet(f, r) \in Nat /\ SumFunctionOnSet(g, q) \in Nat
    <3>1. \A z \in r : f[z] \in Nat
      BY <2>10
    <3>2. \A z \in q : g[z] \in Nat
      BY <2>10
    <3> QED
      BY <2>10, <3>1, <3>2, SumType
  <2>12. f[x] \in Nat
    BY <2>3, <2>6
  <2>13. CASE x \in T
    <3>1. x \in t /\ q = t \ {x} /\ \A z \in t : g[z] \in Nat
      BY <2>2, <2>3, <2>6, <2>7, <2>13
    <3>2. SumFunctionOnSet(g, t) = g[x] + SumFunctionOnSet(g, q)
      BY <2>3, <3>1, SumRemove
    <3>3. f[x] <= g[x] /\ g[x] \in Nat
      <4>1. f[x] = 0 \/ f[x] <= g[x]
        BY <2>3, <2>6
      <4> QED
        BY <2>13, <4>1
    <3> QED
      BY <2>1, <2>2, <2>8, <2>9, <2>11, <2>12, <3>2, <3>3
  <2>14. CASE x \notin T
    <3>1. q = t
      BY <2>2, <2>7, <2>14
    <3>2. f[x] = 0
      BY <2>3, <2>6, <2>14
    <3> QED
      BY <2>1, <2>2, <2>8, <2>9, <2>11, <3>1, <3>2
  <2> QED
    BY <2>13, <2>14
<1>2. CASE Bad = {}
  <2>1. SumFunctionOnSet(f, S) <= SumFunctionOnSet(g, T \cap S)
    BY <1>2
  <2> DEFINE Low == {t \in SUBSET T :
                       /\ T \cap S \subseteq t
                       /\ ~ (SumFunctionOnSet(g, T \cap S) <= SumFunctionOnSet(g, t))}
  <2>2. IsFiniteSet(T \cap S) /\ \A x \in T \cap S : g[x] \in Nat
    BY FS_Subset
  <2>3. SumFunctionOnSet(f, S) \in Nat /\ SumFunctionOnSet(g, T \cap S) \in Nat
    BY <2>2, SumType
  <2>4. CASE Low # {}
    <3>1. PICK t \in Low : \A u \in Low : u \subseteq t => u = t
      <4>1. Low \subseteq SUBSET T
        OBVIOUS
      <4> HIDE DEF Low
      <4> QED
        BY <2>4, <4>1, SmallestSet
    <3>2. ASSUME t = T \cap S PROVE FALSE
      <4>1. ~ (SumFunctionOnSet(g, T \cap S) <= SumFunctionOnSet(g, t))
        BY <3>1
      <4> QED
        BY <2>3, <3>2, <4>1
    <3>3. PICK x \in t : x \notin T \cap S
      BY <3>1, <3>2
    <3>4. PICK u : u = t \ {x}
      OBVIOUS
    <3>5. IsFiniteSet(t) /\ IsFiniteSet(u) /\ t \subseteq T /\ u \subseteq T
      BY <3>1, <3>4, FS_Subset
    <3>6. SumFunctionOnSet(g, t) = g[x] + SumFunctionOnSet(g, u)
      <4>1. \A z \in t : g[z] \in Nat
        BY <3>5
      <4> QED
        BY <3>4, <3>5, <4>1, SumRemove
    <3>7. SumFunctionOnSet(g, u) \in Nat /\ g[x] \in Nat
      <4>1. \A z \in u : g[z] \in Nat
        BY <3>5
      <4> QED
        BY <3>3, <3>5, <4>1, SumType
    <3>8. SumFunctionOnSet(g, T \cap S) <= SumFunctionOnSet(g, u)
      <4>1. T \cap S \subseteq u /\ u \subseteq t /\ u # t
        BY <3>1, <3>3, <3>4
      <4> QED
        BY <3>1, <3>5, <4>1
    <3> QED
      BY <2>3, <3>1, <3>6, <3>7, <3>8
  <2>5. CASE Low = {}
    <3>1. SumFunctionOnSet(g, T \cap S) <= SumFunctionOnSet(g, T)
      BY <2>5
    <3>2. SumFunctionOnSet(g, T) \in Nat
      BY SumType
    <3> QED
      BY <2>1, <2>3, <3>1, <3>2
  <2> QED
    BY <2>4, <2>5
<1> QED
  BY <1>1, <1>2

LEMMA SumSame ==
    ASSUME NEW f, NEW g, NEW S, IsFiniteSet(S),
           \A x \in S : f[x] \in Nat /\ g[x] = f[x]
    PROVE  SumFunctionOnSet(f, S) = SumFunctionOnSet(g, S)
<1>1. \A x \in S : f[x] <= g[x] /\ g[x] <= f[x]
  OBVIOUS
<1>2. SumFunctionOnSet(f, S) <= SumFunctionOnSet(g, S)
  BY <1>1, SumBelow
<1>3. SumFunctionOnSet(g, S) <= SumFunctionOnSet(f, S)
  BY <1>1, SumBelow
<1>4. SumFunctionOnSet(f, S) \in Nat /\ SumFunctionOnSet(g, S) \in Nat
  BY SumType
<1> QED
  BY <1>2, <1>3, <1>4

\* A finite set of numbers has a largest one.
LEMMA LargestExists ==
    ASSUME NEW S, IsFiniteSet(S), S # {}, S \subseteq Nat
    PROVE  \E a \in S : \A b \in S : b <= a
<1> DEFINE Bad == {T \in SUBSET S : T # {} /\ ~ \E a \in T : \A b \in T : b <= a}
<1> SUFFICES ASSUME Bad # {} PROVE FALSE
  BY DEF Bad
<1>1. PICK T \in Bad : \A u \in Bad : u \subseteq T => u = T
  <2>1. Bad \subseteq SUBSET S /\ IsFiniteSet(S) /\ Bad # {}
    OBVIOUS
  <2> HIDE DEF Bad
  <2> QED
    BY ONLY <2>1, SmallestSet
<1>2. T # {} /\ T \subseteq S /\ \A a \in T : \E b \in T : ~ (b <= a)
  BY <1>1
<1>3. PICK x \in T : TRUE
  BY <1>2
<1>4. PICK R : R = T \ {x}
  OBVIOUS
<1>5. x \in Nat /\ R \subseteq Nat
  BY <1>2, <1>3, <1>4
<1>6. CASE R = {}
  <2>1. \A b \in T : b <= x
    BY <1>4, <1>5, <1>6
  <2> QED
    BY <1>2, <1>3, <2>1
<1>7. CASE R # {}
  <2>1. PICK a \in R : \A b \in R : b <= a
    <3>1. R \subseteq T /\ R # T /\ R \in SUBSET S
      BY <1>2, <1>3, <1>4
    <3>2. R \notin Bad
      BY <1>1, <3>1
    <3> QED
      BY <1>7, <3>1, <3>2
  <2>2. a \in Nat /\ a \in T
    BY <1>4, <1>5, <2>1
  <2>3. CASE x <= a
    <3>1. \A b \in T : b <= a
      BY <1>4, <2>1, <2>3
    <3> QED
      BY <1>2, <2>2, <3>1
  <2>4. CASE ~ (x <= a)
    <3>1. \A b \in R : b <= x
      BY <1>5, <2>1, <2>2, <2>4
    <3>2. \A b \in T : b <= x
      BY <1>4, <1>5, <3>1
    <3> QED
      BY <1>2, <1>3, <3>2
  <2> QED
    BY <2>3, <2>4
<1> QED
  BY <1>6, <1>7

\* The sums over two sets without a common element add up.
LEMMA SumUnion ==
    ASSUME NEW f, NEW S, NEW T, IsFiniteSet(S), IsFiniteSet(T), S \cap T = {},
           \A x \in S \cup T : f[x] \in Nat
    PROVE  SumFunctionOnSet(f, S \cup T) = SumFunctionOnSet(f, S) + SumFunctionOnSet(f, T)
<1> DEFINE Adds(U) == SumFunctionOnSet(f, S \cup U) = SumFunctionOnSet(f, S) + SumFunctionOnSet(f, U)
           Bad == {U \in SUBSET T : ~Adds(U)}
<1> SUFFICES ASSUME Bad # {} PROVE FALSE
  BY DEF Bad
<1>1. PICK U \in Bad : \A V \in Bad : V \subseteq U => V = U
  <2>1. Bad \subseteq SUBSET T
    BY DEF Bad
  <2> HIDE DEF Bad
  <2> QED
    BY <2>1, SmallestSet
<1>2. U \subseteq T /\ ~Adds(U) /\ IsFiniteSet(U) /\ IsFiniteSet(S \cup U)
  <2>1. U \subseteq T /\ ~Adds(U)
    BY DEF Bad
  <2>2. IsFiniteSet(U)
    BY <2>1, FS_Subset
  <2> QED
    BY <2>1, <2>2, FS_Union
<1>3. SumFunctionOnSet(f, S) \in Nat
  BY SumType
<1>4. U # {}
  <2> SUFFICES ASSUME U = {} PROVE FALSE
    OBVIOUS
  <2>1. S \cup U = S /\ SumFunctionOnSet(f, U) = 0
    BY SumEmpty
  <2> QED
    BY <2>1, <1>2, <1>3
<1>5. PICK x \in U : TRUE
  BY <1>4
<1>6. PICK V : V = U \ {x}
  OBVIOUS
<1>7. V \subseteq T /\ V # U /\ V \subseteq U
  BY <1>2, <1>6
<1>8. Adds(V)
  BY <1>1, <1>7 DEF Bad
<1>9. SumFunctionOnSet(f, U) = f[x] + SumFunctionOnSet(f, V)
  BY <1>2, <1>6, SumRemove
<1>10. SumFunctionOnSet(f, S \cup U) = f[x] + SumFunctionOnSet(f, S \cup V)
  <2>1. PICK W : W = S \cup U
    OBVIOUS
  <2>2. x \in W /\ IsFiniteSet(W) /\ \A y \in W : f[y] \in Nat
    BY <1>2, <2>1
  <2>3. W \ {x} = S \cup V
    BY <1>2, <1>6, <2>1
  <2> QED
    BY <2>1, <2>2, <2>3, SumRemove
<1>11. SumFunctionOnSet(f, V) \in Nat /\ f[x] \in Nat
  <2>1. IsFiniteSet(V)
    BY <1>2, <1>7, FS_Subset
  <2> QED
    BY <1>2, <1>7, <2>1, SumType
<1> HIDE DEF Bad
<1> QED
  BY <1>2, <1>3, <1>8, <1>9, <1>10, <1>11

\* What is made up of two parts.
LEMMA SumParts ==
    ASSUME NEW f, NEW g, NEW h, NEW S, IsFiniteSet(S),
           \A x \in S : g[x] \in Nat /\ h[x] \in Nat /\ f[x] = g[x] + h[x]
    PROVE  SumFunctionOnSet(f, S) = SumFunctionOnSet(g, S) + SumFunctionOnSet(h, S)
<1> DEFINE Adds(T) == SumFunctionOnSet(f, T) = SumFunctionOnSet(g, T) + SumFunctionOnSet(h, T)
           Bad == {T \in SUBSET S : ~Adds(T)}
<1> SUFFICES ASSUME Bad # {} PROVE FALSE
  BY DEF Bad
<1>1. PICK T \in Bad : \A U \in Bad : U \subseteq T => U = T
  <2>1. Bad \subseteq SUBSET S
    BY DEF Bad
  <2> HIDE DEF Bad
  <2> QED
    BY <2>1, SmallestSet
<1>2. T \subseteq S /\ ~Adds(T) /\ IsFiniteSet(T)
  <2>1. T \subseteq S /\ ~Adds(T)
    BY DEF Bad
  <2> QED
    BY <2>1, FS_Subset
<1>3. T # {}
  <2> SUFFICES ASSUME T = {} PROVE FALSE
    OBVIOUS
  <2>1. SumFunctionOnSet(f, T) = 0 /\ SumFunctionOnSet(g, T) = 0 /\ SumFunctionOnSet(h, T) = 0
    BY SumEmpty
  <2> QED
    BY <2>1, <1>2
<1>4. PICK x \in T : TRUE
  BY <1>3
<1>5. PICK U : U = T \ {x}
  OBVIOUS
<1>6. U \subseteq S /\ U # T /\ U \subseteq T
  BY <1>2, <1>5
<1>7. Adds(U)
  BY <1>1, <1>6 DEF Bad
<1>8. \A y \in S : f[y] \in Nat
  OBVIOUS
<1>9. /\ SumFunctionOnSet(f, T) = f[x] + SumFunctionOnSet(f, U)
      /\ SumFunctionOnSet(g, T) = g[x] + SumFunctionOnSet(g, U)
      /\ SumFunctionOnSet(h, T) = h[x] + SumFunctionOnSet(h, U)
  BY <1>2, <1>5, <1>8, SumRemove
<1>10. SumFunctionOnSet(g, U) \in Nat /\ SumFunctionOnSet(h, U) \in Nat
  <2>1. IsFiniteSet(U)
    BY <1>2, <1>6, FS_Subset
  <2> QED
    BY <1>6, <2>1, SumType
<1>11. g[x] \in Nat /\ h[x] \in Nat /\ f[x] = g[x] + h[x]
  BY <1>2
<1> HIDE DEF Bad
<1> QED
  BY <1>2, <1>7, <1>9, <1>10, <1>11

\* A sum is no more than its greatest element as often as there are elements.
LEMMA SumBounded ==
    ASSUME NEW f, NEW S, IsFiniteSet(S), NEW b \in Nat, \A x \in S : f[x] \in Nat /\ f[x] <= b
    PROVE  SumFunctionOnSet(f, S) <= Cardinality(S) * b
<1> DEFINE Bounded(T) == SumFunctionOnSet(f, T) <= Cardinality(T) * b
           Bad == {T \in SUBSET S : ~Bounded(T)}
<1> SUFFICES ASSUME Bad # {} PROVE FALSE
  BY DEF Bad
<1>1. PICK T \in Bad : \A U \in Bad : U \subseteq T => U = T
  <2>1. Bad \subseteq SUBSET S
    BY DEF Bad
  <2> HIDE DEF Bad
  <2> QED
    BY <2>1, SmallestSet
<1>2. T \subseteq S /\ ~Bounded(T) /\ IsFiniteSet(T)
  <2>1. T \subseteq S /\ ~Bounded(T)
    BY DEF Bad
  <2> QED
    BY <2>1, FS_Subset
<1>3. T # {}
  <2> SUFFICES ASSUME T = {} PROVE FALSE
    OBVIOUS
  <2>1. SumFunctionOnSet(f, T) = 0 /\ Cardinality(T) = 0
    BY SumEmpty, FS_EmptySet
  <2> QED
    BY <2>1, <1>2
<1>4. PICK x \in T : TRUE
  BY <1>3
<1>5. PICK U : U = T \ {x}
  OBVIOUS
<1>6. U \subseteq S /\ U # T /\ U \subseteq T
  BY <1>2, <1>5
<1>7. Bounded(U)
  BY <1>1, <1>6 DEF Bad
<1>8. SumFunctionOnSet(f, T) = f[x] + SumFunctionOnSet(f, U)
  BY <1>2, <1>5, SumRemove
<1>9. IsFiniteSet(U) /\ Cardinality(U) = Cardinality(T) - 1
      /\ Cardinality(U) \in Nat /\ Cardinality(T) \in Nat
  BY <1>2, <1>5, FS_RemoveElement, FS_CardinalityType
<1>10. SumFunctionOnSet(f, U) \in Nat /\ f[x] \in Nat /\ f[x] <= b
  BY <1>2, <1>6, <1>9, SumType
<1>11. Cardinality(T) * b = Cardinality(U) * b + b
  <2>1. PICK n \in Nat : n = Cardinality(U) /\ Cardinality(T) = n + 1
    BY <1>9
  <2>2. (n + 1) * b = n * b + b
    OBVIOUS
  <2> QED
    BY <2>1, <2>2
<1>12. Cardinality(U) * b \in Nat
  BY <1>9
<1> HIDE DEF Bad
<1> QED
  BY <1>2, <1>7, <1>8, <1>10, <1>11, <1>12
=============================================================================

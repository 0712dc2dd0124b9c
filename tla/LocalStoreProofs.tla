-------------------------- MODULE LocalStoreProofs --------------------------
(***************************************************************************)
(* Proofs about LocalStore, for any finite or infinite set of keys, any    *)
(* sizes and any caps: the accounting of storeLocal and removeLocalLocked, *)
(* the order of eviction, and that the store implements EntryMap.          *)
(***************************************************************************)
EXTENDS LocalStore, FiniteSetTheorems, SequenceTheorems, TLAPS

-----------------------------------------------------------------------------
(* Sums.  SumFunctionOnSet is a CHOOSE over functions on the subsets of a  *)
(* set; the two lemmas of coverage stand for the inductions it takes to    *)
(* show that the function exists and what it is.                           *)

\* A set of naturals that has 0 and with each its successor has them all.
LEMMA NaturalsCovered ==
    ASSUME NEW Z, 0 \in Z, \A n \in Nat : n \in Z => n + 1 \in Z
    PROVE  Nat \subseteq Z
<1> SUFFICES ASSUME Nat \ Z # {} PROVE FALSE
  OBVIOUS
<1>1. PICK m \in Nat \ Z : \A y \in Nat \ Z : ~ (<<y, m>> \in OpToRel(<, Nat))
  BY WFMin, NatLessThanWellFounded
<1>2. \A y \in Nat \ Z : ~ (y < m)
  BY <1>1 DEF OpToRel
<1>3. m # 0 /\ m - 1 \in Nat
  OBVIOUS
<1>4. m - 1 \in Z
  BY <1>2, <1>3
<1> QED BY <1>3, <1>4

\* A set of sets that has each subset of a finite set whose proper subsets it
\* has, has them all.
LEMMA SubsetsCovered ==
    ASSUME NEW S, IsFiniteSet(S), NEW Z,
           \A T \in SUBSET S : (\A U \in SUBSET T : U # T => U \in Z) => T \in Z
    PROVE  SUBSET S \subseteq Z
<1> SUFFICES ASSUME (SUBSET S) \ Z # {} PROVE FALSE
  OBVIOUS
<1> DEFINE R == StrictSubsetOrdering(S)
           D == (SUBSET S) \ Z
<1>1. IsWellFoundedOn(R, SUBSET S)
  <2>1. IsWellFoundedOn(R, FiniteSubsetsOf(S))
    BY FS_StrictSubsetOrderingWellFounded
  <2>2. FiniteSubsetsOf(S) = SUBSET S
    BY FS_FiniteSubsetsOfFinite
  <2> HIDE DEF R
  <2> QED BY <2>1, <2>2
<1>2. PICK T \in D : \A U \in D : ~ (<<U, T>> \in R)
  <2>1. D \subseteq SUBSET S /\ D # {}
    OBVIOUS
  <2> HIDE DEF R, D
  <2> QED BY <1>1, <2>1, WFMin
<1>3. \A U \in (SUBSET S) \ Z : ~ (U \subseteq T /\ U # T)
  BY <1>2 DEF StrictSubsetOrdering
<1> QED BY <1>3

\* The element a sum takes first.
Chosen(s) == CHOOSE x \in s : TRUE
\* What SumFunctionOnSet's iteration puts at s.
Part(f, it, s) == IF s = {} THEN 0 ELSE f[Chosen(s)] + it[s \ {Chosen(s)}]
IsSum(f, it, S) == \A s \in SUBSET S : it[s] = Part(f, it, s)
Iteration(f, S) == CHOOSE it : it = [s \in SUBSET S |-> Part(f, it, s)]

\* SumFunctionOnSet is that iteration's value at the whole set.
LEMMA SumUnfolds ==
    ASSUME NEW f, NEW S
    PROVE  SumFunctionOnSet(f, S) = Iteration(f, S)[S]
BY DEF SumFunctionOnSet, FoldFunctionOnSet, MapThenFoldSet, Part, Chosen, Iteration

\* It is one of them.
LEMMA ChosenMember == ASSUME NEW s, s # {} PROVE Chosen(s) \in s
BY DEF Chosen

\* Two iterations over functions that agree on a finite set agree on its subsets.
LEMMA SumsAgree ==
    ASSUME NEW S, IsFiniteSet(S), NEW f, NEW g, NEW it, NEW jt,
           \A x \in S : f[x] = g[x], IsSum(f, it, S), IsSum(g, jt, S)
    PROVE  \A s \in SUBSET S : it[s] = jt[s]
<1> DEFINE Z == {s \in SUBSET S : it[s] = jt[s]}
<1>1. ASSUME NEW T \in SUBSET S, \A U \in SUBSET T : U # T => U \in Z
      PROVE  T \in Z
  <2>1. CASE T = {}
    BY <2>1 DEF IsSum, Part
  <2>2. CASE T # {}
    <3>1. Chosen(T) \in T
      BY <2>2, ChosenMember
    <3>2. T \ {Chosen(T)} \in Z
      BY <1>1, <3>1
    <3>3. f[Chosen(T)] = g[Chosen(T)]
      BY <3>1
    <3>4. it[T] = f[Chosen(T)] + it[T \ {Chosen(T)}] /\ jt[T] = g[Chosen(T)] + jt[T \ {Chosen(T)}]
      BY <2>2 DEF IsSum, Part
    <3> QED BY <3>2, <3>3, <3>4
  <2> QED BY <2>1, <2>2
<1> HIDE DEF Z
<1>2. SUBSET S \subseteq Z
  BY <1>1, SubsetsCovered
<1> QED BY <1>2 DEF Z

\* On a finite set there is an iteration: it is built by cardinality.
LEMMA IterationExists ==
    ASSUME NEW S, IsFiniteSet(S), NEW f
    PROVE  \E it : it = [s \in SUBSET S |-> Part(f, it, s)]
<1> DEFINE Small(n) == {s \in SUBSET S : Cardinality(s) <= n}
           Summed(n) == \E it : it = [s \in Small(n) |-> Part(f, it, s)]
           Z == {n \in Nat : Summed(n)}
<1>1. \A s \in SUBSET S : IsFiniteSet(s) /\ Cardinality(s) \in Nat
  BY FS_Subset, FS_CardinalityType
<1>2. 0 \in Z
  <2> DEFINE it == [s \in Small(0) |-> 0]
  <2>1. \A s \in Small(0) : s = {}
    BY <1>1, FS_EmptySet
  <2>2. it = [s \in Small(0) |-> Part(f, it, s)]
    BY <2>1 DEF Part
  <2> QED BY <2>2
<1>3. ASSUME NEW n \in Nat, n \in Z
      PROVE  n + 1 \in Z
  <2>1. PICK it : it = [s \in Small(n) |-> Part(f, it, s)]
    BY <1>3
  <2> DEFINE jt == [s \in Small(n + 1) |-> Part(f, it, s)]
  <2>2. ASSUME NEW s \in Small(n + 1)
        PROVE  Part(f, it, s) = Part(f, jt, s)
    <3>1. CASE s = {}
      BY <3>1 DEF Part
    <3>2. CASE s # {}
      <4> DEFINE r == s \ {Chosen(s)}
      <4>1. Chosen(s) \in s /\ r \in SUBSET S
        BY <3>2, ChosenMember
      <4>2. Cardinality(r) = Cardinality(s) - 1 /\ Cardinality(s) \in Nat /\ Cardinality(s) <= n + 1
        BY <4>1, <1>1, FS_RemoveElement
      <4>3. Cardinality(r) <= n /\ Cardinality(r) <= n + 1
        BY <4>2
      <4>4. r \in Small(n) /\ r \in Small(n + 1)
        BY <4>1, <4>3
      <4>5. it[r] = jt[r]
        BY <2>1, <4>4
      <4> QED BY <3>2, <4>5 DEF Part
    <3> QED BY <3>1, <3>2
  <2>3. jt = [s \in Small(n + 1) |-> Part(f, jt, s)]
    BY <2>2
  <2>4. Summed(n + 1)
    <3> HIDE DEF jt
    <3> QED BY <2>3
  <2> HIDE DEF Summed
  <2> QED BY <2>4
<1> HIDE DEF Z
<1>4. Cardinality(S) \in Z
  BY <1>1, <1>2, <1>3, NaturalsCovered
<1>5. Small(Cardinality(S)) = SUBSET S
  BY FS_Subset
<1> QED BY <1>4, <1>5 DEF Z

\* So the one chosen is one.
LEMMA IterationSums ==
    ASSUME NEW S, IsFiniteSet(S), NEW f
    PROVE  IsSum(f, Iteration(f, S), S)
<1>1. Iteration(f, S) = [s \in SUBSET S |-> Part(f, Iteration(f, S), s)]
  BY IterationExists DEF Iteration
<1> QED BY <1>1 DEF IsSum

\* The sum of what two functions agree on.
LEMMA SumCongruent ==
    ASSUME NEW S, IsFiniteSet(S), NEW f, NEW g, \A x \in S : f[x] = g[x]
    PROVE  SumFunctionOnSet(f, S) = SumFunctionOnSet(g, S)
<1>1. IsSum(f, Iteration(f, S), S) /\ IsSum(g, Iteration(g, S), S)
  BY IterationSums
<1>2. Iteration(f, S)[S] = Iteration(g, S)[S]
  BY <1>1, SumsAgree
<1> QED BY <1>2, SumUnfolds

\* A sum is its first element and the sum of the rest.
LEMMA SumStep ==
    ASSUME NEW S, IsFiniteSet(S), NEW f
    PROVE  SumFunctionOnSet(f, S) = IF S = {} THEN 0
                                    ELSE f[Chosen(S)] + SumFunctionOnSet(f, S \ {Chosen(S)})
<1> DEFINE r == S \ {Chosen(S)}
<1>1. IsFiniteSet(r) /\ r \in SUBSET S
  BY FS_RemoveElement
<1>2. IsSum(f, Iteration(f, S), S) /\ IsSum(f, Iteration(f, r), r)
  BY <1>1, IterationSums
<1>3. IsSum(f, Iteration(f, S), r)
  BY <1>1, <1>2 DEF IsSum
<1>4. Iteration(f, S)[r] = Iteration(f, r)[r]
  BY <1>1, <1>2, <1>3, SumsAgree
<1>5. Iteration(f, S)[S] = Part(f, Iteration(f, S), S)
  BY <1>2 DEF IsSum
<1> QED BY <1>4, <1>5, SumUnfolds DEF Part

\* Nothing sums to zero.
LEMMA SumOfNone == ASSUME NEW f PROVE SumFunctionOnSet(f, {}) = 0
BY SumStep, FS_EmptySet

\* Naturals sum to a natural.
LEMMA SumNatural ==
    ASSUME NEW S, IsFiniteSet(S), NEW f, \A x \in S : f[x] \in Nat
    PROVE  SumFunctionOnSet(f, S) \in Nat
<1> DEFINE Z == {s \in SUBSET S : SumFunctionOnSet(f, s) \in Nat}
<1>1. ASSUME NEW T \in SUBSET S, \A U \in SUBSET T : U # T => U \in Z
      PROVE  T \in Z
  <2>1. CASE T = {}
    BY <2>1, SumOfNone
  <2>2. CASE T # {}
    <3>1. Chosen(T) \in T /\ IsFiniteSet(T)
      BY <2>2, ChosenMember, FS_Subset
    <3>2. T \ {Chosen(T)} \in Z /\ f[Chosen(T)] \in Nat
      BY <1>1, <3>1
    <3>3. SumFunctionOnSet(f, T) = f[Chosen(T)] + SumFunctionOnSet(f, T \ {Chosen(T)})
      BY <2>2, <3>1, SumStep
    <3>4. SumFunctionOnSet(f, T) \in Nat
      BY <3>2, <3>3
    <3> QED BY <3>4
  <2> QED BY <2>1, <2>2
<1> HIDE DEF Z
<1>2. SUBSET S \subseteq Z
  BY <1>1, SubsetsCovered
<1> QED BY <1>2 DEF Z

\* Any element may be taken first.
LEMMA SumTakes ==
    ASSUME NEW S, IsFiniteSet(S), NEW f, \A x \in S : f[x] \in Nat, NEW e \in S
    PROVE  SumFunctionOnSet(f, S) = f[e] + SumFunctionOnSet(f, S \ {e})
<1> DEFINE Takes(s) == \A x \in s : SumFunctionOnSet(f, s) = f[x] + SumFunctionOnSet(f, s \ {x})
           Z == {s \in SUBSET S : Takes(s)}
<1>1. ASSUME NEW T \in SUBSET S, \A U \in SUBSET T : U # T => U \in Z
      PROVE  T \in Z
  <2> SUFFICES ASSUME NEW x \in T
               PROVE  SumFunctionOnSet(f, T) = f[x] + SumFunctionOnSet(f, T \ {x})
    OBVIOUS
  <2> DEFINE a == Chosen(T)
  <2>1. a \in T /\ IsFiniteSet(T) /\ IsFiniteSet(T \ {x}) /\ IsFiniteSet((T \ {a}) \ {x})
    BY ChosenMember, FS_Subset
  <2>2. SumFunctionOnSet(f, T) = f[a] + SumFunctionOnSet(f, T \ {a})
    BY <2>1, SumStep
  <2>3. CASE x = a
    BY <2>2, <2>3
  <2>4. CASE x # a
    <3>1. (T \ {a}) \in Z /\ (T \ {x}) \in Z /\ x \in T \ {a} /\ a \in T \ {x}
      BY <1>1, <2>1, <2>4
    <3>2. /\ SumFunctionOnSet(f, T \ {a}) = f[x] + SumFunctionOnSet(f, (T \ {a}) \ {x})
          /\ SumFunctionOnSet(f, T \ {x}) = f[a] + SumFunctionOnSet(f, (T \ {x}) \ {a})
      BY <3>1
    <3>3. (T \ {x}) \ {a} = (T \ {a}) \ {x}
      OBVIOUS
    <3>4. f[x] \in Nat /\ f[a] \in Nat /\ SumFunctionOnSet(f, (T \ {a}) \ {x}) \in Nat
      BY <2>1, SumNatural
    <3> HIDE DEF Z, a
    <3> QED BY <2>2, <3>2, <3>3, <3>4
  <2> QED BY <2>3, <2>4
<1> HIDE DEF Z
<1>2. SUBSET S \subseteq Z
  BY <1>1, SubsetsCovered
<1>3. Takes(S)
  BY <1>2 DEF Z
<1> QED BY <1>3

\* A non-empty set of naturals has a least element.
LEMMA LeastNatural ==
    ASSUME NEW N \in SUBSET Nat, N # {}
    PROVE  \E m \in N : \A y \in N : m <= y
<1>1. PICK m \in N : \A y \in N : ~ (<<y, m>> \in OpToRel(<, Nat))
  BY WFMin, NatLessThanWellFounded
<1>2. \A y \in N : ~ (y < m)
  BY <1>1 DEF OpToRel
<1> QED BY <1>2

\* A part is summed first.
LEMMA SumSplits ==
    ASSUME NEW S, IsFiniteSet(S), NEW f, \A x \in S : f[x] \in Nat, NEW P \in SUBSET S
    PROVE  SumFunctionOnSet(f, S) = SumFunctionOnSet(f, P) + SumFunctionOnSet(f, S \ P)
<1> DEFINE Splits(T) ==
               SumFunctionOnSet(f, S) = SumFunctionOnSet(f, T) + SumFunctionOnSet(f, S \ T)
           Z == {T \in SUBSET S : Splits(T)}
<1>1. ASSUME NEW T \in SUBSET S, \A U \in SUBSET T : U # T => U \in Z
      PROVE  T \in Z
  <2>1. CASE T = {}
    <3>1. SumFunctionOnSet(f, T) = 0 /\ S \ T = S /\ SumFunctionOnSet(f, S) \in Nat
      BY <2>1, SumOfNone, SumNatural
    <3> QED BY <3>1
  <2>2. CASE T # {}
    <3>1. PICK a \in T : TRUE
      BY <2>2
    <3> DEFINE r == T \ {a}
    <3>2. r \in Z
      BY <1>1, <3>1
    <3>3. IsFiniteSet(T) /\ IsFiniteSet(S \ r) /\ IsFiniteSet(S \ T)
      BY FS_Subset
    <3>4. SumFunctionOnSet(f, T) = f[a] + SumFunctionOnSet(f, r)
      BY <3>3, SumTakes
    <3>5. SumFunctionOnSet(f, S \ r) = f[a] + SumFunctionOnSet(f, S \ T)
      <4>1. (S \ r) \ {a} = S \ T /\ a \in S \ r
        OBVIOUS
      <4> HIDE DEF r
      <4>2. SumFunctionOnSet(f, S \ r) = f[a] + SumFunctionOnSet(f, (S \ r) \ {a})
        BY <3>3, <4>1, SumTakes
      <4> QED BY <4>1, <4>2
    <3>6. SumFunctionOnSet(f, S) = SumFunctionOnSet(f, r) + SumFunctionOnSet(f, S \ r)
      BY <3>2
    <3>7. SumFunctionOnSet(f, r) \in Nat /\ SumFunctionOnSet(f, S \ T) \in Nat /\ f[a] \in Nat
      <4>1. IsFiniteSet(r)
        BY <3>3, FS_RemoveElement
      <4> QED BY <3>3, <4>1, SumNatural
    <3>8. Splits(T)
      <4> HIDE DEF r, Z
      <4> QED BY <3>4, <3>5, <3>6, <3>7
    <3> QED BY <3>8
  <2> QED BY <2>1, <2>2
<1> HIDE DEF Z
<1>2. SUBSET S \subseteq Z
  BY <1>1, SubsetsCovered
<1>3. Splits(P)
  BY <1>2 DEF Z
<1> QED BY <1>3

-----------------------------------------------------------------------------
(* The orders *)

\* The elements of a sequence, its first n, that none repeats, and what comes
\* before what.
Elements(s) == {s[i] : i \in 1 .. Len(s)}
First(s, n) == {s[i] : i \in 1 .. n}
Distinct(s) == \A i, j \in 1 .. Len(s) : s[i] = s[j] => i = j
Before(s, a, b) == \E i, j \in 1 .. Len(s) : i < j /\ s[i] = a /\ s[j] = b

\* What RemoveFirst leaves.
LEMMA WithoutShape ==
    ASSUME NEW s \in Seq(Keys), NEW k
    PROVE  \/ k \notin Elements(s) /\ Without(s, k) = s
           \/ \E p \in 1 .. Len(s) :
                 /\ s[p] = k /\ Without(s, k) \in Seq(Keys)
                 /\ Len(Without(s, k)) = Len(s) - 1
                 /\ \A i \in 1 .. Len(s) - 1 :
                       Without(s, k)[i] = IF i < p THEN s[i] ELSE s[i + 1]
<1>1. CASE ~ \E i \in 1 .. Len(s) : s[i] = k
  BY <1>1 DEF Without, RemoveFirst, Elements
<1>2. CASE \E i \in 1 .. Len(s) : s[i] = k
  <2> DEFINE I == {i \in 1 .. Len(s) : s[i] = k}
             p == Min(I)
             left == SubSeq(s, 1, p - 1)
             right == SubSeq(s, p + 1, Len(s))
  <2>1. Len(s) \in Nat
    OBVIOUS
  <2>2. p \in I
    <3>1. \E m \in I : \A y \in I : m <= y
      <4>1. I \in SUBSET Nat /\ I # {}
        BY <1>2, <2>1
      <4> HIDE DEF I
      <4> QED BY <4>1, LeastNatural
    <3> QED BY <3>1 DEF Min
  <2>3. Without(s, k) = left \o right
    BY <1>2 DEF Without, RemoveFirst, RemoveAt, SelectInSeq
  <2>4. p \in 1 .. Len(s) /\ s[p] = k
    BY <2>2
  <2> HIDE DEF p, I
  <2>5. /\ left \in Seq(Keys) /\ Len(left) = p - 1
        /\ \A i \in 1 .. p - 1 : left[i] = s[i]
    <3>1. \A i \in 1 .. p - 1 : s[i] \in Keys
      BY <2>1, <2>4, ElementOfSeq
    <3> QED BY <2>1, <2>4, <3>1, SubSeqProperties
  <2>6. /\ right \in Seq(Keys) /\ Len(right) = Len(s) - p
        /\ \A i \in 1 .. Len(s) - p : right[i] = s[p + i]
    <3>1. \A i \in p + 1 .. Len(s) : s[i] \in Keys
      BY <2>1, <2>4, ElementOfSeq
    <3>2. /\ right \in Seq(Keys)
          /\ Len(right) = IF p + 1 <= Len(s) THEN Len(s) - (p + 1) + 1 ELSE 0
          /\ \A i \in 1 .. Len(s) - (p + 1) + 1 : right[i] = s[p + 1 + i - 1]
      BY <2>1, <2>4, <3>1, SubSeqProperties
    <3>3. Len(right) = Len(s) - p
      BY <2>1, <2>4, <3>2
    <3>4. ASSUME NEW i \in 1 .. Len(s) - p PROVE right[i] = s[p + i]
      <4>1. i \in 1 .. Len(s) - (p + 1) + 1 /\ p + 1 + i - 1 = p + i
        BY <2>1, <2>4
      <4> QED BY <3>2, <4>1
    <3> QED BY <3>2, <3>3, <3>4
  <2> HIDE DEF left, right
  <2>7. /\ left \o right \in Seq(Keys) /\ Len(left \o right) = Len(s) - 1
        /\ \A i \in 1 .. Len(s) - 1 :
              (left \o right)[i] = IF i <= p - 1 THEN left[i] ELSE right[i - (p - 1)]
    <3>1. /\ left \o right \in Seq(Keys) /\ Len(left \o right) = Len(left) + Len(right)
          /\ \A i \in 1 .. Len(left) + Len(right) :
                (left \o right)[i] = IF i <= Len(left) THEN left[i] ELSE right[i - Len(left)]
      BY <2>5, <2>6, ConcatProperties
    <3>2. Len(left) + Len(right) = Len(s) - 1
      BY <2>1, <2>4, <2>5, <2>6
    <3> QED BY <2>5, <3>1, <3>2
  <2>8. ASSUME NEW i \in 1 .. Len(s) - 1
        PROVE  (left \o right)[i] = IF i < p THEN s[i] ELSE s[i + 1]
    <3>1. CASE i < p
      <4>1. i <= p - 1 /\ i \in 1 .. p - 1
        BY <2>4, <3>1
      <4> QED BY <2>5, <2>7, <3>1, <4>1
    <3>2. CASE ~ (i < p)
      <4>1. ~ (i <= p - 1) /\ i - (p - 1) \in 1 .. Len(s) - p /\ p + (i - (p - 1)) = i + 1
        BY <2>1, <2>4, <3>2
      <4> QED BY <2>6, <2>7, <3>2, <4>1
    <3> QED BY <3>1, <3>2
  <2> QED BY <2>3, <2>4, <2>7, <2>8
<1> QED BY <1>1, <1>2

\* An order without a key lists the others, as before.
LEMMA WithoutKeeps ==
    ASSUME NEW s \in Seq(Keys), Distinct(s), NEW k
    PROVE  /\ Without(s, k) \in Seq(Keys) /\ Distinct(Without(s, k))
           /\ Elements(Without(s, k)) = Elements(s) \ {k}
           /\ \A a, b \in Keys \ {k} : Before(s, a, b) => Before(Without(s, k), a, b)
<1> DEFINE w == Without(s, k)
<1>1. CASE k \notin Elements(s) /\ w = s
  BY <1>1
<1>2. ASSUME NEW p \in 1 .. Len(s), s[p] = k, w \in Seq(Keys), Len(w) = Len(s) - 1,
             \A i \in 1 .. Len(s) - 1 : w[i] = IF i < p THEN s[i] ELSE s[i + 1]
      PROVE  /\ w \in Seq(Keys) /\ Distinct(w) /\ Elements(w) = Elements(s) \ {k}
             /\ \A a, b \in Keys \ {k} : Before(s, a, b) => Before(w, a, b)
  <2> HIDE DEF w
  <2> DEFINE At(i) == IF i < p THEN i ELSE i + 1
             From(j) == IF j < p THEN j ELSE j - 1
  <2>1. Len(s) \in Nat
    OBVIOUS
  <2>2. \A i \in 1 .. Len(w) : At(i) \in 1 .. Len(s) /\ At(i) # p /\ w[i] = s[At(i)]
    BY <1>2, <2>1
  <2>3. \A i, j \in 1 .. Len(w) : At(i) = At(j) => i = j
    BY <1>2, <2>1
  <2>4. \A j \in 1 .. Len(s) : j # p => From(j) \in 1 .. Len(w) /\ At(From(j)) = j
    BY <1>2, <2>1
  <2>5. \A i, j \in 1 .. Len(s) : i < j /\ i # p /\ j # p => From(i) < From(j)
    BY <1>2, <2>1
  <2> HIDE DEF At, From
  <2>6. Distinct(w)
    BY <2>2, <2>3 DEF Distinct
  <2>7. Elements(w) = Elements(s) \ {k}
    <3>1. ASSUME NEW i \in 1 .. Len(w) PROVE w[i] \in Elements(s) \ {k}
      BY <1>2, <2>2 DEF Elements, Distinct
    <3>2. ASSUME NEW j \in 1 .. Len(s), s[j] # k PROVE s[j] \in Elements(w)
      <4>1. From(j) \in 1 .. Len(w) /\ At(From(j)) = j
        BY <1>2, <2>4, <3>2
      <4>2. w[From(j)] = s[j]
        BY <2>2, <4>1
      <4> QED BY <4>1, <4>2 DEF Elements
    <3> QED BY <3>1, <3>2 DEF Elements
  <2>8. ASSUME NEW a \in Keys \ {k}, NEW b \in Keys \ {k}, Before(s, a, b)
        PROVE  Before(w, a, b)
    <3>1. PICK i \in 1 .. Len(s), j \in 1 .. Len(s) : i < j /\ s[i] = a /\ s[j] = b
      BY <2>8 DEF Before
    <3>2. i # p /\ j # p
      BY <1>2, <3>1
    <3>3. From(i) \in 1 .. Len(w) /\ From(j) \in 1 .. Len(w) /\ From(i) < From(j)
      BY <2>4, <2>5, <3>1, <3>2
    <3>4. w[From(i)] = a /\ w[From(j)] = b
      BY <2>2, <2>4, <3>1, <3>2, <3>3
    <3> QED BY <3>3, <3>4 DEF Before
  <2> QED BY <1>2, <2>6, <2>7, <2>8
<1> HIDE DEF w
<1>3. \/ k \notin Elements(s) /\ w = s
      \/ \E p \in 1 .. Len(s) :
            /\ s[p] = k /\ w \in Seq(Keys) /\ Len(w) = Len(s) - 1
            /\ \A i \in 1 .. Len(s) - 1 : w[i] = IF i < p THEN s[i] ELSE s[i + 1]
  BY WithoutShape DEF w
<1>4. /\ w \in Seq(Keys) /\ Distinct(w) /\ Elements(w) = Elements(s) \ {k}
      /\ \A a, b \in Keys \ {k} : Before(s, a, b) => Before(w, a, b)
  <2>1. CASE k \notin Elements(s) /\ w = s
    BY <2>1
  <2>2. CASE \E p \in 1 .. Len(s) :
            /\ s[p] = k /\ w \in Seq(Keys) /\ Len(w) = Len(s) - 1
            /\ \A i \in 1 .. Len(s) - 1 : w[i] = IF i < p THEN s[i] ELSE s[i + 1]
    BY <1>2, <2>2
  <2> QED BY <1>3, <2>1, <2>2
<1> QED BY <1>4 DEF w

\* A new key goes to the end.
LEMMA AppendKeeps ==
    ASSUME NEW s \in Seq(Keys), Distinct(s), NEW k \in Keys, k \notin Elements(s)
    PROVE  /\ Append(s, k) \in Seq(Keys) /\ Distinct(Append(s, k))
           /\ Elements(Append(s, k)) = Elements(s) \cup {k}
           /\ Len(Append(s, k)) = Len(s) + 1 /\ Append(s, k)[Len(s) + 1] = k
           /\ \A a, b \in Keys : Before(s, a, b) => Before(Append(s, k), a, b)
<1> DEFINE t == Append(s, k)
<1>1. /\ t \in Seq(Keys) /\ Len(t) = Len(s) + 1 /\ Len(s) \in Nat
      /\ \A i \in 1 .. Len(s) : t[i] = s[i]
      /\ t[Len(s) + 1] = k
  BY AppendProperties
<1> HIDE DEF t
<1>2. \A i \in 1 .. Len(t) : i \in 1 .. Len(s) \/ i = Len(s) + 1
  BY <1>1
<1>3. \A i \in 1 .. Len(s) : i \in 1 .. Len(t) /\ i # Len(s) + 1
  BY <1>1
<1>4. Len(s) + 1 \in 1 .. Len(t)
  BY <1>1
<1>5. Distinct(t)
  BY <1>1, <1>2 DEF Distinct, Elements
<1>6. Elements(t) = Elements(s) \cup {k}
  BY <1>1, <1>2, <1>3, <1>4 DEF Elements
<1>7. \A a, b \in Keys : Before(s, a, b) => Before(t, a, b)
  BY <1>1, <1>3 DEF Before
<1> QED BY <1>1, <1>5, <1>6, <1>7 DEF t

\* The first n keys of an order, and the rest.
LEMMA FirstAndRest ==
    ASSUME NEW s \in Seq(Keys), Distinct(s), NEW n \in 0 .. Len(s)
    PROVE  /\ SubSeq(s, n + 1, Len(s)) \in Seq(Keys)
           /\ Distinct(SubSeq(s, n + 1, Len(s)))
           /\ Len(SubSeq(s, n + 1, Len(s))) = Len(s) - n
           /\ Elements(SubSeq(s, n + 1, Len(s))) = Elements(s) \ First(s, n)
           /\ First(s, n) \subseteq Elements(s)
           /\ IsFiniteSet(First(s, n)) /\ Cardinality(First(s, n)) = n
<1> DEFINE r == SubSeq(s, n + 1, Len(s))
<1>1. Len(s) \in Nat /\ n \in Nat /\ n <= Len(s)
  OBVIOUS
<1>2. /\ r \in Seq(Keys) /\ Len(r) = Len(s) - n
      /\ \A i \in 1 .. Len(s) - n : r[i] = s[n + i]
  <2>1. \A i \in n + 1 .. Len(s) : s[i] \in Keys
    BY <1>1, ElementOfSeq
  <2>2. /\ r \in Seq(Keys)
        /\ Len(r) = IF n + 1 <= Len(s) THEN Len(s) - (n + 1) + 1 ELSE 0
        /\ \A i \in 1 .. Len(s) - (n + 1) + 1 : r[i] = s[n + 1 + i - 1]
    BY <1>1, <2>1, SubSeqProperties
  <2>3. Len(r) = Len(s) - n
    BY <1>1, <2>2
  <2>4. ASSUME NEW i \in 1 .. Len(s) - n PROVE r[i] = s[n + i]
    <3>1. i \in 1 .. Len(s) - (n + 1) + 1 /\ n + 1 + i - 1 = n + i
      BY <1>1
    <3> QED BY <2>2, <3>1
  <2> QED BY <2>2, <2>3, <2>4
<1> HIDE DEF r
<1>3. \A i \in 1 .. Len(r) : n + i \in 1 .. Len(s) /\ ~ (n + i \in 1 .. n)
  BY <1>1, <1>2
<1>4. \A j \in 1 .. Len(s) : j \in 1 .. n \/ (j - n \in 1 .. Len(r) /\ n + (j - n) = j)
  BY <1>1, <1>2
<1>5. \A i, j \in 1 .. Len(r) : n + i = n + j => i = j
  BY <1>1, <1>2
<1>6. \A i \in 1 .. n : i \in 1 .. Len(s)
  BY <1>1
<1>7. Distinct(r)
  BY <1>2, <1>3, <1>5 DEF Distinct
<1>8. Elements(r) = Elements(s) \ First(s, n)
  <2>1. ASSUME NEW i \in 1 .. Len(r) PROVE r[i] \in Elements(s) \ First(s, n)
    BY <1>2, <1>3, <1>6 DEF Elements, First, Distinct
  <2>2. ASSUME NEW j \in 1 .. Len(s), s[j] \notin First(s, n) PROVE s[j] \in Elements(r)
    <3>1. ~ (j \in 1 .. n)
      BY <2>2 DEF First
    <3>2. j - n \in 1 .. Len(r) /\ r[j - n] = s[j]
      BY <1>2, <1>4, <3>1
    <3> QED BY <3>2 DEF Elements
  <2> QED BY <2>1, <2>2 DEF Elements
<1>9. First(s, n) \subseteq Elements(s)
  BY <1>6 DEF First, Elements
<1>10. IsFiniteSet(First(s, n)) /\ Cardinality(First(s, n)) = n
  <2> DEFINE h == [i \in 1 .. n |-> s[i]]
  <2>1. h \in Bijection(1 .. n, First(s, n))
    BY <1>6 DEF Bijection, Injection, Surjection, IsInjective, First, Distinct
  <2>2. IsFiniteSet(1 .. n) /\ Cardinality(1 .. n) = n
    BY <1>1, FS_Interval
  <2>3. ExistsBijection(1 .. n, First(s, n))
    BY <2>1 DEF ExistsBijection
  <2> QED BY <2>2, <2>3, FS_Bijection
<1> QED BY <1>2, <1>7, <1>8, <1>9, <1>10 DEF r

-----------------------------------------------------------------------------
(* A map and the order of its keys *)

\* `ord` lists the keys of `m`, each once.
Listed(m, ord) == ord \in Seq(Keys) /\ Distinct(ord) /\ Elements(ord) = Stored(m)

\* What an order lists is finite and has its length.
LEMMA ListedFinite ==
    ASSUME NEW m, NEW ord, Listed(m, ord)
    PROVE  IsFiniteSet(Stored(m)) /\ Cardinality(Stored(m)) = Len(ord) /\ Len(ord) \in Nat
<1>1. Len(ord) \in Nat /\ Len(ord) \in 0 .. Len(ord)
  BY DEF Listed
<1>2. First(ord, Len(ord)) = Stored(m)
  BY DEF Listed, First, Elements
<1> QED BY <1>1, <1>2, FirstAndRest DEF Listed

\* Enumerates, in these terms.
LEMMA EnumeratesIsListed ==
    ASSUME NEW m, NEW ord \in Seq(Keys)
    PROVE  Enumerates(ord, m) <=> Listed(m, ord)
<1>1. DOMAIN ord = 1 .. Len(ord)
  OBVIOUS
<1> QED BY <1>1 DEF Enumerates, Listed, Distinct, Elements

\* A key is taken out.
LEMMA TakenOut ==
    ASSUME NEW items, NEW m \in [Keys -> EntryType(items)], NEW ord, Listed(m, ord), NEW k \in Keys
    PROVE  /\ [m EXCEPT ![k] = None] \in [Keys -> EntryType(items)]
           /\ Listed([m EXCEPT ![k] = None], Without(ord, k))
           /\ Stored([m EXCEPT ![k] = None]) = Stored(m) \ {k}
<1>1. Stored([m EXCEPT ![k] = None]) = Stored(m) \ {k}
  BY DEF Stored
<1>2. /\ Without(ord, k) \in Seq(Keys) /\ Distinct(Without(ord, k))
      /\ Elements(Without(ord, k)) = Elements(ord) \ {k}
  BY WithoutKeeps DEF Listed
<1> QED BY <1>1, <1>2 DEF Listed, EntryType

\* A key is stored, at the end.
LEMMA PutIn ==
    ASSUME NEW items, NEW m \in [Keys -> EntryType(items)], NEW ord, Listed(m, ord), NEW k \in Keys,
           NEW x \in items, Entry(x) # None
    PROVE  /\ [m EXCEPT ![k] = Entry(x)] \in [Keys -> EntryType(items)]
           /\ Listed([m EXCEPT ![k] = Entry(x)], Append(Without(ord, k), k))
           /\ Stored([m EXCEPT ![k] = Entry(x)]) = Stored(m) \cup {k}
           /\ Len(Append(Without(ord, k), k)) = Cardinality(Stored(m) \ {k}) + 1
           /\ Len(Append(Without(ord, k), k)) \in Nat
           /\ Append(Without(ord, k), k)[Len(Append(Without(ord, k), k))] = k
           /\ \A a, b \in Keys \ {k} :
                 Before(ord, a, b) => Before(Append(Without(ord, k), k), a, b)
<1> DEFINE w == Without(ord, k)
           t == Append(w, k)
           put == [m EXCEPT ![k] = Entry(x)]
<1>1. Stored(put) = Stored(m) \cup {k}
  BY DEF Stored
<1>2. put \in [Keys -> EntryType(items)]
  BY DEF EntryType, Entry
<1>3. /\ w \in Seq(Keys) /\ Distinct(w) /\ Elements(w) = Stored(m) \ {k}
      /\ \A a, b \in Keys \ {k} : Before(ord, a, b) => Before(w, a, b)
  BY WithoutKeeps DEF Listed
<1> HIDE DEF w
<1>4. /\ t \in Seq(Keys) /\ Distinct(t) /\ Elements(t) = Elements(w) \cup {k}
      /\ Len(t) = Len(w) + 1 /\ t[Len(w) + 1] = k
      /\ \A a, b \in Keys : Before(w, a, b) => Before(t, a, b)
  BY <1>3, AppendKeeps
<1>5. Len(w) = Cardinality(Stored(m) \ {k}) /\ Len(w) \in Nat
  <2>1. Len(w) \in Nat /\ Len(w) \in 0 .. Len(w)
    BY <1>3
  <2>2. First(w, Len(w)) = Stored(m) \ {k}
    BY <1>3 DEF First, Elements
  <2>3. Cardinality(First(w, Len(w))) = Len(w)
    BY <1>3, <2>1, FirstAndRest
  <2> QED BY <2>1, <2>2, <2>3
<1>6. Listed(put, t)
  BY <1>1, <1>3, <1>4 DEF Listed
<1> HIDE DEF t, put
<1>7. /\ put \in [Keys -> EntryType(items)] /\ Listed(put, t)
      /\ Stored(put) = Stored(m) \cup {k}
      /\ Len(t) = Cardinality(Stored(m) \ {k}) + 1 /\ Len(t) \in Nat
      /\ t[Len(t)] = k
      /\ \A a, b \in Keys \ {k} : Before(ord, a, b) => Before(t, a, b)
  BY <1>1, <1>2, <1>3, <1>4, <1>5, <1>6
<1> QED BY <1>7 DEF t, put, w

\* The first n keys go.
Dropped(m, ord, n) == [o \in Keys |-> IF o \in First(ord, n) THEN None ELSE m[o]]

\* What is left is listed by the rest of the order.
LEMMA FirstOut ==
    ASSUME NEW items, NEW m \in [Keys -> EntryType(items)], NEW ord, Listed(m, ord),
           NEW n \in 0 .. Len(ord)
    PROVE  /\ Dropped(m, ord, n) \in [Keys -> EntryType(items)]
           /\ Listed(Dropped(m, ord, n), SubSeq(ord, n + 1, Len(ord)))
           /\ Stored(Dropped(m, ord, n)) = Stored(m) \ First(ord, n)
           /\ Cardinality(Stored(Dropped(m, ord, n))) = Cardinality(Stored(m)) - n
           /\ First(ord, n) \in SUBSET Stored(m)
<1> DEFINE d == Dropped(m, ord, n)
           r == SubSeq(ord, n + 1, Len(ord))
<1>1. /\ r \in Seq(Keys) /\ Distinct(r) /\ Len(r) = Len(ord) - n
      /\ Elements(r) = Elements(ord) \ First(ord, n)
      /\ First(ord, n) \subseteq Elements(ord)
  BY FirstAndRest DEF Listed
<1>2. Stored(d) = Stored(m) \ First(ord, n)
  BY DEF Stored, Dropped
<1>3. d \in [Keys -> EntryType(items)]
  BY DEF Dropped, EntryType
<1> HIDE DEF d, r
<1>4. Listed(d, r)
  BY <1>1, <1>2 DEF Listed
<1>5. Cardinality(Stored(d)) = Cardinality(Stored(m)) - n
  BY <1>1, <1>4, ListedFinite
<1> QED BY <1>1, <1>2, <1>3, <1>4, <1>5 DEF d, r, Listed

-----------------------------------------------------------------------------
(* The bytes *)

\* The size of what a map of values holds.
Weights(m) == [k \in Stored(m) |-> m[k].item]
Weight(m) == SumFunctionOnSet(Weights(m), Stored(m))
Values == [Keys -> EntryType(Sizes)]

\* A value has a size.
LEMMA SizesPositive == \A size \in Sizes : size \in Nat /\ size > 0
<1>1. Sizes \subseteq Nat \ {0}
  BY BoundsAssumption
<1> QED BY <1>1

\* So has what a map of values holds.
LEMMA WeightsNatural ==
    ASSUME NEW m \in Values, NEW k \in Stored(m)
    PROVE  m[k].item \in Nat /\ m[k].item > 0 /\ Weights(m)[k] = m[k].item
<1>1. m[k] \in [item : Sizes, live : BOOLEAN]
  BY DEF Values, EntryType, Stored
<1>2. m[k].item \in Sizes
  BY <1>1
<1>3. m[k].item \in Nat /\ m[k].item > 0
  BY <1>2, SizesPositive
<1> QED BY <1>3 DEF Weights

\* And their sum is a size.
LEMMA WeightNatural ==
    ASSUME NEW m \in Values, IsFiniteSet(Stored(m))
    PROVE  Weight(m) \in Nat
<1>1. \A k \in Stored(m) : Weights(m)[k] \in Nat
  BY WeightsNatural
<1> QED BY <1>1, SumNatural DEF Weight

\* Of the values that are left, the sizes are.
LEMMA WeightOfRest ==
    ASSUME NEW m \in Values, NEW d \in Values, IsFiniteSet(Stored(m)), NEW P \in SUBSET Stored(m),
           Stored(d) = Stored(m) \ P, \A k \in Stored(d) : d[k] = m[k]
    PROVE  Weight(d) = Weight(m) - SumFunctionOnSet(Weights(m), P)
           /\ SumFunctionOnSet(Weights(m), P) \in Nat
<1>1. \A k \in Stored(m) : Weights(m)[k] \in Nat
  BY WeightsNatural
<1>2. IsFiniteSet(P) /\ IsFiniteSet(Stored(d))
  BY FS_Subset
<1>3. Weight(m) = SumFunctionOnSet(Weights(m), P) + SumFunctionOnSet(Weights(m), Stored(d))
  BY <1>1, SumSplits DEF Weight
<1>4. \A k \in Stored(d) : Weights(m)[k] = Weights(d)[k]
  BY DEF Weights
<1>5. SumFunctionOnSet(Weights(m), Stored(d)) = Weight(d)
  BY <1>2, <1>4, SumCongruent DEF Weight
<1>6. SumFunctionOnSet(Weights(m), P) \in Nat /\ Weight(d) \in Nat
  BY <1>1, <1>2, SumNatural, WeightNatural
<1> QED BY <1>3, <1>5, <1>6

\* The sum over one element.
LEMMA SumOfOne ==
    ASSUME NEW f, NEW e, f[e] \in Nat
    PROVE  SumFunctionOnSet(f, {e}) = f[e]
<1>1. IsFiniteSet({e}) /\ {e} \ {e} = {}
  BY FS_Singleton
<1>2. SumFunctionOnSet(f, {e}) = f[e] + SumFunctionOnSet(f, {e} \ {e})
  BY <1>1, SumTakes
<1> QED BY <1>1, <1>2, SumOfNone

\* removeLocalLocked: the floor at zero never acts.
LEMMA WeightWithout ==
    ASSUME NEW m \in Values, IsFiniteSet(Stored(m)), NEW k \in Keys
    PROVE  Weight([m EXCEPT ![k] = None]) =
               Weight(m) - (IF m[k] = None THEN 0 ELSE m[k].item)
<1> DEFINE d == [m EXCEPT ![k] = None]
<1>0. d \in Values /\ Stored(d) = Stored(m) \ {k} /\ \A o \in Stored(d) : d[o] = m[o]
  BY DEF Values, EntryType, Stored
<1>1. CASE m[k] = None
  <2>1. d = m
    BY <1>1 DEF Values
  <2> QED BY <1>1, <2>1, WeightNatural
<1>2. CASE m[k] # None
  <2>1. k \in Stored(m)
    BY <1>2 DEF Stored
  <2> HIDE DEF d
  <2>2. Weight(d) = Weight(m) - SumFunctionOnSet(Weights(m), {k})
    BY <1>0, <2>1, WeightOfRest
  <2>3. SumFunctionOnSet(Weights(m), {k}) = m[k].item
    BY <2>1, WeightsNatural, SumOfOne
  <2> QED BY <1>2, <2>2, <2>3 DEF d
<1> QED BY <1>1, <1>2

\* A value weighs what its key weighed less, and its own size.
LEMMA WeightPut ==
    ASSUME NEW m \in Values, IsFiniteSet(Stored(m)), NEW k \in Keys, NEW size \in Sizes,
           Entry(size) # None
    PROVE  Weight([m EXCEPT ![k] = Entry(size)]) = Weight([m EXCEPT ![k] = None]) + size
<1> DEFINE put == [m EXCEPT ![k] = Entry(size)]
           out == [m EXCEPT ![k] = None]
<1>1. /\ put \in Values /\ Stored(put) = Stored(m) \cup {k} /\ put[k] # None /\ put[k].item = size
      /\ [put EXCEPT ![k] = None] = out
  BY DEF Values, EntryType, Stored, Entry
<1>2. IsFiniteSet(Stored(put))
  BY <1>1, FS_AddElement
<1> HIDE DEF put
<1>3. Weight(out) = Weight(put) - size
  BY <1>1, <1>2, WeightWithout
<1>4. Weight(put) \in Nat /\ size \in Nat
  BY <1>1, <1>2, WeightNatural, BoundsAssumption
<1> HIDE DEF out
<1>5. Weight(put) = Weight(out) + size
  BY <1>3, <1>4
<1> QED BY <1>5 DEF put, out

\* The bytes dropped from the front are those of the first keys.
LEMMA DroppedIsSum ==
    ASSUME NEW m \in Values, NEW ord, Listed(m, ord), NEW n \in 0 .. Len(ord)
    PROVE  DroppedBytes(m, ord, n) = SumFunctionOnSet(Weights(m), First(ord, n))
<1> DEFINE At(i) == [j \in 1 .. i |-> m[ord[j]].item]
           Sums(i) == SumFunctionOnSet(At(i), 1 .. i) = SumFunctionOnSet(Weights(m), First(ord, i))
           Z == {i \in Nat : i <= Len(ord) => Sums(i)}
<1>1. Len(ord) \in Nat /\ ord \in Seq(Keys) /\ Distinct(ord) /\ Elements(ord) = Stored(m)
  BY DEF Listed
<1>2. \A i \in 1 .. Len(ord) : ord[i] \in Stored(m) /\ m[ord[i]].item \in Nat
                               /\ Weights(m)[ord[i]] = m[ord[i]].item
  BY <1>1, WeightsNatural DEF Elements
<1>3. 0 \in Z
  <2>1. 1 .. 0 = {} /\ First(ord, 0) = {}
    BY DEF First
  <2>2. SumFunctionOnSet(At(0), 1 .. 0) = 0 /\ SumFunctionOnSet(Weights(m), First(ord, 0)) = 0
    BY <2>1, SumOfNone
  <2> QED BY <2>2
<1>4. ASSUME NEW i \in Nat, i \in Z
      PROVE  i + 1 \in Z
  <2> SUFFICES ASSUME i + 1 <= Len(ord) PROVE Sums(i + 1)
    OBVIOUS
  <2>1. i \in 0 .. Len(ord) /\ i + 1 \in 0 .. Len(ord) /\ i + 1 \in 1 .. Len(ord) /\ Sums(i)
    BY <1>1, <1>4
  <2>2. IsFiniteSet(1 .. i) /\ IsFiniteSet(1 .. i + 1)
    BY FS_Interval
  <2>3. \A j \in 1 .. i + 1 : j \in 1 .. Len(ord) /\ At(i + 1)[j] = m[ord[j]].item
    BY <1>1, <2>1
  <2>4. (1 .. i + 1) \ {i + 1} = 1 .. i /\ i + 1 \in 1 .. i + 1
    OBVIOUS
  <2>5. SumFunctionOnSet(At(i + 1), 1 .. i + 1)
            = At(i + 1)[i + 1] + SumFunctionOnSet(At(i + 1), 1 .. i)
    <3>1. \A j \in 1 .. i + 1 : At(i + 1)[j] \in Nat
      BY <1>2, <2>3
    <3> HIDE DEF At
    <3>2. SumFunctionOnSet(At(i + 1), 1 .. i + 1)
              = At(i + 1)[i + 1] + SumFunctionOnSet(At(i + 1), (1 .. i + 1) \ {i + 1})
      BY <2>2, <2>4, <3>1, SumTakes
    <3> QED BY <2>4, <3>2
  <2>6. SumFunctionOnSet(At(i + 1), 1 .. i) = SumFunctionOnSet(At(i), 1 .. i)
    <3>1. \A j \in 1 .. i : At(i + 1)[j] = At(i)[j]
      OBVIOUS
    <3> HIDE DEF At
    <3> QED BY <2>2, <3>1, SumCongruent
  <2>7. /\ IsFiniteSet(First(ord, i + 1)) /\ First(ord, i + 1) \subseteq Stored(m)
        /\ ord[i + 1] \in First(ord, i + 1)
        /\ First(ord, i + 1) \ {ord[i + 1]} = First(ord, i)
    <3>1. IsFiniteSet(First(ord, i + 1)) /\ First(ord, i + 1) \subseteq Stored(m)
      BY <1>1, <2>1, FirstAndRest
    <3>2. ord[i + 1] \in First(ord, i + 1)
      BY <2>4 DEF First
    <3>3. \A j \in 1 .. i : ord[j] # ord[i + 1]
      BY <1>1, <2>1, <2>3 DEF Distinct
    <3>4. \A j \in 1 .. i + 1 : j \in 1 .. i \/ j = i + 1
      OBVIOUS
    <3>5. \A j \in 1 .. i : j \in 1 .. i + 1
      OBVIOUS
    <3>6. First(ord, i + 1) \ {ord[i + 1]} = First(ord, i)
      BY <3>3, <3>4, <3>5 DEF First
    <3> QED BY <3>1, <3>2, <3>6
  <2>8. SumFunctionOnSet(Weights(m), First(ord, i + 1))
            = Weights(m)[ord[i + 1]] + SumFunctionOnSet(Weights(m), First(ord, i))
    <3>1. \A x \in First(ord, i + 1) : Weights(m)[x] \in Nat
      BY <2>7, WeightsNatural
    <3> QED BY <2>7, <3>1, SumTakes
  <2>9. At(i + 1)[i + 1] = Weights(m)[ord[i + 1]]
    BY <1>2, <2>1, <2>3, <2>4
  <2> HIDE DEF At
  <2> QED BY <2>1, <2>5, <2>6, <2>8, <2>9
<1>5. \A i \in Nat : i \in Z
  <2> HIDE DEF Z
  <2> QED BY <1>3, <1>4, NaturalsCovered
<1>6. n \in Nat /\ n <= Len(ord)
  BY <1>1
<1>7. Sums(n)
  BY <1>5, <1>6
<1> QED BY <1>7 DEF DroppedBytes

-----------------------------------------------------------------------------
(* The invariant *)

\* The values are listed by their order, their bytes are counted, and they fit.
ValuesKept ==
    /\ entries \in Values /\ Listed(entries, order)
    /\ usedBytes = Weight(entries)
    /\ usedBytes <= MaxBytes /\ Cardinality(Stored(entries)) <= ValueCap

\* The errors are listed by theirs, and they fit.
ErrorsKept ==
    /\ errEntries \in [Keys -> EntryType(Codes)] /\ Listed(errEntries, errOrder)
    /\ Cardinality(Stored(errEntries)) <= ErrorCap

\* No key is in both.
StoreInv ==
    /\ ValuesKept /\ ErrorsKept
    /\ Stored(entries) \cap Stored(errEntries) = {}
    /\ last \in [Keys -> Sizes \cup Codes \cup {None}]

\* The invariant is OrderIsEntries and BytesExact, which are thus inductive together.
LEMMA InvIsBoth == StoreInv <=> OrderIsEntries /\ BytesExact
<1>1. ASSUME entries \in Values
      PROVE  Weight(entries)
                 = SumFunctionOnSet([k \in Stored(entries) |-> Size(k)], Stored(entries))
  BY DEF Weight, Weights, Size
<1>2. StoreInv => OrderIsEntries /\ BytesExact
  <2> SUFFICES ASSUME StoreInv PROVE OrderIsEntries /\ BytesExact
    OBVIOUS
  <2>1. usedBytes \in Nat
    BY WeightNatural, ListedFinite DEF StoreInv, ValuesKept
  <2>2. order \in Seq(Keys) /\ errOrder \in Seq(Keys)
    BY DEF StoreInv, ValuesKept, ErrorsKept, Listed
  <2>3. Enumerates(order, entries) /\ Enumerates(errOrder, errEntries)
    BY <2>2, EnumeratesIsListed DEF StoreInv, ValuesKept, ErrorsKept
  <2> QED BY <1>1, <2>1, <2>2, <2>3
          DEF StoreInv, ValuesKept, ErrorsKept, OrderIsEntries, BytesExact, TypeOK, Values
<1>3. OrderIsEntries /\ BytesExact => StoreInv
  <2> SUFFICES ASSUME OrderIsEntries, BytesExact PROVE StoreInv
    OBVIOUS
  <2>2. Listed(entries, order) /\ Listed(errEntries, errOrder)
    BY EnumeratesIsListed DEF OrderIsEntries, TypeOK
  <2> QED BY <1>1, <2>2
          DEF StoreInv, ValuesKept, ErrorsKept, OrderIsEntries, BytesExact, TypeOK, Values
<1> QED BY <1>2, <1>3

\* An entry is not None.
LEMMA EntryIsSome == \A x \in Sizes \cup Codes : Entry(x) # None
<1> SUFFICES ASSUME NEW x \in Sizes \cup Codes PROVE Entry(x) # None
  OBVIOUS
<1>1. Entry(x) \in [item : Sizes \cup Codes, live : BOOLEAN]
  BY DEF Entry
<1> QED BY <1>1, NoneAssumption

\* A value is removed.
LEMMA ValueRemoved ==
    ASSUME ValuesKept, NEW k \in Keys
    PROVE  /\ BytesWithout(k) = Weight([entries EXCEPT ![k] = None])
           /\ BytesWithout(k) \in Nat /\ BytesWithout(k) <= MaxBytes
           /\ [entries EXCEPT ![k] = None] \in Values
           /\ Listed([entries EXCEPT ![k] = None], Without(order, k))
           /\ Stored([entries EXCEPT ![k] = None]) = Stored(entries) \ {k}
           /\ Cardinality(Stored(entries) \ {k}) <= ValueCap
<1> DEFINE out == [entries EXCEPT ![k] = None]
<1>1. /\ out \in Values /\ Listed(out, Without(order, k)) /\ Stored(out) = Stored(entries) \ {k}
  BY TakenOut DEF ValuesKept, Values
<1>2. IsFiniteSet(Stored(entries)) /\ IsFiniteSet(Stored(out))
  BY <1>1, ListedFinite DEF ValuesKept
<1>3. Weight(out) = usedBytes - (IF entries[k] = None THEN 0 ELSE Size(k))
  BY <1>2, WeightWithout DEF ValuesKept, Size
<1>4. Weight(out) \in Nat /\ usedBytes \in Nat
  <2> HIDE DEF out
  <2> QED BY <1>1, <1>2, WeightNatural DEF ValuesKept
<1>5. entries[k] # None => Size(k) \in Nat
  BY WeightsNatural DEF ValuesKept, Stored, Size
<1> HIDE DEF out
<1>6. BytesWithout(k) = Weight(out)
  <2>1. CASE entries[k] = None
    BY <1>3, <1>4, <2>1 DEF BytesWithout
  <2>2. CASE entries[k] # None
    BY <1>3, <1>4, <1>5, <2>2 DEF BytesWithout
  <2> QED BY <2>1, <2>2
<1>7. Weight(out) <= MaxBytes
  BY <1>3, <1>4, <1>5, BoundsAssumption DEF ValuesKept
<1>8. Cardinality(Stored(entries) \ {k}) <= ValueCap
  <2>1. /\ Cardinality(Stored(entries) \ {k}) <= Cardinality(Stored(entries))
        /\ Cardinality(Stored(entries)) \in Nat /\ Cardinality(Stored(entries) \ {k}) \in Nat
    BY <1>2, FS_Subset, FS_CardinalityType
  <2> QED BY <2>1, BoundsAssumption DEF ValuesKept
<1> QED BY <1>1, <1>4, <1>6, <1>7, <1>8 DEF out

\* An error is removed.
LEMMA ErrorRemoved ==
    ASSUME ErrorsKept, NEW k \in Keys, errEntries' = [errEntries EXCEPT ![k] = None],
           errOrder' = Without(errOrder, k)
    PROVE  ErrorsKept' /\ Stored(errEntries') = Stored(errEntries) \ {k}
<1> DEFINE out == [errEntries EXCEPT ![k] = None]
<1>1. /\ out \in [Keys -> EntryType(Codes)] /\ Listed(out, Without(errOrder, k))
      /\ Stored(out) = Stored(errEntries) \ {k}
  BY TakenOut DEF ErrorsKept
<1>2. IsFiniteSet(Stored(errEntries))
  BY ListedFinite DEF ErrorsKept
<1>3. /\ Cardinality(Stored(out)) <= Cardinality(Stored(errEntries))
      /\ Cardinality(Stored(errEntries)) \in Nat /\ Cardinality(Stored(out)) \in Nat
  BY <1>1, <1>2, FS_Subset, FS_CardinalityType
<1>4. Cardinality(Stored(out)) <= ErrorCap
  BY <1>3, BoundsAssumption DEF ErrorsKept
<1>5. errEntries' = out /\ errOrder' = Without(errOrder, k)
  OBVIOUS
<1> HIDE DEF out
<1>6. /\ errEntries' \in [Keys -> EntryType(Codes)] /\ Listed(errEntries', errOrder')
      /\ Cardinality(Stored(errEntries')) <= ErrorCap
      /\ Stored(errEntries') = Stored(errEntries) \ {k}
  BY <1>1, <1>4, <1>5
<1>7. ErrorsKept'
  BY <1>6 DEF ErrorsKept
<1> QED BY <1>6, <1>7

\* What storeLocal's loop stops at.
LEMMA EvictionsStop ==
    ASSUME NEW m, NEW ord, NEW used, Len(ord) \in Nat
    PROVE  LET n == Evictions(m, ord, used)
           IN  /\ n \in 0 .. Len(ord)
               /\ n = Len(ord) \/ ~ Overfull(m, ord, used, n)
               /\ \A i \in 0 .. n - 1 : Overfull(m, ord, used, i)
<1> DEFINE N == {i \in 0 .. Len(ord) : i = Len(ord) \/ ~ Overfull(m, ord, used, i)}
<1>1. \E i \in N : \A y \in N : i <= y
  <2>1. N \in SUBSET Nat /\ Len(ord) \in N
    OBVIOUS
  <2> HIDE DEF N
  <2> QED BY <2>1, LeastNatural
<1>2. PICK i \in N : \A y \in N : i <= y
  BY <1>1
<1>3. \A j \in 0 .. i - 1 : Overfull(m, ord, used, j)
  BY <1>2
<1>4. /\ i \in 0 .. Len(ord) /\ (i = Len(ord) \/ ~ Overfull(m, ord, used, i))
      /\ \A j \in 0 .. i - 1 : Overfull(m, ord, used, j)
  BY <1>2, <1>3
<1> QED BY <1>4 DEF Evictions

\* storeLocal of a value: it is stored, at the end of the order; whatever goes
\* goes from the front; what stays is within both limits.
LEMMA ValueStored ==
    ASSUME StoreInv, NEW k \in Keys, NEW size \in Sizes, StoreValue(k, size)
    PROVE  /\ ValuesKept'
           /\ \E gone \in SUBSET (Keys \ {k}) :
                 /\ entries' = [o \in Keys |-> IF o = k THEN Entry(size)
                                               ELSE IF o \in gone THEN None ELSE entries[o]]
                 /\ \A a, b \in Keys \ {k} : Before(order, a, b) /\ b \in gone => a \in gone
<1> DEFINE put == [entries EXCEPT ![k] = Entry(size)]
           out == [entries EXCEPT ![k] = None]
           ord == Append(Without(order, k), k)
           used == BytesWithout(k) + size
           n == Evictions(put, ord, used)
           d == Dropped(put, ord, n)
           rest == SubSeq(ord, n + 1, Len(ord))
<1>1. ValuesKept /\ entries \in Values /\ size \in Nat /\ size > 0 /\ Entry(size) # None
  BY BoundsAssumption, EntryIsSome DEF StoreInv, ValuesKept
<1>2. /\ BytesWithout(k) = Weight(out) /\ BytesWithout(k) \in Nat /\ BytesWithout(k) <= MaxBytes
      /\ Cardinality(Stored(entries) \ {k}) <= ValueCap
  BY <1>1, ValueRemoved
<1>3. /\ put \in Values /\ Listed(put, ord) /\ Stored(put) = Stored(entries) \cup {k}
      /\ Len(ord) = Cardinality(Stored(entries) \ {k}) + 1 /\ Len(ord) \in Nat
      /\ ord[Len(ord)] = k
      /\ \A a, b \in Keys \ {k} : Before(order, a, b) => Before(ord, a, b)
  <2>1. entries \in [Keys -> EntryType(Sizes)] /\ Listed(entries, order)
    BY <1>1 DEF ValuesKept, Values
  <2>2. /\ [entries EXCEPT ![k] = Entry(size)] \in [Keys -> EntryType(Sizes)]
        /\ Listed([entries EXCEPT ![k] = Entry(size)], Append(Without(order, k), k))
        /\ Stored([entries EXCEPT ![k] = Entry(size)]) = Stored(entries) \cup {k}
        /\ Len(Append(Without(order, k), k)) = Cardinality(Stored(entries) \ {k}) + 1
        /\ Len(Append(Without(order, k), k)) \in Nat
        /\ Append(Without(order, k), k)[Len(Append(Without(order, k), k))] = k
        /\ \A a, b \in Keys \ {k} :
              Before(order, a, b) => Before(Append(Without(order, k), k), a, b)
    <3> HIDE DEF put, ord
    <3>1. Entry(size) # None
      BY <1>1
    <3> QED BY ONLY <2>1, <3>1, PutIn, k \in Keys, size \in Sizes
  <2> QED BY <2>2 DEF Values, put, ord
<1>4. /\ IsFiniteSet(Stored(entries)) /\ IsFiniteSet(Stored(put))
      /\ Cardinality(Stored(put)) = Len(ord)
  <2> HIDE DEF put, ord
  <2> QED BY <1>1, <1>3, ListedFinite DEF ValuesKept
<1>5. used = Weight(put) /\ used \in Nat
  <2>1. Weight(put) = Weight(out) + size
    BY <1>1, <1>4, WeightPut
  <2> HIDE DEF put, out
  <2> QED BY <1>1, <1>2, <2>1
<1>6. /\ n \in 0 .. Len(ord) /\ (n = Len(ord) \/ ~ Overfull(put, ord, used, n))
      /\ \A i \in 0 .. n - 1 : Overfull(put, ord, used, i)
  BY <1>3, EvictionsStop
<1>7. /\ entries' = d /\ order' = rest /\ usedBytes' = used - DroppedBytes(put, ord, n)
      /\ size <= MaxBytes
  BY DEF StoreValue, Dropped, First
<1> HIDE DEF put, out, ord, used, n
<1>8. ASSUME NEW i \in 0 .. Len(ord)
      PROVE  /\ Weight(Dropped(put, ord, i)) = used - DroppedBytes(put, ord, i)
             /\ Dropped(put, ord, i) \in Values
             /\ Cardinality(Stored(Dropped(put, ord, i))) = Cardinality(Stored(put)) - i
             /\ Listed(Dropped(put, ord, i), SubSeq(ord, i + 1, Len(ord)))
             /\ Stored(Dropped(put, ord, i)) = Stored(put) \ First(ord, i)
             /\ IsFiniteSet(Stored(Dropped(put, ord, i)))
  <2>1. /\ Dropped(put, ord, i) \in Values
        /\ Listed(Dropped(put, ord, i), SubSeq(ord, i + 1, Len(ord)))
        /\ Stored(Dropped(put, ord, i)) = Stored(put) \ First(ord, i)
        /\ Cardinality(Stored(Dropped(put, ord, i))) = Cardinality(Stored(put)) - i
        /\ First(ord, i) \in SUBSET Stored(put)
    BY <1>3, FirstOut DEF Values
  <2>2. \A o \in Stored(Dropped(put, ord, i)) : Dropped(put, ord, i)[o] = put[o]
    BY DEF Stored, Dropped
  <2>3. Weight(Dropped(put, ord, i)) = Weight(put) - SumFunctionOnSet(Weights(put), First(ord, i))
    BY <1>3, <1>4, <2>1, <2>2, WeightOfRest
  <2>4. DroppedBytes(put, ord, i) = SumFunctionOnSet(Weights(put), First(ord, i))
    BY <1>3, DroppedIsSum
  <2>5. IsFiniteSet(Stored(Dropped(put, ord, i)))
    BY <2>1, ListedFinite
  <2> QED BY <1>5, <2>1, <2>3, <2>4, <2>5
<1>9. n < Len(ord)
  <2> SUFFICES ASSUME n = Len(ord) PROVE FALSE
    BY <1>3, <1>6
  <2> DEFINE i == Len(ord) - 1
  <2>1. i \in 0 .. Len(ord) /\ i \in 0 .. n - 1
    BY <1>2, <1>3, <1>4, FS_CardinalityType, FS_Subset
  <2>2. Stored(Dropped(put, ord, i)) = {k}
    <3>1. ord \in Seq(Keys) /\ Distinct(ord) /\ Elements(ord) = Stored(put)
      BY <1>3 DEF Listed
    <3>2. \A j \in 1 .. Len(ord) : j \in 1 .. i \/ j = Len(ord)
      BY <1>3
    <3>3. \A j \in 1 .. i : j \in 1 .. Len(ord) /\ j # Len(ord)
      BY <1>3
    <3>4. Len(ord) \in 1 .. Len(ord)
      BY <1>3, <2>1
    <3>5. Elements(ord) \ First(ord, i) = {k}
      <4> HIDE DEF i
      <4> QED BY <1>3, <3>1, <3>2, <3>3, <3>4 DEF Elements, First, Distinct
    <3> QED BY <1>8, <2>1, <3>1, <3>5
  <2>3. Weight(Dropped(put, ord, i)) = size
    <3> DEFINE one == Dropped(put, ord, i)
    <3>1. k \in Stored(one) /\ one[k].item = size
      <4>1. k \in Stored(one)
        BY <2>2
      <4>2. one[k] = put[k] /\ put[k] = Entry(size)
        BY <1>1, <4>1 DEF Stored, Dropped, put, Values
      <4> QED BY <4>1, <4>2 DEF Entry
    <3>2. one \in Values /\ Stored(one) = {k}
      BY <1>8, <2>1, <2>2
    <3> HIDE DEF one
    <3>3. Weights(one)[k] = size
      BY <3>1, <3>2, WeightsNatural
    <3>4. Weight(one) = size
      BY <1>1, <3>2, <3>3, SumOfOne DEF Weight
    <3> QED BY <3>4 DEF one
  <2>4. used - DroppedBytes(put, ord, i) = size /\ Cardinality(Stored(put)) - i = 1
    <3>1. Cardinality(Stored(put)) - i = 1
      BY <1>3, <1>4
    <3> HIDE DEF i
    <3>2. used - DroppedBytes(put, ord, i) = size
      BY <1>8, <2>1, <2>3
    <3> QED BY <3>1, <3>2
  <2>5. ~ Overfull(put, ord, used, i)
    BY <1>7, <2>4, BoundsAssumption DEF Overfull
  <2> QED BY <1>6, <2>1, <2>5
<1>10. ~ Overfull(put, ord, used, n)
  BY <1>6, <1>9
<1>11. /\ d \in Values /\ Listed(d, rest) /\ usedBytes' = Weight(d)
       /\ usedBytes' <= MaxBytes /\ Cardinality(Stored(d)) <= ValueCap
  <2>1. /\ d \in Values /\ Listed(d, rest) /\ usedBytes' = Weight(d)
        /\ Cardinality(Stored(d)) = Cardinality(Stored(put)) - n /\ IsFiniteSet(Stored(d))
    BY <1>6, <1>7, <1>8
  <2>2. /\ ~ (used - DroppedBytes(put, ord, n) > MaxBytes)
        /\ ~ (Cardinality(Stored(put)) - n > ValueCap)
    BY <1>10 DEF Overfull
  <2>3. Weight(d) \in Nat /\ Cardinality(Stored(d)) \in Nat
    BY <2>1, WeightNatural, FS_CardinalityType
  <2>4. usedBytes' <= MaxBytes
    BY <1>7, <2>1, <2>2, <2>3, BoundsAssumption
  <2>5. Cardinality(Stored(d)) <= ValueCap
    BY <2>1, <2>2, <2>3, BoundsAssumption
  <2> QED BY <2>1, <2>4, <2>5
<1>12. ValuesKept'
  <2> HIDE DEF d, rest
  <2> QED BY <1>7, <1>11 DEF ValuesKept, Listed, Distinct, Elements, Weight, Weights, Values
<1>13. /\ First(ord, n) \in SUBSET (Keys \ {k})
       /\ \A a, b \in Keys \ {k} : Before(order, a, b) /\ b \in First(ord, n) => a \in First(ord, n)
  <2>1. ord \in Seq(Keys) /\ Distinct(ord) /\ Len(ord) \in Nat /\ n \in Nat
    BY <1>3, <1>6 DEF Listed
  <2>2. \A j \in 1 .. n : j \in 1 .. Len(ord) /\ j # Len(ord)
    BY <1>9, <2>1
  <2>3. Len(ord) \in 1 .. Len(ord)
    BY <1>9, <2>1
  <2>4. First(ord, n) \in SUBSET (Keys \ {k})
    <3>1. ASSUME NEW j \in 1 .. n PROVE ord[j] \in Keys /\ ord[j] # k
      BY <1>3, <2>1, <2>2, <2>3, ElementOfSeq DEF Distinct
    <3> QED BY <3>1 DEF First
  <2>5. ASSUME NEW a \in Keys \ {k}, NEW b \in Keys \ {k}, Before(order, a, b), b \in First(ord, n)
        PROVE  a \in First(ord, n)
    <3>1. PICK i \in 1 .. Len(ord), j \in 1 .. Len(ord) : i < j /\ ord[i] = a /\ ord[j] = b
      BY <1>3, <2>5 DEF Before
    <3>2. PICK h \in 1 .. n : ord[h] = b
      BY <2>5 DEF First
    <3>3. h = j
      BY <2>1, <2>2, <3>1, <3>2 DEF Distinct
    <3>4. i \in 1 .. n
      BY <2>1, <3>1, <3>2, <3>3
    <3> QED BY <3>1, <3>4 DEF First
  <2> QED BY <2>4, <2>5
<1>14. entries' = [o \in Keys |-> IF o = k THEN Entry(size)
                                  ELSE IF o \in First(ord, n) THEN None ELSE entries[o]]
  BY <1>1, <1>7, <1>13 DEF d, Dropped, put, Values
<1> QED BY <1>12, <1>13, <1>14

\* storeLocal of an error: it is stored; at most one other error goes.
LEMMA ErrorStored ==
    ASSUME StoreInv, NEW k \in Keys, NEW code \in Codes, StoreError(k, code)
    PROVE  /\ ErrorsKept'
           /\ \E gone \in SUBSET (Keys \ {k}) :
                 errEntries' = [o \in Keys |-> IF o = k THEN Entry(code)
                                               ELSE IF o \in gone THEN None ELSE errEntries[o]]
<1> DEFINE put == [errEntries EXCEPT ![k] = Entry(code)]
           ord == Append(Without(errOrder, k), k)
<1>1. /\ errEntries \in [Keys -> EntryType(Codes)] /\ Listed(errEntries, errOrder)
      /\ Cardinality(Stored(errEntries)) <= ErrorCap /\ Entry(code) # None
  BY EntryIsSome DEF StoreInv, ErrorsKept
<1>2. /\ put \in [Keys -> EntryType(Codes)] /\ Listed(put, ord)
      /\ Stored(put) = Stored(errEntries) \cup {k}
      /\ Len(ord) = Cardinality(Stored(errEntries) \ {k}) + 1 /\ Len(ord) \in Nat
      /\ ord[Len(ord)] = k
  <2>1. /\ [errEntries EXCEPT ![k] = Entry(code)] \in [Keys -> EntryType(Codes)]
        /\ Listed([errEntries EXCEPT ![k] = Entry(code)], Append(Without(errOrder, k), k))
        /\ Stored([errEntries EXCEPT ![k] = Entry(code)]) = Stored(errEntries) \cup {k}
        /\ Len(Append(Without(errOrder, k), k)) = Cardinality(Stored(errEntries) \ {k}) + 1
        /\ Len(Append(Without(errOrder, k), k)) \in Nat
        /\ Append(Without(errOrder, k), k)[Len(Append(Without(errOrder, k), k))] = k
        /\ \A a, b \in Keys \ {k} :
              Before(errOrder, a, b) => Before(Append(Without(errOrder, k), k), a, b)
    <3> HIDE DEF put, ord
    <3>1. errEntries \in [Keys -> EntryType(Codes)] /\ Listed(errEntries, errOrder)
      BY <1>1
    <3>2. Entry(code) # None
      BY <1>1
    <3> QED BY ONLY <3>1, <3>2, PutIn, k \in Keys, code \in Codes
  <2> QED BY <2>1 DEF put, ord
<1>3. IF Len(ord) > ErrorCap
      THEN errEntries' = [put EXCEPT ![Head(ord)] = None] /\ errOrder' = Tail(ord)
      ELSE errEntries' = put /\ errOrder' = ord
  BY DEF StoreError
<1>4. /\ put \in [Keys -> EntryType(Codes)] /\ put[k] = Entry(code)
      /\ \A o \in Keys : o # k => put[o] = errEntries[o]
  BY <1>1, <1>2
<1> HIDE DEF put, ord
<1>5. /\ Cardinality(Stored(errEntries) \ {k}) <= Cardinality(Stored(errEntries))
      /\ Cardinality(Stored(errEntries)) \in Nat
      /\ Cardinality(Stored(errEntries) \ {k}) \in Nat
      /\ Cardinality(Stored(put)) = Len(ord)
  <2>1. IsFiniteSet(Stored(errEntries)) /\ Cardinality(Stored(put)) = Len(ord)
    BY <1>1, <1>2, ListedFinite
  <2> QED BY <2>1, FS_Subset, FS_CardinalityType
<1>6. CASE Len(ord) <= ErrorCap
  <2>1. errEntries' = put /\ errOrder' = ord
    BY <1>2, <1>3, <1>6, BoundsAssumption
  <2>2. /\ errEntries' \in [Keys -> EntryType(Codes)] /\ Listed(errEntries', errOrder')
        /\ Cardinality(Stored(errEntries')) <= ErrorCap
    BY <1>2, <1>5, <1>6, <2>1
  <2>3. ErrorsKept'
    BY <2>2 DEF ErrorsKept
  <2> DEFINE nothing == {}
  <2>4. errEntries' = [o \in Keys |-> IF o = k THEN Entry(code)
                                      ELSE IF o \in nothing THEN None ELSE errEntries[o]]
    <3>1. \A o \in Keys : errEntries'[o] = IF o = k THEN Entry(code) ELSE errEntries[o]
      BY <1>4, <2>1
    <3>2. errEntries' = [o \in Keys |-> errEntries'[o]]
      BY <2>2
    <3> QED BY <3>1, <3>2
  <2>5. nothing \in SUBSET (Keys \ {k})
    OBVIOUS
  <2> HIDE DEF nothing
  <2> QED BY <2>3, <2>4, <2>5
<1>7. CASE Len(ord) > ErrorCap
  <2> DEFINE d == Dropped(put, ord, 1)
             rest == SubSeq(ord, 2, Len(ord))
  <2>1. ord \in Seq(Keys) /\ Distinct(ord) /\ Len(ord) > 1 /\ 1 \in 0 .. Len(ord)
    BY <1>2, <1>7, BoundsAssumption DEF Listed
  <2>2. First(ord, 1) = {ord[1]} /\ Head(ord) = ord[1] /\ Tail(ord) = rest
    <3>1. Head(ord) = ord[1]
      BY <2>1
    <3>2. Tail(ord) = rest
      BY <2>1, HeadTailProperties, SubSeqProperties
    <3>3. 1 .. 1 = {1}
      OBVIOUS
    <3>4. First(ord, 1) = {ord[1]}
      BY <3>3 DEF First
    <3> QED BY <3>1, <3>2, <3>4
  <2>3. ord[1] \in Keys \ {k}
    <3>1. 1 \in 1 .. Len(ord) /\ Len(ord) \in 1 .. Len(ord) /\ 1 # Len(ord)
      BY <2>1, <1>2
    <3> QED BY <1>2, <2>1, <3>1, ElementOfSeq DEF Distinct
  <2>4. /\ d \in [Keys -> EntryType(Codes)] /\ Listed(d, rest)
        /\ Cardinality(Stored(d)) = Cardinality(Stored(put)) - 1
    <3>1. /\ Dropped(put, ord, 1) \in [Keys -> EntryType(Codes)]
          /\ Listed(Dropped(put, ord, 1), SubSeq(ord, 1 + 1, Len(ord)))
          /\ Stored(Dropped(put, ord, 1)) = Stored(put) \ First(ord, 1)
          /\ Cardinality(Stored(Dropped(put, ord, 1))) = Cardinality(Stored(put)) - 1
          /\ First(ord, 1) \in SUBSET Stored(put)
      BY <1>2, <2>1, FirstOut
    <3>2. 1 + 1 = 2
      OBVIOUS
    <3> QED BY <3>1, <3>2
  <2>5. errEntries' = d /\ errOrder' = rest
    <3>1. errEntries' = [put EXCEPT ![Head(ord)] = None] /\ errOrder' = Tail(ord)
      BY <1>3, <1>7
    <3>2. [put EXCEPT ![ord[1]] = None] = d
      BY <1>2, <2>2, <2>3 DEF Dropped
    <3> QED BY <2>2, <3>1, <3>2
  <2>6. errEntries' = [o \in Keys |-> IF o = k THEN Entry(code)
                                      ELSE IF o \in {ord[1]} THEN None ELSE errEntries[o]]
    <3>1. \A o \in Keys : d[o] = IF o = k THEN Entry(code)
                                ELSE IF o \in {ord[1]} THEN None ELSE errEntries[o]
      BY <1>4, <2>2, <2>3 DEF Dropped
    <3>2. d = [o \in Keys |-> d[o]]
      BY DEF Dropped
    <3> HIDE DEF d
    <3> QED BY <2>5, <3>1, <3>2
  <2> HIDE DEF d, rest
  <2>7. Cardinality(Stored(d)) <= ErrorCap
    BY <1>1, <1>2, <1>5, <2>4, BoundsAssumption
  <2>8. /\ errEntries' \in [Keys -> EntryType(Codes)] /\ Listed(errEntries', errOrder')
        /\ Cardinality(Stored(errEntries')) <= ErrorCap
    BY <2>4, <2>5, <2>7
  <2>9. ErrorsKept'
    BY <2>8 DEF ErrorsKept
  <2>10. {ord[1]} \in SUBSET (Keys \ {k})
    BY <2>3
  <2> QED BY <2>6, <2>9, <2>10
<1>8. Len(ord) <= ErrorCap \/ Len(ord) > ErrorCap
  BY <1>2, BoundsAssumption
<1> QED BY <1>6, <1>7, <1>8

-----------------------------------------------------------------------------
(* The steps *)

\* An empty store satisfies the invariant.
LEMMA InitKept == Init => StoreInv
<1> SUFFICES ASSUME Init PROVE StoreInv
  OBVIOUS
<1>1. Stored(entries) = {} /\ Stored(errEntries) = {}
  BY DEF Init, Stored
<1>2. <<>> \in Seq(Keys) /\ Distinct(<<>>) /\ Elements(<<>>) = {}
  BY DEF Distinct, Elements
<1>3. entries \in Values /\ errEntries \in [Keys -> EntryType(Codes)]
  BY DEF Init, Values, EntryType
<1>4. Weight(entries) = 0 /\ Cardinality({}) = 0
  BY <1>1, SumOfNone, FS_EmptySet DEF Weight
<1>5. 0 <= MaxBytes /\ 0 <= ValueCap /\ 0 <= ErrorCap
  BY BoundsAssumption
<1>6. Listed(entries, order) /\ Listed(errEntries, errOrder) /\ usedBytes = 0
  BY <1>1, <1>2 DEF Listed, Init
<1>7. ValuesKept
  BY <1>1, <1>3, <1>4, <1>5, <1>6 DEF ValuesKept
<1>8. ErrorsKept
  BY <1>1, <1>3, <1>4, <1>5, <1>6 DEF ErrorsKept
<1>9. last \in [Keys -> Sizes \cup Codes \cup {None}]
  BY DEF Init
<1> QED BY <1>1, <1>7, <1>8, <1>9 DEF StoreInv

\* A key is no longer among the values.
LEMMA ValueGone ==
    ASSUME ValuesKept, NEW k \in Keys, entries' = [entries EXCEPT ![k] = None],
           order' = Without(order, k), usedBytes' = BytesWithout(k)
    PROVE  ValuesKept' /\ Stored(entries') = Stored(entries) \ {k}
<1>1. /\ entries' \in Values /\ Listed(entries', order') /\ usedBytes' = Weight(entries')
      /\ usedBytes' <= MaxBytes /\ Stored(entries') = Stored(entries) \ {k}
      /\ Cardinality(Stored(entries')) <= ValueCap
  BY ValueRemoved
<1>2. ValuesKept'
  BY <1>1 DEF ValuesKept, Listed, Distinct, Elements, Weight, Weights, Values
<1> QED BY <1>1, <1>2

\* An entry that expires keeps its place and its item.
LEMMA Expires ==
    ASSUME NEW items \in SUBSET (Sizes \cup Codes), NEW m \in [Keys -> EntryType(items)],
           NEW k \in Keys, m[k] # None
    PROVE  /\ [m EXCEPT ![k].live = FALSE] \in [Keys -> EntryType(items)]
           /\ Stored([m EXCEPT ![k].live = FALSE]) = Stored(m)
           /\ \A o \in Stored(m) : [m EXCEPT ![k].live = FALSE][o].item = m[o].item
<1> DEFINE e == [m EXCEPT ![k].live = FALSE]
<1>1. m[k] \in [item : items, live : BOOLEAN]
  BY DEF EntryType
<1>2. e[k] \in [item : items, live : BOOLEAN] /\ e[k].item = m[k].item
  BY <1>1
<1>3. e[k] # None
  BY <1>2, NoneAssumption
<1>4. e \in [Keys -> EntryType(items)] /\ \A o \in Keys : o # k => e[o] = m[o]
  BY <1>2 DEF EntryType
<1> HIDE DEF e
<1>5. Stored(e) = Stored(m)
  BY <1>3, <1>4 DEF Stored
<1>6. \A o \in Stored(m) : e[o].item = m[o].item
  BY <1>2, <1>4 DEF Stored
<1> QED BY <1>4, <1>5, <1>6 DEF e

\* Neither the bytes nor the order of the values change with one that expires.
LEMMA ValueExpired ==
    ASSUME ValuesKept, NEW k \in Keys, entries[k] # None,
           entries' = [entries EXCEPT ![k].live = FALSE], UNCHANGED <<order, usedBytes>>
    PROVE  /\ ValuesKept' /\ Stored(entries') = Stored(entries)
           /\ \A o \in Stored(entries) : entries'[o].item = entries[o].item
<1>1. /\ entries' \in Values /\ Stored(entries') = Stored(entries)
      /\ \A o \in Stored(entries) : entries'[o].item = entries[o].item
  BY Expires DEF ValuesKept, Values
<1>2. Weights(entries') = Weights(entries)
  BY <1>1 DEF Weights
<1>3. Weight(entries') = Weight(entries)
  BY <1>1, <1>2 DEF Weight
<1>4. Listed(entries', order')
  BY <1>1 DEF Listed, ValuesKept
<1>5. /\ entries' \in Values /\ Listed(entries', order') /\ usedBytes' = Weight(entries')
      /\ usedBytes' <= MaxBytes /\ Cardinality(Stored(entries')) <= ValueCap
  BY <1>1, <1>3, <1>4 DEF ValuesKept
<1>6. ValuesKept'
  BY <1>5 DEF ValuesKept, Listed, Distinct, Elements, Weight, Weights, Values
<1> QED BY <1>1, <1>6

\* Nor those of the errors.
LEMMA ErrorExpired ==
    ASSUME ErrorsKept, NEW k \in Keys, errEntries[k] # None,
           errEntries' = [errEntries EXCEPT ![k].live = FALSE], UNCHANGED errOrder
    PROVE  /\ ErrorsKept' /\ Stored(errEntries') = Stored(errEntries)
           /\ \A o \in Stored(errEntries) : errEntries'[o].item = errEntries[o].item
<1>1. /\ errEntries' \in [Keys -> EntryType(Codes)] /\ Stored(errEntries') = Stored(errEntries)
      /\ \A o \in Stored(errEntries) : errEntries'[o].item = errEntries[o].item
  BY Expires DEF ErrorsKept
<1>2. /\ Listed(errEntries', errOrder') /\ Cardinality(Stored(errEntries')) <= ErrorCap
  BY <1>1 DEF Listed, ErrorsKept
<1>3. ErrorsKept'
  BY <1>1, <1>2 DEF ErrorsKept
<1> QED BY <1>1, <1>3

\* Every step of the store keeps the invariant.
LEMMA StepKeeps == StoreInv /\ [Next]_vars => StoreInv'
<1> SUFFICES ASSUME StoreInv, [Next]_vars PROVE StoreInv'
  OBVIOUS
<1> DEFINE LastTyped(s) == s \in [Keys -> Sizes \cup Codes \cup {None}]
<1>0. ValuesKept /\ ErrorsKept /\ Stored(entries) \cap Stored(errEntries) = {} /\ LastTyped(last)
  BY DEF StoreInv
<1>1. ASSUME NEW k \in Keys, NEW size \in Sizes, StoreValue(k, size) PROVE StoreInv'
  <2>1. /\ errEntries' = [errEntries EXCEPT ![k] = None] /\ errOrder' = Without(errOrder, k)
        /\ LastTyped(last')
    BY <1>0, <1>1 DEF StoreValue
  <2>2. ErrorsKept' /\ Stored(errEntries') = Stored(errEntries) \ {k}
    BY <1>0, <2>1, ErrorRemoved
  <2>3. ValuesKept'
    BY <1>1, ValueStored
  <2>4. PICK gone \in SUBSET (Keys \ {k}) :
            entries' = [o \in Keys |-> IF o = k THEN Entry(size)
                                       ELSE IF o \in gone THEN None ELSE entries[o]]
    BY <1>1, ValueStored
  <2>5. Stored(entries') \subseteq Stored(entries) \cup {k}
    BY <2>4 DEF Stored
  <2>6. Stored(entries') \cap Stored(errEntries') = {}
    BY <1>0, <2>2, <2>5
  <2> QED BY <2>1, <2>2, <2>3, <2>6 DEF StoreInv, Stored
<1>2. ASSUME NEW k \in Keys, NEW code \in Codes, StoreError(k, code) PROVE StoreInv'
  <2>1. /\ entries' = [entries EXCEPT ![k] = None] /\ order' = Without(order, k)
        /\ usedBytes' = BytesWithout(k) /\ LastTyped(last')
    BY <1>0, <1>2 DEF StoreError
  <2>2. ValuesKept' /\ Stored(entries') = Stored(entries) \ {k}
    BY <1>0, <2>1, ValueGone
  <2>3. ErrorsKept'
    BY <1>2, ErrorStored
  <2>4. PICK gone \in SUBSET (Keys \ {k}) :
            errEntries' = [o \in Keys |-> IF o = k THEN Entry(code)
                                          ELSE IF o \in gone THEN None ELSE errEntries[o]]
    BY <1>2, ErrorStored
  <2>5. Stored(errEntries') \subseteq Stored(errEntries) \cup {k}
    BY <2>4 DEF Stored
  <2>6. Stored(entries') \cap Stored(errEntries') = {}
    BY <1>0, <2>2, <2>5
  <2> QED BY <2>1, <2>2, <2>3, <2>6 DEF StoreInv, Stored
<1>3. ASSUME NEW k \in Keys, GetExpiredValue(k) PROVE StoreInv'
  <2>1. ValuesKept' /\ Stored(entries') = Stored(entries) \ {k}
    BY <1>0, <1>3, ValueGone DEF GetExpiredValue
  <2>2. UNCHANGED <<errEntries, errOrder, last>>
    BY <1>3 DEF GetExpiredValue
  <2>3. ErrorsKept'
    BY <1>0, <2>2 DEF ErrorsKept, Listed, Distinct, Elements, Stored
  <2>4. Stored(entries') \cap Stored(errEntries') = {}
    BY <1>0, <2>1, <2>2
  <2> QED BY <1>0, <2>1, <2>2, <2>3, <2>4 DEF StoreInv, Stored
<1>4. ASSUME NEW k \in Keys, GetExpiredError(k) PROVE StoreInv'
  <2>1. ErrorsKept' /\ Stored(errEntries') = Stored(errEntries) \ {k}
    BY <1>0, <1>4, ErrorRemoved DEF GetExpiredError
  <2>2. UNCHANGED <<entries, order, usedBytes, last>>
    BY <1>4 DEF GetExpiredError
  <2>3. ValuesKept'
    BY <1>0, <2>2 DEF ValuesKept, Listed, Distinct, Elements, Stored, Weight, Weights, Values
  <2>4. Stored(entries') \cap Stored(errEntries') = {}
    BY <1>0, <2>1, <2>2
  <2> QED BY <1>0, <2>1, <2>2, <2>3, <2>4 DEF StoreInv, Stored
<1>5. ASSUME NEW k \in Keys, Expire(k) PROVE StoreInv'
  <2>1. UNCHANGED <<order, errOrder, usedBytes, last>>
    BY <1>5 DEF Expire
  <2>2. ASSUME entries[k] # None, entries' = [entries EXCEPT ![k].live = FALSE],
               UNCHANGED errEntries
        PROVE  StoreInv'
    <3>1. ValuesKept' /\ Stored(entries') = Stored(entries)
      BY <1>0, <2>1, <2>2, ValueExpired
    <3>2. ErrorsKept'
      BY <1>0, <2>1, <2>2 DEF ErrorsKept, Listed, Distinct, Elements, Stored
    <3>3. Stored(entries') \cap Stored(errEntries') = {}
      BY <1>0, <2>2, <3>1
    <3> QED BY <1>0, <2>1, <3>1, <3>2, <3>3 DEF StoreInv, Stored
  <2>3. ASSUME errEntries[k] # None, errEntries' = [errEntries EXCEPT ![k].live = FALSE],
               UNCHANGED entries
        PROVE  StoreInv'
    <3>1. ErrorsKept' /\ Stored(errEntries') = Stored(errEntries)
      BY <1>0, <2>1, <2>3, ErrorExpired
    <3>2. ValuesKept'
      BY <1>0, <2>1, <2>3
         DEF ValuesKept, Listed, Distinct, Elements, Stored, Weight, Weights, Values
    <3>3. Stored(entries') \cap Stored(errEntries') = {}
      BY <1>0, <2>3, <3>1
    <3> QED BY <1>0, <2>1, <3>1, <3>2, <3>3 DEF StoreInv, Stored
  <2> QED BY <1>5, <2>2, <2>3 DEF Expire
<1>6. ASSUME UNCHANGED vars PROVE StoreInv'
  BY <1>0, <1>6 DEF vars, StoreInv, ValuesKept, ErrorsKept, Listed, Distinct, Elements, Stored,
                    Weight, Weights, Values
<1> QED BY <1>1, <1>2, <1>3, <1>4, <1>5, <1>6 DEF Next, StoreTooLarge

\* The bytes, caps and orders of the store hold together in every reachable state.
THEOREM StoreInvariant == Spec => []StoreInv
  BY InitKept, StepKeeps, PTL DEF Spec

\* usedBytes is exactly what is held, which fits in bytes and in number: the floor of
\* removeLocalLocked at zero never hides a drift.
THEOREM BytesAreExact == Spec => []BytesExact
<1>1. StoreInv => BytesExact
  BY InvIsBoth
<1> QED BY StoreInvariant, <1>1, PTL

\* Each order lists the keys of its map once, and no key is in both maps: the loops of
\* storeLocal never meet a key that is gone.
THEOREM OrdersAgree == Spec => []OrderIsEntries
<1>1. StoreInv => OrderIsEntries
  BY InvIsBoth
<1> QED BY StoreInvariant, <1>1, PTL

-----------------------------------------------------------------------------
(* First in, first out *)

\* The step of OldestGoesFirst.
Fifo == \A a, b \in Stored(entries), c \in Keys :
            /\ Older(a, b) /\ c # a
            /\ entries'[c] \notin {None, entries[c]}
            /\ entries'[b] = None
            => entries'[a] = None

\* Older, in the terms of the orders.
LEMMA OlderIsBefore ==
    ASSUME NEW a, NEW b, StoreInv, Older(a, b)
    PROVE  Before(order, a, b)
<1>1. DOMAIN order = 1 .. Len(order)
  BY DEF StoreInv, ValuesKept, Listed
<1> QED BY <1>1 DEF Older, Before

\* Only storeLocal of a value both stores and drops, and it drops from the front.
LEMMA StepIsFifo == StoreInv /\ [Next]_vars => Fifo
<1> SUFFICES ASSUME StoreInv, [Next]_vars,
                    NEW a \in Stored(entries), NEW b \in Stored(entries), NEW c \in Keys,
                    Older(a, b), c # a, entries'[c] \notin {None, entries[c]}, entries'[b] = None
             PROVE  entries'[a] = None
  BY DEF Fifo
<1>1. /\ entries \in [Keys -> EntryType(Sizes)] /\ a \in Keys /\ b \in Keys
      /\ entries[a] # None /\ entries[b] # None
  BY DEF StoreInv, ValuesKept, Values, Stored
<1>2. ASSUME NEW k \in Keys, NEW size \in Sizes, StoreValue(k, size)
      PROVE  entries'[a] = None
  <2>1. PICK gone \in SUBSET (Keys \ {k}) :
            /\ entries' = [o \in Keys |-> IF o = k THEN Entry(size)
                                          ELSE IF o \in gone THEN None ELSE entries[o]]
            /\ \A x, y \in Keys \ {k} : Before(order, x, y) /\ y \in gone => x \in gone
    BY <1>2, ValueStored
  <2>2. Entry(size) # None
    BY EntryIsSome
  <2>3. c = k
    BY <2>1
  <2>4. b # k /\ b \in gone
    BY <1>1, <2>1, <2>2
  <2>5. a \in gone
    BY <1>1, <2>1, <2>3, <2>4, OlderIsBefore
  <2> QED BY <1>1, <2>1, <2>3, <2>5
<1>3. ASSUME NEW k \in Keys, entries' = [entries EXCEPT ![k] = None]
      PROVE  entries'[a] = None
  BY <1>1, <1>3
<1>4. ASSUME UNCHANGED entries
      PROVE  entries'[a] = None
  BY <1>4
<1>5. ASSUME NEW k \in Keys, entries[k] # None, entries' = [entries EXCEPT ![k].live = FALSE]
      PROVE  entries'[a] = None
  <2>1. Stored(entries') = Stored(entries)
    BY <1>1, <1>5, Expires
  <2>2. b \in Stored(entries')
    BY <2>1
  <2> QED BY <2>2 DEF Stored
<1>6. ASSUME NEW k \in Keys, NEW code \in Codes, StoreError(k, code)
      PROVE  entries'[a] = None
  BY <1>3, <1>6 DEF StoreError
<1>7. ASSUME NEW k \in Keys, GetExpiredValue(k)
      PROVE  entries'[a] = None
  BY <1>3, <1>7 DEF GetExpiredValue
<1>8. ASSUME NEW k \in Keys, GetExpiredError(k)
      PROVE  entries'[a] = None
  BY <1>4, <1>8 DEF GetExpiredError
<1>9. ASSUME NEW k \in Keys, Expire(k)
      PROVE  entries'[a] = None
  BY <1>4, <1>5, <1>9 DEF Expire
<1> QED BY <1>2, <1>4, <1>6, <1>7, <1>8, <1>9 DEF Next, StoreTooLarge, vars

\* storeLocal's eviction is first in, first out for any caps and sizes.
THEOREM OldestIsFirst == Spec => OldestGoesFirst
<1>1. StoreInv /\ [Next]_vars => [\A a, b \in Stored(entries), c \in Keys :
                                     /\ Older(a, b) /\ c # a
                                     /\ entries'[c] \notin {None, entries[c]}
                                     /\ entries'[b] = None
                                     => entries'[a] = None]_vars
  BY StepIsFifo DEF Fifo
<1> QED BY StoreInvariant, <1>1, PTL DEF Spec, OldestGoesFirst

-----------------------------------------------------------------------------
(* The map it implements *)

\* What the keys have in two maps, the first read first.
ContentOf(m, e) == [k \in Keys |-> IF m[k] # None THEN m[k].item
                                   ELSE IF e[k] # None THEN e[k].item ELSE None]

\* c1 is c with x at k and without what is forgotten; e1 is e without k.
Stores(c1, c, k, x, forgotten) ==
    \A o \in Keys : c1[o] = IF o = k THEN x ELSE IF o \in forgotten THEN None ELSE c[o]
Loses(e1, e, k) == \A o \in Keys : e1[o] = IF o = k THEN None ELSE e[o]

\* With no key in both, either may be read first.
LEMMA EitherFirst ==
    ASSUME NEW m, NEW e, Stored(m) \cap Stored(e) = {}
    PROVE  ContentOf(m, e) = ContentOf(e, m)
<1>1. \A k \in Keys : m[k] = None \/ e[k] = None
  BY DEF Stored
<1>2. \A k \in Keys : ContentOf(m, e)[k] = ContentOf(e, m)[k]
  BY <1>1 DEF ContentOf
<1> QED BY <1>2 DEF ContentOf

\* Storing under k, in one map, is a Put: the other loses k, whatever else goes.
LEMMA StoresAsPut ==
    ASSUME NEW m, NEW e, NEW k \in Keys, NEW x \in Sizes \cup Codes,
           NEW gone \in SUBSET (Keys \ {k}), Stored(m) \cap Stored(e) = {},
           NEW m1, Stores(m1, m, k, Entry(x), gone), NEW e1, Loses(e1, e, k)
    PROVE  \E forgotten \in SUBSET (Keys \ {k}) :
              Stores(ContentOf(m1, e1), ContentOf(m, e), k, x, forgotten)
<1> DEFINE c == ContentOf(m, e)
           c1 == ContentOf(m1, e1)
<1>0. /\ \A o \in Keys : c[o] = IF m[o] # None THEN m[o].item
                                ELSE IF e[o] # None THEN e[o].item ELSE None
      /\ \A o \in Keys : c1[o] = IF m1[o] # None THEN m1[o].item
                                 ELSE IF e1[o] # None THEN e1[o].item ELSE None
      /\ c1 = [o \in Keys |-> c1[o]]
  BY DEF ContentOf
<1> HIDE DEF c, c1
<1> DEFINE forgotten == gone \cap Stored(m)
<1>1. Entry(x) # None /\ Entry(x).item = x
  BY EntryIsSome DEF Entry
<1>2. ASSUME NEW o \in Keys
      PROVE  c1[o] = IF o = k THEN x ELSE IF o \in forgotten THEN None ELSE c[o]
  <2>1. CASE o = k
    BY <1>0, <1>1, <2>1 DEF Stores, Loses
  <2>2. CASE o # k /\ m[o] # None
    <3>1. o \in Stored(m) /\ e[o] = None
      BY <2>2 DEF Stored
    <3> QED BY <1>0, <2>2, <3>1 DEF Stores, Loses
  <2>3. CASE o # k /\ m[o] = None
    <3>1. o \notin Stored(m) /\ m1[o] = None
      BY <2>3 DEF Stored, Stores
    <3> QED BY <1>0, <2>3, <3>1 DEF Stores, Loses
  <2> QED BY <2>1, <2>2, <2>3
<1>3. forgotten \in SUBSET (Keys \ {k})
  OBVIOUS
<1> HIDE DEF forgotten
<1>4. Stores(c1, c, k, x, forgotten)
  BY <1>2 DEF Stores
<1> QED BY <1>3, <1>4 DEF c, c1

\* A store is a Put, an expiry that localGet finds a Forget, the rest stutters.
LEMMA StepImplements == StoreInv /\ StoreInv' /\ [Next]_vars => [Map!Next]_<<Content, last>>
<1> SUFFICES ASSUME StoreInv, StoreInv', [Next]_vars PROVE [Map!Next]_<<Content, last>>
  OBVIOUS
<1> DEFINE c == Content
           d == Content'
<1>1. /\ entries \in [Keys -> EntryType(Sizes)] /\ errEntries \in [Keys -> EntryType(Codes)]
      /\ Stored(entries) \cap Stored(errEntries) = {}
      /\ Stored(entries') \cap Stored(errEntries') = {}
  BY DEF StoreInv, ValuesKept, ErrorsKept, Values, Stored
<1>2. /\ c = [o \in Keys |-> c[o]] /\ d = [o \in Keys |-> d[o]]
      /\ \A o \in Keys :
            /\ c[o] = IF entries[o] # None THEN entries[o].item
                      ELSE IF errEntries[o] # None THEN errEntries[o].item ELSE None
            /\ d[o] = IF entries'[o] # None THEN entries'[o].item
                      ELSE IF errEntries'[o] # None THEN errEntries'[o].item ELSE None
  BY DEF Content
<1>3. c = ContentOf(entries, errEntries) /\ d = ContentOf(entries', errEntries')
  BY DEF Content, ContentOf
<1> DEFINE Puts(k, x) == /\ last' = [last EXCEPT ![k] = x]
                         /\ \E forgotten \in SUBSET (Keys \ {k}) :
                               d = [o \in Keys |-> IF o = k THEN x
                                                   ELSE IF o \in forgotten THEN None ELSE c[o]]
           Forgets(k) == d = [c EXCEPT ![k] = None] /\ UNCHANGED last
           Goal == \/ \E k \in Keys : Forgets(k) \/ \E x \in Sizes \cup Codes : Puts(k, x)
                   \/ d = c /\ UNCHANGED last
<1> HIDE DEF c, d
<1>4. ASSUME NEW k \in Keys, NEW size \in Sizes, StoreValue(k, size) PROVE Goal
  <2>1. PICK gone \in SUBSET (Keys \ {k}) :
            entries' = [o \in Keys |-> IF o = k THEN Entry(size)
                                       ELSE IF o \in gone THEN None ELSE entries[o]]
    BY <1>4, ValueStored
  <2>2. Loses(errEntries', errEntries, k)
    BY <1>1, <1>4 DEF StoreValue, Loses
  <2>3. size \in Sizes \cup Codes
    OBVIOUS
  <2>4. Stores(entries', entries, k, Entry(size), gone)
    BY <2>1 DEF Stores
  <2>5. PICK forgotten \in SUBSET (Keys \ {k}) :
            Stores(ContentOf(entries', errEntries'), ContentOf(entries, errEntries),
                   k, size, forgotten)
    BY <1>1, <2>2, <2>3, <2>4, StoresAsPut
  <2>6. Stores(d, c, k, size, forgotten)
    BY <1>1, <1>3, <2>5
  <2>7. d = [o \in Keys |-> IF o = k THEN size ELSE IF o \in forgotten THEN None ELSE c[o]]
    BY <1>2, <2>6 DEF Stores
  <2>8. Puts(k, size)
    BY <1>4, <2>7 DEF StoreValue
  <2> HIDE DEF Puts
  <2> QED BY <2>3, <2>8
<1>5. ASSUME NEW k \in Keys, NEW code \in Codes, StoreError(k, code) PROVE Goal
  <2>1. PICK gone \in SUBSET (Keys \ {k}) :
            errEntries' = [o \in Keys |-> IF o = k THEN Entry(code)
                                          ELSE IF o \in gone THEN None ELSE errEntries[o]]
    BY <1>5, ErrorStored
  <2>2. Loses(entries', entries, k)
    BY <1>1, <1>5 DEF StoreError, Loses
  <2>3. code \in Sizes \cup Codes
    OBVIOUS
  <2>4. Stores(errEntries', errEntries, k, Entry(code), gone)
    BY <2>1 DEF Stores
  <2>5. PICK forgotten \in SUBSET (Keys \ {k}) :
            Stores(ContentOf(errEntries', entries'), ContentOf(errEntries, entries),
                   k, code, forgotten)
    BY <1>1, <2>2, <2>3, <2>4, StoresAsPut
  <2>6. Stores(d, c, k, code, forgotten)
    BY <1>1, <1>3, <2>5, EitherFirst
  <2>7. d = [o \in Keys |-> IF o = k THEN code ELSE IF o \in forgotten THEN None ELSE c[o]]
    BY <1>2, <2>6 DEF Stores
  <2>8. Puts(k, code)
    BY <1>5, <2>7 DEF StoreError
  <2> HIDE DEF Puts
  <2> QED BY <2>3, <2>8
<1>6. ASSUME NEW k \in Keys, GetExpiredValue(k) PROVE Goal
  <2>1. /\ entries[k] # None /\ entries' = [entries EXCEPT ![k] = None]
        /\ errEntries' = errEntries /\ UNCHANGED last
    BY <1>6 DEF GetExpiredValue
  <2>2. errEntries[k] = None
    BY <1>1, <2>1 DEF Stored
  <2>3. \A o \in Keys : d[o] = IF o = k THEN None ELSE c[o]
    BY <1>1, <1>2, <2>1, <2>2
  <2>4. d = [c EXCEPT ![k] = None]
    BY <1>2, <2>3
  <2>5. Forgets(k)
    BY <2>1, <2>4
  <2> HIDE DEF Forgets, Puts
  <2> QED BY <2>5
<1>7. ASSUME NEW k \in Keys, GetExpiredError(k) PROVE Goal
  <2>1. /\ entries[k] = None /\ errEntries' = [errEntries EXCEPT ![k] = None]
        /\ entries' = entries /\ UNCHANGED last
    BY <1>7 DEF GetExpiredError
  <2>2. \A o \in Keys : d[o] = IF o = k THEN None ELSE c[o]
    BY <1>1, <1>2, <2>1
  <2>3. d = [c EXCEPT ![k] = None]
    BY <1>2, <2>2
  <2>4. Forgets(k)
    BY <2>1, <2>3
  <2> HIDE DEF Forgets, Puts
  <2> QED BY <2>4
<1>8. ASSUME NEW k \in Keys, Expire(k) PROVE Goal
  <2>1. UNCHANGED <<order, errOrder, usedBytes, last>>
    BY <1>8 DEF Expire
  <2>2. ASSUME entries[k] # None, entries' = [entries EXCEPT ![k].live = FALSE],
               UNCHANGED errEntries
        PROVE  d = c
    <3>1. /\ Stored(entries') = Stored(entries)
          /\ \A o \in Stored(entries) : entries'[o].item = entries[o].item
      BY <2>1, <2>2, ValueExpired DEF StoreInv
    <3>2. \A o \in Keys : d[o] = c[o]
      BY <1>2, <2>2, <3>1 DEF Stored
    <3> QED BY <1>2, <3>2
  <2>3. ASSUME errEntries[k] # None, errEntries' = [errEntries EXCEPT ![k].live = FALSE],
               UNCHANGED entries
        PROVE  d = c
    <3>1. /\ Stored(errEntries') = Stored(errEntries)
          /\ \A o \in Stored(errEntries) : errEntries'[o].item = errEntries[o].item
      BY <2>1, <2>3, ErrorExpired DEF StoreInv
    <3>2. \A o \in Keys : d[o] = c[o]
      BY <1>2, <2>3, <3>1 DEF Stored
    <3> QED BY <1>2, <3>2
  <2>4. d = c
    BY <1>8, <2>2, <2>3 DEF Expire
  <2> QED BY <2>1, <2>4
<1>9. ASSUME UNCHANGED vars PROVE Goal
  <2>1. \A o \in Keys : d[o] = c[o]
    BY <1>2, <1>9 DEF vars
  <2>2. d = c
    BY <1>2, <2>1
  <2> QED BY <1>9, <2>2 DEF vars
<1>10. Goal
  <2> HIDE DEF Goal
  <2> QED BY <1>4, <1>5, <1>6, <1>7, <1>8, <1>9 DEF Next, StoreTooLarge
<1> QED BY <1>10 DEF c, d, Map!Next, Map!Forget, Map!Put

\* An empty store is an empty map.
LEMMA InitImplements == Init => Map!Init
<1> SUFFICES ASSUME Init PROVE Content = [k \in Keys |-> None] /\ last = [k \in Keys |-> None]
  BY DEF Map!Init
<1>1. \A k \in Keys : entries[k] = None /\ errEntries[k] = None
  BY DEF Init
<1> QED BY <1>1 DEF Content, Init

\* To its callers the store is a map that may forget, and never answers with anything
\* except what was stored last under the key.
THEOREM Implements == Spec => ImplementsEntryMap
  BY StoreInvariant, StepImplements, InitImplements, PTL DEF Spec, ImplementsEntryMap, Map!Spec

=============================================================================

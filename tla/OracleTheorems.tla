--------------------------- MODULE OracleTheorems ---------------------------
(***************************************************************************)
(* What the proofs of the oracle keep needing, for every value: sums of    *)
(* power and the operators of OracleBallot, places in a sorted list, the   *)
(* arithmetic of blocks and periods, and the stores of OracleStores.       *)
(*                                                                         *)
(* MapThenSumSet of the community modules adds the elements in the order   *)
(* in which CHOOSE yields them; the facts about sums do not depend on it.  *)
(* Induction is over sets of numbers: a set that contains 0 and with every *)
(* number its successor contains them all.                                 *)
(***************************************************************************)
EXTENDS OracleBallot, OracleStores, FiniteSetTheorems, WellFoundedInduction, TLAPS

\* The sum of f over S.
SumOver(f, S) == MapThenSumSet(LAMBDA x : f[x], S)

\* f gives every element of U a natural number to add.
Weighs(f, U) == IsFiniteSet(U) /\ \A x \in U : f[x] \in Nat

-----------------------------------------------------------------------------
(* Induction. *)

\* A set of natural numbers that is not empty has a least element.
LEMMA LeastOf ==
  ASSUME NEW S \in SUBSET Nat, S # {}
  PROVE  \E i \in S : \A j \in S : i <= j
<1>1. PICK i \in S : \A j \in S : ~(<<j, i>> \in OpToRel(<, Nat))
  BY NatLessThanWellFounded, WFMin
<1>2. \A j \in S : ~(j < i)
  BY <1>1 DEF OpToRel
<1> QED
  BY <1>2

\* Induction over the natural numbers, for a set.
LEMMA SetInduction ==
  ASSUME NEW G, 0 \in G, \A n \in Nat : n \in G => (n + 1) \in G
  PROVE  \A n \in Nat : n \in G
<1> SUFFICES ASSUME Nat \ G # {} PROVE FALSE
  OBVIOUS
<1>1. PICK m \in Nat \ G : \A j \in Nat \ G : m <= j
  BY LeastOf
<1>2. m # 0 /\ (m - 1) \in Nat /\ (m - 1) \notin Nat \ G
  BY <1>1
<1>3. ((m - 1) + 1) \in G
  BY <1>2
<1> QED
  BY <1>1, <1>3

\* A finite set of integers that is not empty has a least and a greatest element.
LEMMA FiniteHasExtremes ==
  ASSUME NEW S \in SUBSET Int, IsFiniteSet(S), S # {}
  PROVE  /\ \E i \in S : \A j \in S : i <= j
         /\ \E i \in S : \A j \in S : i >= j
<1> DEFINE Has(T) == /\ \E i \in T : \A j \in T : i <= j
                     /\ \E i \in T : \A j \in T : i >= j
           G == {n \in Nat : \A T \in SUBSET S : Cardinality(T) = n + 1 => Has(T)}
<1>1. \A T \in SUBSET S : IsFiniteSet(T) /\ Cardinality(T) \in Nat
  BY FS_Subset, FS_CardinalityType
<1>2. 0 \in G
  <2> SUFFICES ASSUME NEW T \in SUBSET S, Cardinality(T) = 1 PROVE Has(T)
    OBVIOUS
  <2>1. PICK x : T = {x}
    BY <1>1, FS_Singleton
  <2> QED
    BY <2>1
<1>3. ASSUME NEW n \in Nat, n \in G PROVE (n + 1) \in G
  <2> SUFFICES ASSUME NEW T \in SUBSET S, Cardinality(T) = n + 2 PROVE Has(T)
    BY <1>3
  <2>1. PICK x : x \in T
    BY <1>1, FS_EmptySet
  <2>2. Cardinality(T \ {x}) = n + 1
    BY <1>1, <2>1, FS_RemoveElement
  <2>3. Has(T \ {x})
    BY <1>3, <2>2
  <2>4. x \in Int /\ \A j \in T : j \in Int
    BY <2>1
  <2>5. \E i \in T : \A j \in T : i <= j
    <3>1. PICK i \in T \ {x} : \A j \in T \ {x} : i <= j
      BY <2>3
    <3>2. \A j \in T : (IF i <= x THEN i ELSE x) <= j
      BY <2>4, <3>1
    <3> QED
      BY <2>1, <3>2
  <2>6. \E i \in T : \A j \in T : i >= j
    <3>1. PICK i \in T \ {x} : \A j \in T \ {x} : i >= j
      BY <2>3
    <3>2. \A j \in T : (IF i >= x THEN i ELSE x) >= j
      BY <2>4, <3>1
    <3> QED
      BY <2>1, <3>2
  <2> QED
    BY <2>5, <2>6
<1>4. Cardinality(S) \in Nat \ {0}
  BY <1>1, FS_EmptySet
<1>5. (Cardinality(S) - 1) \in G
  <2> HIDE DEF G
  <2> QED
    BY <1>2, <1>3, <1>4, SetInduction
<1> QED
  BY <1>4, <1>5

-----------------------------------------------------------------------------
(* The recursion of MapThenSumSet. *)

Chosen(s) == CHOOSE x \in s : TRUE

Iter(f, S) ==
  CHOOSE iter : iter = [s \in SUBSET S |->
    IF s = {} THEN 0 ELSE f[Chosen(s)] + iter[s \ {Chosen(s)}]]

\* What MapThenSumSet expands to.
LEMMA SumIsIter == \A f, S : SumOver(f, S) = Iter(f, S)[S]
  BY DEF SumOver, MapThenSumSet, MapThenFoldSet, Iter, Chosen

\* CHOOSE takes an element of a set that has one.
LEMMA ChosenIn == \A s : s # {} => Chosen(s) \in s
  BY DEF Chosen

\* A part of a set without its chosen element is smaller by one.
LEMMA Smaller ==
  ASSUME NEW U, IsFiniteSet(U), NEW s \in SUBSET U, s # {}, NEW x \in s
  PROVE  /\ IsFiniteSet(s) /\ Cardinality(s) \in Nat \ {0}
         /\ (s \ {x}) \in SUBSET U
         /\ Cardinality(s \ {x}) = Cardinality(s) - 1
<1>1. IsFiniteSet(s)
  BY FS_Subset
<1> QED
  BY <1>1, FS_RemoveElement, FS_CardinalityType, FS_EmptySet

\* The recursion has a solution: one for the sets of at most n elements extends to n + 1.
LEMMA IterExists ==
  ASSUME NEW f, NEW U, Weighs(f, U)
  PROVE  \E g \in [SUBSET U -> Nat] : \A s \in SUBSET U :
           g[s] = IF s = {} THEN 0 ELSE f[Chosen(s)] + g[s \ {Chosen(s)}]
<1> DEFINE Upto(n) == {s \in SUBSET U : Cardinality(s) <= n}
           Solves(g, n) == \A s \in Upto(n) :
             g[s] = IF s = {} THEN 0 ELSE f[Chosen(s)] + g[s \ {Chosen(s)}]
           G == {n \in Nat : \E g \in [Upto(n) -> Nat] : Solves(g, n)}
<1>1. IsFiniteSet(U) /\ \A x \in U : f[x] \in Nat
  BY DEF Weighs
<1>2. \A s \in SUBSET U : IsFiniteSet(s) /\ Cardinality(s) \in Nat
  BY <1>1, FS_Subset, FS_CardinalityType
<1>3. 0 \in G
  <2>1. Upto(0) = {{}}
    BY <1>2, FS_EmptySet
  <2>2. Solves([s \in Upto(0) |-> 0], 0)
    BY <2>1
  <2> QED
    BY <2>2
<1>4. ASSUME NEW n \in Nat, n \in G PROVE (n + 1) \in G
  <2>1. PICK g \in [Upto(n) -> Nat] : Solves(g, n)
    BY <1>4
  <2> DEFINE h == [s \in Upto(n + 1) |->
                     IF s = {} THEN 0 ELSE f[Chosen(s)] + g[s \ {Chosen(s)}]]
  <2>2. ASSUME NEW s \in Upto(n + 1), s # {}
        PROVE  Chosen(s) \in s /\ (s \ {Chosen(s)}) \in Upto(n) /\ f[Chosen(s)] \in Nat
    BY <1>1, <1>2, <2>2, Smaller, ChosenIn
  <2>3. h \in [Upto(n + 1) -> Nat]
    BY <2>2
  <2>4. \A s \in Upto(n) : s \in Upto(n + 1) /\ h[s] = g[s]
    <3>1. \A s \in Upto(n) : s \in Upto(n + 1)
      BY <1>2
    <3>2. \A s \in Upto(n) :
            g[s] = IF s = {} THEN 0 ELSE f[Chosen(s)] + g[s \ {Chosen(s)}]
      BY <2>1
    <3> HIDE DEF Upto
    <3> QED
      BY <3>1, <3>2
  <2>5. Solves(h, n + 1)
    <3> HIDE DEF Upto
    <3> SUFFICES ASSUME NEW s \in Upto(n + 1)
                 PROVE  h[s] = IF s = {} THEN 0 ELSE f[Chosen(s)] + h[s \ {Chosen(s)}]
      OBVIOUS
    <3>1. h[s] = IF s = {} THEN 0 ELSE f[Chosen(s)] + g[s \ {Chosen(s)}]
      OBVIOUS
    <3>2. s # {} => h[s \ {Chosen(s)}] = g[s \ {Chosen(s)}]
      BY <2>2, <2>4
    <3> QED
      BY <3>1, <3>2
  <2> HIDE DEF h, Solves, Upto
  <2> QED
    BY <2>3, <2>5
<1>5. Cardinality(U) \in G
  <2> HIDE DEF G
  <2> QED
    BY <1>1, <1>3, <1>4, FS_CardinalityType, SetInduction
<1>6. Upto(Cardinality(U)) = SUBSET U
  BY <1>1, FS_Subset
<1> QED
  BY <1>5, <1>6

\* So the function that CHOOSE takes is one, and its values are natural numbers.
LEMMA IterSolves ==
  ASSUME NEW f, NEW U, Weighs(f, U)
  PROVE  \A s \in SUBSET U :
           /\ Iter(f, U)[s] \in Nat
           /\ Iter(f, U)[s] = IF s = {} THEN 0
                              ELSE f[Chosen(s)] + Iter(f, U)[s \ {Chosen(s)}]
<1>1. PICK g \in [SUBSET U -> Nat] : \A s \in SUBSET U :
           g[s] = IF s = {} THEN 0 ELSE f[Chosen(s)] + g[s \ {Chosen(s)}]
  BY IterExists
<1>2. g = [s \in SUBSET U |-> IF s = {} THEN 0 ELSE f[Chosen(s)] + g[s \ {Chosen(s)}]]
  BY <1>1
<1> DEFINE k == Iter(f, U)
<1>3. k = [s \in SUBSET U |-> IF s = {} THEN 0 ELSE f[Chosen(s)] + k[s \ {Chosen(s)}]]
  BY <1>2 DEF Iter
<1> HIDE DEF k
<1> DEFINE G == {n \in Nat : \A s \in SUBSET U : Cardinality(s) = n => k[s] \in Nat}
<1>4. IsFiniteSet(U) /\ \A x \in U : f[x] \in Nat
  BY DEF Weighs
<1>5. \A s \in SUBSET U : IsFiniteSet(s) /\ Cardinality(s) \in Nat
  BY <1>4, FS_Subset, FS_CardinalityType
<1>6. 0 \in G
  BY <1>3, <1>5, FS_EmptySet
<1>7. ASSUME NEW n \in Nat, n \in G PROVE (n + 1) \in G
  <2> SUFFICES ASSUME NEW s \in SUBSET U, Cardinality(s) = n + 1 PROVE k[s] \in Nat
    OBVIOUS
  <2>1. s # {}
    BY FS_EmptySet
  <2>2. Chosen(s) \in s /\ (s \ {Chosen(s)}) \in SUBSET U
        /\ Cardinality(s \ {Chosen(s)}) = n
    BY <1>4, <2>1, Smaller, ChosenIn
  <2>3. k[s] = f[Chosen(s)] + k[s \ {Chosen(s)}]
    BY <1>3, <2>1
  <2> QED
    BY <1>4, <1>7, <2>2, <2>3
<1>8. \A s \in SUBSET U : k[s] \in Nat
  <2>1. \A n \in Nat : n \in G
    <3> HIDE DEF G
    <3> QED
      BY <1>6, <1>7, SetInduction
  <2> QED
    BY <1>5, <2>1
<1>9. \A s \in SUBSET U : k[s] = IF s = {} THEN 0 ELSE f[Chosen(s)] + k[s \ {Chosen(s)}]
  BY <1>3
<1> QED
  BY <1>8, <1>9 DEF k

\* Solutions for two sets agree on what the sets have in common.
LEMMA IterAgrees ==
  ASSUME NEW f, NEW U, Weighs(f, U), NEW S \in SUBSET U
  PROVE  \A s \in SUBSET S : Iter(f, U)[s] = Iter(f, S)[s]
<1> DEFINE G == {n \in Nat : \A s \in SUBSET S :
                   Cardinality(s) = n => Iter(f, U)[s] = Iter(f, S)[s]}
<1>1. IsFiniteSet(U) /\ IsFiniteSet(S) /\ Weighs(f, S)
  BY FS_Subset DEF Weighs
<1>2. \A s \in SUBSET S : IsFiniteSet(s) /\ Cardinality(s) \in Nat
  BY <1>1, FS_Subset, FS_CardinalityType
<1>3. 0 \in G
  BY <1>1, <1>2, FS_EmptySet, IterSolves
<1>4. ASSUME NEW n \in Nat, n \in G PROVE (n + 1) \in G
  <2> SUFFICES ASSUME NEW s \in SUBSET S, Cardinality(s) = n + 1
               PROVE  Iter(f, U)[s] = Iter(f, S)[s]
    OBVIOUS
  <2>1. s # {}
    BY FS_EmptySet
  <2>2. Chosen(s) \in s /\ (s \ {Chosen(s)}) \in SUBSET S
        /\ Cardinality(s \ {Chosen(s)}) = n
    BY <1>1, <2>1, Smaller, ChosenIn
  <2>3. Iter(f, U)[s \ {Chosen(s)}] = Iter(f, S)[s \ {Chosen(s)}]
    BY <1>4, <2>2
  <2>4. Iter(f, U)[s] = f[Chosen(s)] + Iter(f, U)[s \ {Chosen(s)}]
    BY <2>1, IterSolves
  <2>5. Iter(f, S)[s] = f[Chosen(s)] + Iter(f, S)[s \ {Chosen(s)}]
    BY <1>1, <2>1, IterSolves
  <2> QED
    BY <2>3, <2>4, <2>5
<1>5. \A n \in Nat : n \in G
  <2> HIDE DEF G
  <2> QED
    BY <1>3, <1>4, SetInduction
<1> QED
  BY <1>2, <1>5

-----------------------------------------------------------------------------
(* Facts about sums. *)

\* A sum of natural numbers is one, and the empty sum is 0.
LEMMA SumType ==
  ASSUME NEW f, NEW U, Weighs(f, U)
  PROVE  /\ \A S \in SUBSET U : Weighs(f, S) /\ SumOver(f, S) \in Nat
         /\ SumOver(f, {}) = 0
<1>1. ASSUME NEW S \in SUBSET U PROVE Weighs(f, S) /\ SumOver(f, S) \in Nat
  <2>1. Weighs(f, S)
    BY FS_Subset DEF Weighs
  <2> QED
    BY <2>1, SumIsIter, IterSolves
<1>2. SumOver(f, {}) = 0
  <2>1. Weighs(f, {})
    BY <1>1
  <2> QED
    BY <2>1, SumIsIter, IterSolves
<1> QED
  BY <1>1, <1>2

\* The sum over a set takes the weight of the chosen element first.
LEMMA SumUnfolds ==
  ASSUME NEW f, NEW S, Weighs(f, S), S # {}
  PROVE  SumOver(f, S) = f[Chosen(S)] + SumOver(f, S \ {Chosen(S)})
<1>1. SumOver(f, S) = f[Chosen(S)] + Iter(f, S)[S \ {Chosen(S)}]
  BY SumIsIter, IterSolves
<1>2. Iter(f, S)[S \ {Chosen(S)}] = SumOver(f, S \ {Chosen(S)})
  BY SumIsIter, IterAgrees
<1> QED
  BY <1>1, <1>2

\* The order does not matter: any element may be taken first.
LEMMA SumRemove ==
  ASSUME NEW f, NEW U, Weighs(f, U)
  PROVE  \A S \in SUBSET U : \A x \in S : SumOver(f, S) = f[x] + SumOver(f, S \ {x})
<1> DEFINE G == {n \in Nat : \A S \in SUBSET U : Cardinality(S) = n =>
                   \A x \in S : SumOver(f, S) = f[x] + SumOver(f, S \ {x})}
<1>1. IsFiniteSet(U) /\ \A x \in U : f[x] \in Nat
  BY DEF Weighs
<1>2. \A s \in SUBSET U : IsFiniteSet(s) /\ Cardinality(s) \in Nat
  BY <1>1, FS_Subset, FS_CardinalityType
<1>3. 0 \in G
  BY <1>2, FS_EmptySet
<1>4. ASSUME NEW n \in Nat, n \in G PROVE (n + 1) \in G
  <2> SUFFICES ASSUME NEW S \in SUBSET U, Cardinality(S) = n + 1, NEW x \in S
               PROVE  SumOver(f, S) = f[x] + SumOver(f, S \ {x})
    OBVIOUS
  <2> DEFINE c == Chosen(S)
  <2>1. c \in S /\ S # {}
    BY ChosenIn
  <2> HIDE DEF c
  <2>2. SumOver(f, S) = f[c] + SumOver(f, S \ {c})
    BY <2>1, SumUnfolds, SumType DEF c
  <2>3. CASE c = x
    BY <2>2, <2>3
  <2>4. CASE c # x
    <3>1. /\ (S \ {c}) \in SUBSET U /\ Cardinality(S \ {c}) = n /\ x \in S \ {c}
          /\ (S \ {x}) \in SUBSET U /\ Cardinality(S \ {x}) = n /\ c \in S \ {x}
      BY <1>1, <2>1, <2>4, Smaller
    <3>2. SumOver(f, S \ {c}) = f[x] + SumOver(f, (S \ {c}) \ {x})
      BY <1>4, <3>1
    <3>3. SumOver(f, S \ {x}) = f[c] + SumOver(f, (S \ {x}) \ {c})
      BY <1>4, <3>1
    <3>4. SumOver(f, (S \ {c}) \ {x}) = SumOver(f, (S \ {x}) \ {c})
      <4>1. (S \ {c}) \ {x} = (S \ {x}) \ {c}
        OBVIOUS
      <4> QED
        BY <4>1
    <3>5. SumOver(f, (S \ {c}) \ {x}) \in Nat /\ f[x] \in Nat /\ f[c] \in Nat
      BY <1>1, <2>1, SumType
    <3> QED
      BY <2>2, <3>2, <3>3, <3>4, <3>5
  <2> QED
    BY <2>3, <2>4
<1>5. \A n \in Nat : n \in G
  <2> HIDE DEF G
  <2> QED
    BY <1>3, <1>4, SetInduction
<1> QED
  BY <1>2, <1>5

\* The sum over two sets without a common element is the sum of the sums.
LEMMA SumUnion ==
  ASSUME NEW f, NEW U, Weighs(f, U), NEW S \in SUBSET U, NEW T \in SUBSET U,
         S \intersect T = {}
  PROVE  SumOver(f, S \union T) = SumOver(f, S) + SumOver(f, T)
<1> DEFINE G == {n \in Nat : \A V \in SUBSET T : Cardinality(V) = n =>
                   SumOver(f, S \union V) = SumOver(f, S) + SumOver(f, V)}
<1>1. IsFiniteSet(U) /\ \A x \in U : f[x] \in Nat
  BY DEF Weighs
<1>2. \A s \in SUBSET U : IsFiniteSet(s) /\ Cardinality(s) \in Nat /\ SumOver(f, s) \in Nat
  BY <1>1, FS_Subset, FS_CardinalityType, SumType
<1>3. 0 \in G
  <2> SUFFICES ASSUME NEW V \in SUBSET T, Cardinality(V) = 0
               PROVE  SumOver(f, S \union V) = SumOver(f, S) + SumOver(f, V)
    OBVIOUS
  <2>1. V = {} /\ S \union V = S
    BY <1>2, FS_EmptySet
  <2> QED
    BY <1>2, <2>1, SumType
<1>4. ASSUME NEW n \in Nat, n \in G PROVE (n + 1) \in G
  <2> SUFFICES ASSUME NEW V \in SUBSET T, Cardinality(V) = n + 1
               PROVE  SumOver(f, S \union V) = SumOver(f, S) + SumOver(f, V)
    OBVIOUS
  <2>1. PICK x : x \in V
    BY FS_EmptySet
  <2>2. (V \ {x}) \in SUBSET T /\ Cardinality(V \ {x}) = n
    BY <1>1, <2>1, Smaller
  <2>3. SumOver(f, S \union (V \ {x})) = SumOver(f, S) + SumOver(f, V \ {x})
    BY <1>4, <2>2
  <2>4. SumOver(f, V) = f[x] + SumOver(f, V \ {x})
    BY <2>1, SumRemove
  <2>5. SumOver(f, S \union V) = f[x] + SumOver(f, (S \union V) \ {x})
    BY <2>1, SumRemove
  <2>6. SumOver(f, (S \union V) \ {x}) = SumOver(f, S \union (V \ {x}))
    <3>1. (S \union V) \ {x} = S \union (V \ {x})
      BY <2>1
    <3> QED
      BY <3>1
  <2>7. f[x] \in Nat /\ SumOver(f, S) \in Nat /\ SumOver(f, V \ {x}) \in Nat
    BY <1>1, <1>2, <2>1
  <2> QED
    BY <2>3, <2>4, <2>5, <2>6, <2>7
<1>5. \A n \in Nat : n \in G
  <2> HIDE DEF G
  <2> QED
    BY <1>3, <1>4, SetInduction
<1> QED
  BY <1>2, <1>5

\* A part of a set and the rest of it.
LEMMA SumSplit ==
  ASSUME NEW f, NEW U, Weighs(f, U), NEW S \in SUBSET U, NEW T \in SUBSET S
  PROVE  /\ SumOver(f, S) = SumOver(f, T) + SumOver(f, S \ T)
         /\ SumOver(f, T) <= SumOver(f, S)
<1>1. T \union (S \ T) = S /\ T \intersect (S \ T) = {}
  OBVIOUS
<1>2. SumOver(f, S) = SumOver(f, T) + SumOver(f, S \ T)
  <2>1. T \in SUBSET U /\ (S \ T) \in SUBSET U
    OBVIOUS
  <2> QED
    BY <1>1, <2>1, SumUnion
<1>3. SumOver(f, T) \in Nat /\ SumOver(f, S \ T) \in Nat
  BY SumType
<1> QED
  BY <1>2, <1>3

\* A weight that is not smaller anywhere has a sum that is not smaller.
LEMMA SumMonotone ==
  ASSUME NEW f, NEW g, NEW U, Weighs(f, U), Weighs(g, U), \A x \in U : f[x] <= g[x]
  PROVE  \A S \in SUBSET U : SumOver(f, S) <= SumOver(g, S)
<1> DEFINE G == {n \in Nat : \A S \in SUBSET U : Cardinality(S) = n =>
                   SumOver(f, S) <= SumOver(g, S)}
<1>1. IsFiniteSet(U) /\ \A x \in U : f[x] \in Nat /\ g[x] \in Nat
  BY DEF Weighs
<1>2. \A s \in SUBSET U : IsFiniteSet(s) /\ Cardinality(s) \in Nat
                          /\ SumOver(f, s) \in Nat /\ SumOver(g, s) \in Nat
  BY <1>1, FS_Subset, FS_CardinalityType, SumType
<1>3. 0 \in G
  <2> SUFFICES ASSUME NEW S \in SUBSET U, Cardinality(S) = 0
               PROVE  SumOver(f, S) <= SumOver(g, S)
    OBVIOUS
  <2>1. S = {}
    BY <1>2, FS_EmptySet
  <2> QED
    BY <2>1, SumType
<1>4. ASSUME NEW n \in Nat, n \in G PROVE (n + 1) \in G
  <2> SUFFICES ASSUME NEW S \in SUBSET U, Cardinality(S) = n + 1
               PROVE  SumOver(f, S) <= SumOver(g, S)
    OBVIOUS
  <2>1. PICK x : x \in S
    BY FS_EmptySet
  <2>2. (S \ {x}) \in SUBSET U /\ Cardinality(S \ {x}) = n
    BY <1>1, <2>1, Smaller
  <2>3. SumOver(f, S \ {x}) <= SumOver(g, S \ {x})
    BY <1>4, <2>2
  <2>4. SumOver(f, S) = f[x] + SumOver(f, S \ {x})
    BY <2>1, SumRemove
  <2>5. SumOver(g, S) = g[x] + SumOver(g, S \ {x})
    BY <2>1, SumRemove
  <2>6. f[x] \in Nat /\ g[x] \in Nat /\ f[x] <= g[x]
    BY <1>1, <2>1
  <2> QED
    BY <1>2, <2>2, <2>3, <2>4, <2>5, <2>6
<1>5. \A n \in Nat : n \in G
  <2> HIDE DEF G
  <2> QED
    BY <1>3, <1>4, SetInduction
<1> QED
  BY <1>2, <1>5

\* The sum of two weights is the weight of their sums.
LEMMA SumAdd ==
  ASSUME NEW f, NEW g, NEW h, NEW U, Weighs(f, U), Weighs(g, U),
         \A x \in U : h[x] = f[x] + g[x]
  PROVE  \A S \in SUBSET U : SumOver(h, S) = SumOver(f, S) + SumOver(g, S)
<1> DEFINE G == {n \in Nat : \A S \in SUBSET U : Cardinality(S) = n =>
                   SumOver(h, S) = SumOver(f, S) + SumOver(g, S)}
<1>1. IsFiniteSet(U) /\ \A x \in U : f[x] \in Nat /\ g[x] \in Nat /\ h[x] = f[x] + g[x]
  BY DEF Weighs
<1>2. Weighs(h, U)
  BY <1>1 DEF Weighs
<1>3. \A s \in SUBSET U : IsFiniteSet(s) /\ Cardinality(s) \in Nat
                          /\ SumOver(f, s) \in Nat /\ SumOver(g, s) \in Nat
  BY <1>1, FS_Subset, FS_CardinalityType, SumType
<1>4. 0 \in G
  <2> SUFFICES ASSUME NEW S \in SUBSET U, Cardinality(S) = 0
               PROVE  SumOver(h, S) = SumOver(f, S) + SumOver(g, S)
    OBVIOUS
  <2>1. S = {}
    BY <1>3, FS_EmptySet
  <2>2. SumOver(f, {}) = 0 /\ SumOver(g, {}) = 0
    BY SumType
  <2>3. SumOver(h, {}) = 0
    BY <1>2, SumType
  <2> QED
    BY <2>1, <2>2, <2>3
<1>5. ASSUME NEW n \in Nat, n \in G PROVE (n + 1) \in G
  <2> SUFFICES ASSUME NEW S \in SUBSET U, Cardinality(S) = n + 1
               PROVE  SumOver(h, S) = SumOver(f, S) + SumOver(g, S)
    OBVIOUS
  <2>1. PICK x : x \in S
    BY FS_EmptySet
  <2>2. (S \ {x}) \in SUBSET U /\ Cardinality(S \ {x}) = n
    BY <1>1, <2>1, Smaller
  <2>3. SumOver(h, S \ {x}) = SumOver(f, S \ {x}) + SumOver(g, S \ {x})
    BY <1>5, <2>2
  <2>4. SumOver(f, S) = f[x] + SumOver(f, S \ {x})
    BY <2>1, SumRemove
  <2>5. SumOver(g, S) = g[x] + SumOver(g, S \ {x})
    BY <2>1, SumRemove
  <2>6. SumOver(h, S) = h[x] + SumOver(h, S \ {x})
    BY <1>2, <2>1, SumRemove
  <2>7. f[x] \in Nat /\ g[x] \in Nat /\ h[x] = f[x] + g[x]
    BY <1>1, <2>1
  <2> QED
    BY <1>3, <2>2, <2>3, <2>4, <2>5, <2>6, <2>7
<1>6. \A n \in Nat : n \in G
  <2> HIDE DEF G
  <2> QED
    BY <1>4, <1>5, SetInduction
<1> QED
  BY <1>3, <1>6

\* A sum of weights that are at most c is at most so many times c.
LEMMA SumBound ==
  ASSUME NEW f, NEW U, Weighs(f, U), NEW c \in Nat, \A x \in U : f[x] <= c
  PROVE  \A S \in SUBSET U : SumOver(f, S) <= Cardinality(S) * c
<1> DEFINE G == {n \in Nat : \A S \in SUBSET U : Cardinality(S) = n =>
                   SumOver(f, S) <= n * c}
<1>1. IsFiniteSet(U) /\ \A x \in U : f[x] \in Nat
  BY DEF Weighs
<1>2. \A s \in SUBSET U : IsFiniteSet(s) /\ Cardinality(s) \in Nat /\ SumOver(f, s) \in Nat
  BY <1>1, FS_Subset, FS_CardinalityType, SumType
<1>3. 0 \in G
  <2> SUFFICES ASSUME NEW S \in SUBSET U, Cardinality(S) = 0
               PROVE  SumOver(f, S) <= 0 * c
    OBVIOUS
  <2>1. S = {}
    BY <1>2, FS_EmptySet
  <2>2. SumOver(f, {}) = 0
    BY SumType
  <2> QED
    BY <2>1, <2>2
<1>4. ASSUME NEW n \in Nat, n \in G PROVE (n + 1) \in G
  <2> SUFFICES ASSUME NEW S \in SUBSET U, Cardinality(S) = n + 1
               PROVE  SumOver(f, S) <= (n + 1) * c
    OBVIOUS
  <2>1. PICK x : x \in S
    BY FS_EmptySet
  <2>2. (S \ {x}) \in SUBSET U /\ Cardinality(S \ {x}) = n
    BY <1>1, <2>1, Smaller
  <2>3. SumOver(f, S \ {x}) <= n * c
    BY <1>4, <2>2
  <2>4. SumOver(f, S) = f[x] + SumOver(f, S \ {x})
    BY <2>1, SumRemove
  <2>5. f[x] \in Nat /\ f[x] <= c /\ SumOver(f, S \ {x}) \in Nat
    BY <1>1, <1>2, <2>1, <2>2
  <2>6. (n + 1) * c = (n * c) + c /\ n * c \in Nat
    OBVIOUS
  <2> QED
    BY <2>3, <2>4, <2>5, <2>6
<1>5. \A n \in Nat : n \in G
  <2> HIDE DEF G
  <2> QED
    BY <1>3, <1>4, SetInduction
<1> QED
  BY <1>2, <1>5

\* A weight that agrees with g on T and is nothing outside of it has the sum of g over T.
LEMMA SumPart ==
  ASSUME NEW f, NEW g, NEW U, Weighs(f, U), NEW T \in SUBSET U,
         \A x \in T : f[x] = g[x], \A x \in U \ T : f[x] = 0
  PROVE  SumOver(f, U) = SumOver(g, T)
<1>1. IsFiniteSet(T) /\ IsFiniteSet(U \ T)
  BY FS_Subset DEF Weighs
<1>2. Weighs(f, T) /\ Weighs(g, T) /\ Weighs(f, U \ T)
  BY <1>1 DEF Weighs
<1>3. SumOver(f, T) <= SumOver(g, T)
  <2>1. \A x \in T : f[x] <= g[x]
    BY <1>2 DEF Weighs
  <2>2. \A S \in SUBSET T : SumOver(f, S) <= SumOver(g, S)
    BY <1>2, <2>1, SumMonotone
  <2> QED
    BY <2>2
<1>4. SumOver(g, T) <= SumOver(f, T)
  <2>1. \A x \in T : g[x] <= f[x]
    BY <1>2 DEF Weighs
  <2>2. \A S \in SUBSET T : SumOver(g, S) <= SumOver(f, S)
    BY <1>2, <2>1, SumMonotone
  <2> QED
    BY <2>2
<1>5. SumOver(f, U \ T) <= 0
  <2> DEFINE R == U \ T
  <2>1. \A x \in R : f[x] <= 0
    OBVIOUS
  <2>2. Cardinality(R) \in Nat
    BY <1>1, FS_CardinalityType
  <2> HIDE DEF R
  <2>3. Weighs(f, R)
    BY <1>2 DEF R
  <2>4. \A S \in SUBSET R : SumOver(f, S) <= Cardinality(S) * 0
    BY <2>1, <2>3, SumBound
  <2>5. SumOver(f, R) <= Cardinality(R) * 0
    BY <2>4
  <2> QED
    BY <2>2, <2>5 DEF R
<1>6. SumOver(f, T) \in Nat /\ SumOver(f, U \ T) \in Nat
  BY SumType
<1>7. SumOver(g, T) \in Nat
  BY <1>2, SumType
<1>8. SumOver(f, U) = SumOver(f, T) + SumOver(f, U \ T)
  BY SumSplit
<1> QED
  BY <1>3, <1>4, <1>5, <1>6, <1>7, <1>8

-----------------------------------------------------------------------------
(* Sorting. *)

\* Rates of finitely many keys, which are numbers: prices by the block of their stamp, votes
\* by voter.
IsRated(p) ==
  /\ IsFiniteSet(DOMAIN p)
  /\ DOMAIN p \subseteq Int
  /\ \A b \in DOMAIN p : p[b] \in Nat

\* The entries that are sorted before that of b, itself included: by rate, then by key.
UpTo(p, b) == {c \in DOMAIN p : p[c] < p[b] \/ (p[c] = p[b] /\ c <= b)}

\* The place of b in the sorted list.
Place(p, b) == Cardinality(UpTo(p, b))

\* A place is one of the list.
LEMMA PlaceType ==
  ASSUME NEW p, IsRated(p), NEW b \in DOMAIN p
  PROVE  /\ IsFiniteSet(UpTo(p, b))
         /\ Cardinality(DOMAIN p) \in Nat
         /\ Place(p, b) \in 1..Cardinality(DOMAIN p)
<1>1. UpTo(p, b) \in SUBSET DOMAIN p /\ b \in UpTo(p, b)
  BY DEF UpTo, IsRated
<1>2. IsFiniteSet(UpTo(p, b)) /\ Cardinality(UpTo(p, b)) <= Cardinality(DOMAIN p)
  BY <1>1, FS_Subset DEF IsRated
<1>3. Cardinality(DOMAIN p) \in Nat /\ Cardinality(UpTo(p, b)) \in Nat
  BY <1>2, FS_CardinalityType DEF IsRated
<1>4. Cardinality(UpTo(p, b)) # 0
  BY <1>1, <1>2, FS_EmptySet
<1> QED
  BY <1>2, <1>3, <1>4 DEF Place

\* Of two entries the one that is sorted first has the earlier place.
LEMMA PlaceOrder ==
  ASSUME NEW p, IsRated(p), NEW b \in DOMAIN p, NEW c \in DOMAIN p, b # c, c \in UpTo(p, b)
  PROVE  Place(p, c) < Place(p, b)
<1>1. /\ b \in Int /\ c \in Int
      /\ \A e \in DOMAIN p : e \in Int /\ p[e] \in Nat
  BY DEF IsRated
<1>2. b \notin UpTo(p, c) /\ b \in UpTo(p, b)
  BY <1>1 DEF UpTo
<1>3. UpTo(p, c) \in SUBSET UpTo(p, b)
  BY <1>1 DEF UpTo
<1>4. IsFiniteSet(UpTo(p, b)) /\ Place(p, b) \in Nat /\ Place(p, c) \in Nat
  BY PlaceType
<1>5. /\ Cardinality(UpTo(p, c)) <= Cardinality(UpTo(p, b))
      /\ Cardinality(UpTo(p, b)) = Cardinality(UpTo(p, c)) => UpTo(p, b) = UpTo(p, c)
  BY <1>3, <1>4, FS_Subset
<1> QED
  BY <1>2, <1>4, <1>5 DEF Place

\* Places are different and in the order of the rates.
LEMMA PlaceSorts ==
  ASSUME NEW p, IsRated(p), NEW b \in DOMAIN p, NEW c \in DOMAIN p
  PROVE  /\ Place(p, b) = Place(p, c) => b = c
         /\ Place(p, b) <= Place(p, c) => p[b] <= p[c]
<1>1. Place(p, b) \in Nat /\ Place(p, c) \in Nat
  BY PlaceType
<1>2. b # c /\ c \in UpTo(p, b) => Place(p, c) < Place(p, b)
  BY PlaceOrder
<1>3. b # c /\ b \in UpTo(p, c) => Place(p, b) < Place(p, c)
  BY PlaceOrder
<1>4. b \in Int /\ c \in Int /\ p[b] \in Nat /\ p[c] \in Nat
  BY DEF IsRated
<1>5. b \in UpTo(p, c) \/ c \in UpTo(p, b)
  BY <1>4 DEF UpTo
<1>6. p[b] > p[c] => c \in UpTo(p, b) /\ b # c
  BY <1>4 DEF UpTo
<1> QED
  BY <1>1, <1>2, <1>3, <1>4, <1>5, <1>6

\* Every place of the list is taken, by one entry.
LEMMA PlaceTaken ==
  ASSUME NEW p, IsRated(p), NEW i \in 1..Cardinality(DOMAIN p)
  PROVE  \E b \in DOMAIN p : Place(p, b) = i
<1> DEFINE n == Cardinality(DOMAIN p)
           f == [b \in DOMAIN p |-> Place(p, b)]
<1>1. n \in Nat
  BY FS_CardinalityType DEF IsRated
<1>2. f \in Injection(DOMAIN p, 1..n)
  <2>1. \A b \in DOMAIN p : Place(p, b) \in 1..n
    BY PlaceType
  <2>2. \A b, c \in DOMAIN p : Place(p, b) = Place(p, c) => b = c
    BY PlaceSorts
  <2> QED
    BY <2>1, <2>2 DEF Injection, IsInjective
<1>3. IsFiniteSet(1..n) /\ Cardinality(1..n) = n
  <2>1. IsFiniteSet(1..n) /\ Cardinality(1..n) = IF 1 > n THEN 0 ELSE (n - 1) + 1
    BY <1>1, FS_Interval
  <2> QED
    BY <1>1, <2>1
<1>4. f \in Surjection(DOMAIN p, 1..n)
  <2> HIDE DEF f
  <2> QED
    BY <1>2, <1>3, FS_Injection
<1>5. \E s \in DOMAIN p : f[s] = i
  <2> HIDE DEF f
  <2> QED
    BY <1>4 DEF Surjection
<1> QED
  BY <1>5

-----------------------------------------------------------------------------
(* Ballots. *)

\* A ballot on which every voter has a rate and a power.
IsBallot(ballot, power) ==
  /\ IsFiniteSet(DOMAIN ballot)
  /\ \A v \in DOMAIN ballot : ballot[v] \in Nat /\ power[v] \in Nat

RatesOf(ballot) == {ballot[v] : v \in DOMAIN ballot}

HalfOf(ballot, power) == PowerOf(power, DOMAIN ballot) \div 2

\* The power of voters is a sum.
LEMMA PowerIsSum == \A power, S : PowerOf(power, S) = SumOver(power, S)
  BY DEF PowerOf, SumOver

\* The least and the greatest element of a finite set of integers.
LEMMA ExtremesOf ==
  ASSUME NEW S \in SUBSET Int, IsFiniteSet(S), S # {}
  PROVE  /\ Min(S) \in S /\ \A x \in S : Min(S) <= x
         /\ Max(S) \in S /\ \A x \in S : Max(S) >= x
<1>1. /\ \E i \in S : \A j \in S : i <= j
      /\ \E i \in S : \A j \in S : i >= j
  BY FiniteHasExtremes
<1>2. Min(S) \in S /\ \A x \in S : Min(S) <= x
  BY <1>1 DEF Min
<1>3. Max(S) \in S /\ \A x \in S : Max(S) >= x
  BY <1>1 DEF Max
<1> QED
  BY <1>2, <1>3

\* The rates of finitely many voters are finitely many.
LEMMA RatesFinite ==
  ASSUME NEW ballot, NEW S \in SUBSET DOMAIN ballot, IsFiniteSet(S),
         \A v \in S : ballot[v] \in Nat
  PROVE  LET rates == {ballot[v] : v \in S}
         IN  rates \in SUBSET Int /\ IsFiniteSet(rates) /\ (rates = {} => S = {})
<1> DEFINE rates == {ballot[v] : v \in S}
           f == [v \in S |-> ballot[v]]
<1>1. f \in Surjection(S, rates)
  BY DEF Surjection
<1>2. IsFiniteSet(rates)
  BY <1>1, FS_Surjection
<1> QED
  BY <1>2

\* The power of some of a ballot's voters.
LEMMA PowerFacts ==
  ASSUME NEW ballot, NEW power, IsBallot(ballot, power)
  PROVE  /\ \A S \in SUBSET DOMAIN ballot : PowerOf(power, S) \in Nat
         /\ \A S \in SUBSET DOMAIN ballot : \A T \in SUBSET S :
              /\ PowerOf(power, T) <= PowerOf(power, S)
              /\ PowerOf(power, S) = PowerOf(power, T) + PowerOf(power, S \ T)
         /\ HalfOf(ballot, power) \in Nat
         /\ 2 * HalfOf(ballot, power) <= PowerOf(power, DOMAIN ballot)
<1>1. Weighs(power, DOMAIN ballot)
  BY DEF IsBallot, Weighs
<1>2. \A S \in SUBSET DOMAIN ballot : PowerOf(power, S) \in Nat
  BY <1>1, SumType, PowerIsSum
<1>3. ASSUME NEW S \in SUBSET DOMAIN ballot, NEW T \in SUBSET S
      PROVE  /\ PowerOf(power, T) <= PowerOf(power, S)
             /\ PowerOf(power, S) = PowerOf(power, T) + PowerOf(power, S \ T)
  <2>1. /\ SumOver(power, T) <= SumOver(power, S)
        /\ SumOver(power, S) = SumOver(power, T) + SumOver(power, S \ T)
    BY <1>1, SumSplit
  <2> QED
    BY <2>1, PowerIsSum
<1>4. PowerOf(power, DOMAIN ballot) \in Nat
  BY <1>2
<1>5. /\ HalfOf(ballot, power) \in Nat
      /\ 2 * HalfOf(ballot, power) <= PowerOf(power, DOMAIN ballot)
  BY <1>4 DEF HalfOf
<1> QED
  BY <1>2, <1>3, <1>5

\* WeightedMedian returns a rate that was voted, and the first one up to which half of
\* the power has voted.
LEMMA MedianIsFirst ==
  ASSUME NEW ballot, NEW power, IsBallot(ballot, power), DOMAIN ballot # {}
  PROVE  /\ WeightedMedian(ballot, power) \in RatesOf(ballot)
         /\ WeightedMedian(ballot, power) \in Nat
         /\ PowerOf(power, VotersUpTo(ballot, WeightedMedian(ballot, power)))
              >= HalfOf(ballot, power)
         /\ \A r \in RatesOf(ballot) :
              PowerOf(power, VotersUpTo(ballot, r)) >= HalfOf(ballot, power)
                => WeightedMedian(ballot, power) <= r
<1> DEFINE stops == {r \in RatesOf(ballot) :
                       PowerOf(power, VotersUpTo(ballot, r)) >= HalfOf(ballot, power)}
<1>1. /\ RatesOf(ballot) \in SUBSET Int /\ IsFiniteSet(RatesOf(ballot))
      /\ RatesOf(ballot) # {} /\ RatesOf(ballot) \subseteq Nat
  BY RatesFinite DEF IsBallot, RatesOf
<1>2. stops # {}
  <2> DEFINE r == Max(RatesOf(ballot))
  <2>1. r \in RatesOf(ballot) /\ \A x \in RatesOf(ballot) : r >= x
    BY <1>1, ExtremesOf
  <2> HIDE DEF r
  <2>2. \A v \in DOMAIN ballot : ballot[v] <= r
    BY <1>1, <2>1 DEF RatesOf
  <2>3. VotersUpTo(ballot, r) = DOMAIN ballot
    BY <2>2 DEF VotersUpTo
  <2>4. PowerOf(power, DOMAIN ballot) >= HalfOf(ballot, power)
    BY PowerFacts
  <2> QED
    BY <2>1, <2>3, <2>4
<1>3. stops \in SUBSET Int /\ IsFiniteSet(stops)
  BY <1>1, FS_Subset
<1>4. WeightedMedian(ballot, power) = Min(stops)
  BY DEF WeightedMedian, RatesOf, HalfOf
<1>5. Min(stops) \in stops /\ \A r \in stops : Min(stops) <= r
  BY <1>2, <1>3, ExtremesOf
<1> QED
  BY <1>1, <1>4, <1>5

\* The weighted median is one of the votes, whatever the ballot.
LEMMA MedianWasVoted ==
  ASSUME NEW ballot, NEW power, IsBallot(ballot, power), DOMAIN ballot # {}
  PROVE  \E v \in DOMAIN ballot : ballot[v] = WeightedMedian(ballot, power)
  BY MedianIsFirst DEF RatesOf

\* Votes with less than the rounded-down half of the power cannot move the median outside
\* the rates of the others, which are never none.
LEMMA MinorityCannotMoveMedian ==
  ASSUME NEW ballot, NEW power, IsBallot(ballot, power),
         NEW S \in SUBSET DOMAIN ballot, PowerOf(power, S) < HalfOf(ballot, power)
  PROVE  /\ \E v \in DOMAIN ballot \ S : ballot[v] <= WeightedMedian(ballot, power)
         /\ \E v \in DOMAIN ballot \ S : WeightedMedian(ballot, power) <= ballot[v]
<1> DEFINE m == WeightedMedian(ballot, power)
           half == HalfOf(ballot, power)
           others == DOMAIN ballot \ S
<1>1. half \in Nat /\ 2 * half <= PowerOf(power, DOMAIN ballot)
      /\ PowerOf(power, S) \in Nat /\ PowerOf(power, others) \in Nat
      /\ PowerOf(power, DOMAIN ballot) = PowerOf(power, S) + PowerOf(power, others)
  BY PowerFacts
<1>2. PowerOf(power, others) > half
  <2> HIDE DEF others, half
  <2> QED
    BY <1>1 DEF half
<1>3. others # {}
  <2> SUFFICES ASSUME others = {} PROVE FALSE
    OBVIOUS
  <2>1. PowerOf(power, others) = 0
    BY PowerIsSum, SumType DEF IsBallot, Weighs
  <2> QED
    BY <1>1, <1>2, <2>1
<1>4. /\ m \in Nat /\ PowerOf(power, VotersUpTo(ballot, m)) >= half
      /\ \A r \in RatesOf(ballot) : PowerOf(power, VotersUpTo(ballot, r)) >= half => m <= r
  BY <1>3, MedianIsFirst
<1> HIDE DEF m
<1>5. \A v \in DOMAIN ballot : ballot[v] \in Nat
  BY DEF IsBallot
<1>6. \A r : VotersUpTo(ballot, r) \in SUBSET DOMAIN ballot
             /\ PowerOf(power, VotersUpTo(ballot, r)) \in Nat
  BY PowerFacts DEF VotersUpTo
<1>7. \E v \in others : ballot[v] <= m
  <2> SUFFICES ASSUME \A v \in others : ~(ballot[v] <= m) PROVE FALSE
    OBVIOUS
  <2>1. VotersUpTo(ballot, m) \in SUBSET S
    BY DEF VotersUpTo
  <2>2. PowerOf(power, VotersUpTo(ballot, m)) <= PowerOf(power, S)
    BY <2>1, PowerFacts
  <2> QED
    BY <1>1, <1>4, <1>6, <2>2
<1>8. \E v \in others : m <= ballot[v]
  <2> DEFINE rates == {ballot[v] : v \in others}
             r == Max(rates)
  <2>1. r \in rates /\ \A x \in rates : r >= x
    <3>1. rates \in SUBSET Int /\ IsFiniteSet(rates) /\ rates # {}
      <4>1. others \in SUBSET DOMAIN ballot /\ IsFiniteSet(others)
        BY FS_Subset DEF IsBallot
      <4>2. \A v \in others : ballot[v] \in Nat
        BY <1>5
      <4> HIDE DEF others
      <4> QED
        BY <1>3, <4>1, <4>2, RatesFinite
    <3> QED
      BY <3>1, ExtremesOf
  <2> HIDE DEF r
  <2>2. PICK v \in others : ballot[v] = r
    BY <2>1
  <2>3. others \in SUBSET VotersUpTo(ballot, r)
    BY <1>5, <2>1, <2>2 DEF VotersUpTo
  <2>4. PowerOf(power, others) <= PowerOf(power, VotersUpTo(ballot, r))
    BY <1>6, <2>3, PowerFacts
  <2>5. PowerOf(power, VotersUpTo(ballot, r)) >= half
    <3> HIDE DEF half, others
    <3> QED
      BY <1>1, <1>2, <1>6, <2>4
  <2>6. r \in RatesOf(ballot)
    BY <2>2 DEF RatesOf
  <2> QED
    BY <1>4, <2>2, <2>5, <2>6
<1> QED
  BY <1>7, <1>8 DEF m

\* When no vote falls, the median does not fall.
LEMMA MedianFollowsRates ==
  ASSUME NEW ballot, NEW raised, NEW power, IsBallot(ballot, power),
         IsBallot(raised, power), DOMAIN ballot # {}, DOMAIN raised = DOMAIN ballot,
         \A v \in DOMAIN ballot : ballot[v] <= raised[v]
  PROVE  WeightedMedian(ballot, power) <= WeightedMedian(raised, power)
<1> DEFINE m == WeightedMedian(ballot, power)
           n == WeightedMedian(raised, power)
           half == HalfOf(ballot, power)
           below == VotersUpTo(ballot, n)
           rates == {ballot[v] : v \in below}
           r == Max(rates)
<1>1. HalfOf(raised, power) = half
  BY DEF HalfOf
<1>2. /\ m \in Nat
      /\ \A x \in RatesOf(ballot) : PowerOf(power, VotersUpTo(ballot, x)) >= half => m <= x
  BY MedianIsFirst
<1>3. n \in RatesOf(raised) /\ n \in Nat /\ PowerOf(power, VotersUpTo(raised, n)) >= half
  BY <1>1, MedianIsFirst
<1> HIDE DEF m, n
<1>4. \A v \in DOMAIN ballot : ballot[v] \in Nat /\ raised[v] \in Nat
  BY DEF IsBallot
<1>5. below \in SUBSET DOMAIN ballot /\ VotersUpTo(raised, n) \in SUBSET below
  BY <1>3, <1>4 DEF VotersUpTo
<1>6. below # {}
  BY <1>3, <1>4, <1>5 DEF RatesOf, VotersUpTo
<1>7. PowerOf(power, below) >= half
  <2>1. PowerOf(power, VotersUpTo(raised, n)) <= PowerOf(power, below)
    BY <1>5, PowerFacts
  <2>2. /\ PowerOf(power, VotersUpTo(raised, n)) \in Nat
        /\ PowerOf(power, below) \in Nat /\ half \in Nat
    BY <1>5, PowerFacts
  <2> HIDE DEF below, half
  <2> QED
    BY <1>3, <2>1, <2>2
<1>8. r \in rates /\ \A x \in rates : r >= x
  <2>1. IsFiniteSet(below) /\ \A v \in below : ballot[v] \in Nat
    BY <1>4, <1>5, FS_Subset DEF IsBallot
  <2> HIDE DEF below
  <2>2. rates \in SUBSET Int /\ IsFiniteSet(rates) /\ rates # {}
    BY <1>5, <1>6, <2>1, RatesFinite
  <2> QED
    BY <2>2, ExtremesOf
<1> HIDE DEF r
<1>9. PICK v \in below : ballot[v] = r
  BY <1>8
<1>10. r <= n /\ r \in Nat /\ r \in RatesOf(ballot)
  BY <1>4, <1>9 DEF VotersUpTo, RatesOf
<1>11. VotersUpTo(ballot, r) = below
  BY <1>3, <1>4, <1>8, <1>10 DEF VotersUpTo
<1>12. m <= r
  BY <1>2, <1>7, <1>10, <1>11
<1> QED
  BY <1>2, <1>3, <1>10, <1>12 DEF m, n

\* Tally credits every vote of voters that agree within half of the reward band and leave
\* less than the rounded-down half of the power to the others.
LEMMA AgreeingVotesWin ==
  ASSUME NEW ballot, NEW power, IsBallot(ballot, power), NEW band \in Nat,
         NEW S \in SUBSET DOMAIN ballot,
         PowerOf(power, DOMAIN ballot \ S) < HalfOf(ballot, power),
         \A v, w \in S : 200 * (ballot[v] - ballot[w]) <= ballot[w] * band
  PROVE  S \subseteq Winners(ballot, power, band)
<1> DEFINE m == WeightedMedian(ballot, power)
<1>1. /\ \E v \in S : ballot[v] <= m
      /\ \E v \in S : m <= ballot[v]
  <2>1. (DOMAIN ballot \ S) \in SUBSET DOMAIN ballot /\ DOMAIN ballot \ (DOMAIN ballot \ S) = S
    OBVIOUS
  <2> QED
    BY <2>1, MinorityCannotMoveMedian
<1>2. PICK low \in S : ballot[low] <= m
  BY <1>1
<1>3. PICK high \in S : m <= ballot[high]
  BY <1>1
<1>4. m \in Nat
  BY <1>2, MedianIsFirst
<1> HIDE DEF m
<1>5. \A v \in S : ballot[v] \in Nat
  BY DEF IsBallot
<1>6. ASSUME NEW a \in Nat, NEW b \in Nat, a <= b PROVE a * band <= b * band
  BY <1>6
<1> SUFFICES ASSUME NEW v \in S PROVE v \in Winners(ballot, power, band)
  OBVIOUS
<1>7. 200 * (ballot[v] - m) <= m * band
  <2>1. 200 * (ballot[v] - ballot[low]) <= ballot[low] * band
    OBVIOUS
  <2>2. ballot[low] * band <= m * band
    BY <1>2, <1>4, <1>5, <1>6
  <2>3. /\ ballot[v] \in Nat /\ ballot[low] \in Nat
        /\ ballot[low] * band \in Nat /\ m * band \in Nat
    BY <1>4, <1>5
  <2> QED
    BY <1>2, <1>4, <2>1, <2>2, <2>3
<1>8. 200 * (m - ballot[v]) <= m * band \/ ballot[v] > m
  <2> SUFFICES ASSUME ballot[v] <= m PROVE 200 * (m - ballot[v]) <= m * band
    BY <1>4, <1>5
  <2>1. 200 * (ballot[high] - ballot[v]) <= ballot[v] * band
    OBVIOUS
  <2>2. ballot[v] * band <= m * band
    BY <1>4, <1>5, <1>6
  <2>3. /\ ballot[v] \in Nat /\ ballot[high] \in Nat
        /\ ballot[v] * band \in Nat /\ m * band \in Nat
    BY <1>4, <1>5
  <2> QED
    BY <1>3, <1>4, <2>1, <2>2, <2>3
<1>9. 200 * Deviation(ballot, power, v) <= m * band
  <2>1. Deviation(ballot, power, v) = IF ballot[v] - m < 0 THEN -(ballot[v] - m) ELSE ballot[v] - m
    BY DEF Deviation, m
  <2>2. ballot[v] \in Nat /\ m * band \in Nat
    BY <1>4, <1>5
  <2> QED
    BY <1>4, <1>7, <1>8, <2>1, <2>2
<1> QED
  BY <1>9 DEF Winners, m

-----------------------------------------------------------------------------
(* The middle of a sorted list, and the distances of its entries. *)

\* The i-th entry of the sorted list.
Ordered(p, i) == p[CHOOSE b \in DOMAIN p : Place(p, b) = i]

\* Twice the middle entry, or the sum of the two in the middle.
Middle(p) ==
  LET n == Cardinality(DOMAIN p)
  IN  IF n % 2 = 0
      THEN Ordered(p, n \div 2) + Ordered(p, (n \div 2) + 1)
      ELSE 2 * Ordered(p, (n \div 2) + 1)

\* The i-th price of the sorted list is the one at place i.
LEMMA OrderedTaken ==
  ASSUME NEW p, IsRated(p), NEW i \in 1..Cardinality(DOMAIN p)
  PROVE  \E b \in DOMAIN p : Place(p, b) = i /\ Ordered(p, i) = p[b]
  <1> DEFINE C == CHOOSE e \in DOMAIN p : Place(p, e) = i
  <1>1. C \in DOMAIN p /\ Place(p, C) = i
    BY PlaceTaken
  <1>2. Ordered(p, i) = p[C]
    BY DEF Ordered
  <1> QED
    BY <1>1, <1>2

\* Squares are in the order of the distances.
LEMMA SquaresInOrder ==
  ASSUME NEW x \in Int, NEW y \in Nat, x <= y, -y <= x
  PROVE  x * x <= y * y
  <1>1. (y - x) \in Nat /\ (y + x) \in Nat
    OBVIOUS
  <1>2. (y - x) * (y + x) \in Nat
    BY <1>1
  <1>3. (y - x) * (y + x) = (y * y) - (x * x)
    OBVIOUS
  <1> QED
    BY <1>2, <1>3

\* A median lies between the least and the greatest price.
LEMMA MiddleInRange ==
  ASSUME NEW p, IsRated(p), DOMAIN p # {}
  PROVE  \E lo, hi \in DOMAIN p :
           /\ \A b \in DOMAIN p : p[lo] <= p[b] /\ p[b] <= p[hi]
           /\ Middle(p) \in Nat
           /\ 2 * p[lo] <= Middle(p) /\ Middle(p) <= 2 * p[hi]
  <1> DEFINE P == {p[b] : b \in DOMAIN p}
             n == Cardinality(DOMAIN p)
  <1>1. P \in SUBSET Int /\ P # {} /\ IsFiniteSet(P)
    <2>1. IsFiniteSet(DOMAIN p) /\ \A b \in DOMAIN p : p[b] \in Nat
      BY DEF IsRated
    <2>2. IsFiniteSet(P)
      <3>1. DOMAIN p \in SUBSET DOMAIN p
        OBVIOUS
      <3> QED
        BY <2>1, <3>1, RatesFinite
    <2> QED
      BY <2>1, <2>2
  <1>2. PICK lo, hi \in DOMAIN p : \A b \in DOMAIN p : p[lo] <= p[b] /\ p[b] <= p[hi]
    <2> HIDE DEF P
    <2>1. (\E x \in P : \A y \in P : x <= y) /\ (\E x \in P : \A y \in P : x >= y)
      BY <1>1, FiniteHasExtremes
    <2>2. PICK x \in P : \A y \in P : x <= y
      BY <2>1
    <2>3. PICK z \in P : \A y \in P : z >= y
      BY <2>1
    <2>4. \A b \in DOMAIN p : p[b] \in P
      BY DEF P
    <2>5. PICK lo \in DOMAIN p : p[lo] = x
      BY <2>2 DEF P
    <2>6. PICK hi \in DOMAIN p : p[hi] = z
      BY <2>3 DEF P
    <2>7. \A b \in DOMAIN p : p[b] \in Int
      BY DEF IsRated
    <2>8. \A b \in DOMAIN p : p[lo] <= p[b] /\ p[b] <= p[hi]
      BY <2>2, <2>3, <2>4, <2>5, <2>6, <2>7
    <2> QED
      BY <2>8
  <1>3. n \in Nat /\ n # 0
    <2>1. IsFiniteSet(DOMAIN p)
      BY DEF IsRated
    <2> QED
      BY <2>1, FS_CardinalityType, FS_EmptySet
  <1>4. \A b \in DOMAIN p : p[b] \in Nat
    BY DEF IsRated
  <1>5. ASSUME NEW i \in 1..n
        PROVE  Ordered(p, i) \in Nat /\ p[lo] <= Ordered(p, i) /\ Ordered(p, i) <= p[hi]
    <2>1. PICK b \in DOMAIN p : Ordered(p, i) = p[b]
      BY OrderedTaken
    <2> QED
      BY <1>2, <1>4, <2>1
  <1>6. Middle(p) = IF n % 2 = 0
                    THEN Ordered(p, n \div 2) + Ordered(p, (n \div 2) + 1)
                    ELSE 2 * Ordered(p, (n \div 2) + 1)
    BY DEF Middle
  <1> HIDE DEF n
  <1>7. p[lo] \in Nat /\ p[hi] \in Nat
    BY <1>4
  <1>8. Middle(p) \in Nat /\ 2 * p[lo] <= Middle(p) /\ Middle(p) <= 2 * p[hi]
    <2>1. CASE n % 2 = 0
      <3>1. (n \div 2) \in 1..n /\ ((n \div 2) + 1) \in 1..n
        BY <1>3, <2>1
      <3> QED
        BY <1>5, <1>6, <1>7, <2>1, <3>1
    <2>2. CASE n % 2 # 0
      <3>1. ((n \div 2) + 1) \in 1..n
        BY <1>3, <2>2
      <3> QED
        BY <1>5, <1>6, <1>7, <2>2, <3>1
    <2> QED
      BY <2>1, <2>2
  <1> QED
    BY <1>2, <1>8

\* Where an entry is further than a square from the middle, two entries are from each other.
LEMMA DistantEntries ==
  ASSUME NEW p, IsRated(p), NEW b \in DOMAIN p, NEW s \in Nat,
         (2 * p[b] - Middle(p)) * (2 * p[b] - Middle(p)) > 4 * s
  PROVE  \E c, e \in DOMAIN p : (p[c] - p[e]) * (p[c] - p[e]) > s
  <1> DEFINE m == Middle(p)
             x == 2 * p[b] - m
  <1>1. x * x > 4 * s
    OBVIOUS
  <1>2. PICK lo, hi \in DOMAIN p :
          /\ \A c \in DOMAIN p : p[lo] <= p[c] /\ p[c] <= p[hi]
          /\ m \in Nat
          /\ 2 * p[lo] <= m /\ m <= 2 * p[hi]
    BY MiddleInRange
  <1>3. \A c \in DOMAIN p : p[c] \in Nat
    BY DEF IsRated
  <1> HIDE DEF m
  <1> DEFINE w == p[hi] - p[lo]
  <1>4. x \in Int /\ w \in Nat /\ x <= 2 * w /\ -(2 * w) <= x
    BY <1>2, <1>3
  <1> HIDE DEF x, w
  <1>5. x * x <= (2 * w) * (2 * w)
    BY <1>4, SquaresInOrder
  <1>6. (2 * w) * (2 * w) = 4 * (w * w) /\ w * w \in Nat /\ x * x \in Int
    BY <1>4
  <1>7. w * w > s
    BY <1>1, <1>5, <1>6
  <1> QED
    BY <1>2, <1>7 DEF w

-----------------------------------------------------------------------------
(* Block arithmetic. *)

\* A block that is not the last of its period of n blocks is followed by a block
\* of the same period (IsPeriodLastBlock against the quotient of the reveal check).
LEMMA SamePeriod ==
  \A n \in Nat \ {0}, h \in Nat :
    ((h + 1) % n) # 0 =>
      ((h + 1) \div n) = (h \div n) /\ ((h + 1) % n) = (h % n) + 1
  OBVIOUS

\* The last block of a period of n blocks is followed by a block of the next one.
LEMMA NextPeriod ==
  \A n \in Nat \ {0}, h \in Nat :
    ((h + 1) % n) = 0 =>
      ((h + 1) \div n) = (h \div n) + 1 /\ (h % n) = n - 1
  OBVIOUS

\* Quotient and remainder.
LEMMA DivMod ==
  \A n \in Nat \ {0}, h \in Nat :
    /\ (h \div n) \in Nat
    /\ (h % n) \in 0..(n - 1)
    /\ h = (n * (h \div n)) + (h % n)
  OBVIOUS

\* ... are the only ones.
LEMMA DivModUnique ==
  \A n \in Nat \ {0}, h \in Nat, q \in Nat, r \in Nat :
    r < n /\ h = (n * q) + r => q = (h \div n) /\ r = (h % n)
  OBVIOUS

\* Periods are in the order of their blocks.
LEMMA PeriodsInOrder ==
  \A n \in Nat \ {0}, a \in Nat, b \in Nat : a <= b => (a \div n) <= (b \div n)
  OBVIOUS

\* Multiplication associates, where the provers do not see it.
LEMMA MulAssociates == \A a, b, c \in Int : (a * b) * c = a * (b * c)
  OBVIOUS

\* Multiplication distributes over a sum, likewise.
LEMMA MulDistributes == \A a, b, c \in Int : a * (b + c) = (a * b) + (a * c)
  OBVIOUS

\* The vote periods of a slash window can be counted from the start of the window,
\* because Params.Validate makes the window a multiple of the vote period.
LEMMA WindowAligned ==
  ASSUME NEW n \in Nat \ {0}, NEW m \in Nat \ {0}, (m % n) = 0, NEW h \in Nat
  PROVE  (h % n) = ((h % m) % n)
  <1> DEFINE k == m \div n
             q == h \div m
             x == h % m
             y == x \div n
             r == x % n
  <1>1. k \in Nat /\ m = n * k
    BY DivMod
  <1>2. q \in Nat /\ x \in Nat /\ h = (m * q) + x
    BY DivMod
  <1> HIDE DEF k, q, x
  <1>3. y \in Nat /\ r \in Nat /\ r < n /\ x = (n * y) + r
    BY <1>2, DivMod
  <1> HIDE DEF y, r
  <1>4. m * q = n * (k * q)
    <2>1. (n * k) * q = n * (k * q)
      BY <1>1, <1>2, MulAssociates
    <2> QED
      BY <1>1, <2>1
  <1>5. k * q \in Nat
    BY <1>1, <1>2
  <1>6. n * ((k * q) + y) = (n * (k * q)) + (n * y)
    BY <1>3, <1>5, MulDistributes
  <1>7. h = (n * ((k * q) + y)) + r
    <2> DEFINE nkq == n * (k * q)
               ny  == n * y
    <2>1. nkq \in Nat /\ ny \in Nat
      BY <1>3, <1>5
    <2>2. h = nkq + (ny + r) /\ n * ((k * q) + y) = nkq + ny
      BY <1>2, <1>3, <1>4, <1>6
    <2> HIDE DEF nkq, ny
    <2> QED
      BY <1>3, <2>1, <2>2
  <1>8. r = (h % n)
    BY <1>3, <1>5, <1>7, DivModUnique
  <1> QED
    BY <1>8 DEF x, r

\* The vote periods, of n blocks, that have ended since the slash window, of m blocks,
\* of height h began.
PeriodsElapsed(n, m, h) == (h % m) \div n

\* One more block: a vote period ends with it, or not, or the window ends.
LEMMA PeriodsElapsedStep ==
  ASSUME NEW n \in Nat \ {0}, NEW m \in Nat \ {0}, (m % n) = 0, NEW h \in Nat
  PROVE  /\ PeriodsElapsed(n, m, h) \in Nat
         /\ ((h + 1) % m) = 0 =>
              /\ PeriodsElapsed(n, m, h + 1) = 0
              /\ PeriodsElapsed(n, m, h) + 1 = (m \div n)
              /\ ((h + 1) % n) = 0
         /\ ((h + 1) % m) # 0 =>
              PeriodsElapsed(n, m, h + 1) =
                PeriodsElapsed(n, m, h) + (IF ((h + 1) % n) = 0 THEN 1 ELSE 0)
  <1> DEFINE x == h % m
  <1>1. x \in Nat
    BY DivMod
  <1>2. PeriodsElapsed(n, m, h) \in Nat
    BY <1>1, DivMod DEF PeriodsElapsed
  <1>3. ((h + 1) % n) = (((h + 1) % m) % n)
    <2> DEFINE g == h + 1
    <2>1. g \in Nat
      OBVIOUS
    <2> HIDE DEF g
    <2>2. (g % n) = ((g % m) % n)
      BY <2>1, WindowAligned
    <2> QED
      BY <2>2 DEF g
  <1>4. ASSUME ((h + 1) % m) = 0
        PROVE  /\ PeriodsElapsed(n, m, h + 1) = 0
               /\ PeriodsElapsed(n, m, h) + 1 = (m \div n)
               /\ ((h + 1) % n) = 0
    <2>1. (0 \div n) = 0 /\ (0 % n) = 0
      BY DivModUnique
    <2>2. x + 1 = m
      <3>1. (h % m) = m - 1
        BY <1>4, NextPeriod
      <3> QED
        BY <3>1
    <2>3. ((x + 1) \div n) = (x \div n) + 1
      BY <1>1, <2>2, NextPeriod
    <2> QED
      BY <1>3, <1>4, <2>1, <2>2, <2>3 DEF PeriodsElapsed
  <1>5. ASSUME ((h + 1) % m) # 0
        PROVE  PeriodsElapsed(n, m, h + 1) =
                 PeriodsElapsed(n, m, h) + (IF ((h + 1) % n) = 0 THEN 1 ELSE 0)
    <2>1. ((h + 1) % m) = x + 1
      BY <1>5, SamePeriod
    <2> HIDE DEF x
    <2>2. ((x + 1) % n) = 0 => ((x + 1) \div n) = (x \div n) + 1
      BY <1>1, NextPeriod
    <2>3. ((x + 1) % n) # 0 => ((x + 1) \div n) = (x \div n)
      BY <1>1, SamePeriod
    <2>4. (x \div n) \in Nat
      BY <1>1, DivMod
    <2>5. PeriodsElapsed(n, m, h + 1) = ((x + 1) \div n) /\ PeriodsElapsed(n, m, h) = (x \div n)
      BY <2>1 DEF PeriodsElapsed, x
    <2>6. ((h + 1) % n) = ((x + 1) % n)
      BY <1>3, <2>1
    <2> QED
      BY <2>2, <2>3, <2>4, <2>5, <2>6
  <1> QED
    BY <1>2, <1>4, <1>5

\* The charge of one vote period: a validator with c clean periods of e and at most
\* m misses for each of the others stays so when the period ends, clean or not.
LEMMA PeriodCharge ==
  ASSUME NEW m \in Nat, NEW e \in Nat, NEW c \in Nat, NEW k \in Nat, k <= m * (e - c)
  PROVE  /\ \A x \in 0..m : k + x <= m * ((e + 1) - c)
         /\ k <= m * ((e + 1) - (c + 1))
  <1>1. m * ((e - c) + 1) = (m * (e - c)) + (m * 1)
    BY MulDistributes
  <1>2. (e + 1) - c = (e - c) + 1 /\ (e + 1) - (c + 1) = e - c
    OBVIOUS
  <1>3. m * (e - c) \in Int
    OBVIOUS
  <1> QED
    BY <1>1, <1>2, <1>3

-----------------------------------------------------------------------------
(* Stores. *)

\* The stores of a fresh chain are stores.
LEMMA EmptyStore ==
  ASSUME NEW K, NEW T
  PROVE  IsStore(<< >>, K, T) /\ DOMAIN << >> = {}
  BY DEF IsStore

\* Setting a key leaves every other key of the store alone.
LEMMA PutStore ==
  ASSUME NEW f, NEW k, NEW x
  PROVE  /\ DOMAIN Put(f, k, x) = DOMAIN f \union {k}
         /\ Put(f, k, x)[k] = x
         /\ \A i \in DOMAIN f \ {k} : Put(f, k, x)[i] = f[i]
         /\ \A K, T : IsStore(f, K, T) /\ k \in K /\ x \in T => IsStore(Put(f, k, x), K, T)
  BY DEF Put, IsStore

\* Removing keys from a store leaves the others alone.
LEMMA KeepStore ==
  ASSUME NEW f, NEW S
  PROVE  /\ DOMAIN Keep(f, S) = DOMAIN f \intersect S
         /\ \A i \in DOMAIN f \intersect S : Keep(f, S)[i] = f[i]
         /\ \A K, T : IsStore(f, K, T) => IsStore(Keep(f, S), K, T)
         /\ \A K, T : IsStore(f, K, T) => IsStore(Keep(f, S), S, T)
  BY DEF Keep, IsStore

\* A function with a value of T for each of its keys is a store.
LEMMA AnyStore ==
  ASSUME NEW f, NEW K, NEW T, DOMAIN f \subseteq K,
         f = [i \in DOMAIN f |-> f[i]], \A i \in DOMAIN f : f[i] \in T
  PROVE  IsStore(f, K, T)
  BY DEF IsStore
=============================================================================

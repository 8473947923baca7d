--------------------------------- MODULE Sums ---------------------------------
(* SumFunction, the sum of a function's values, which the community modules *)
(* define by a fold that picks the elements in an order nobody knows.  The  *)
(* lemmas say that the order does not matter.                               *)
(*                                                                          *)
(* A sum of natural numbers is the number of pairs of an element and one of *)
(* its units; what the fold computes is that number by induction over the   *)
(* subsets of the domain, where a smallest exception cannot exist.          *)
EXTENDS Integers, FiniteSets, Functions, FiniteSetTheorems, TLAPS

Units(f, S) == {p \in S \X Nat : p[2] \in 1 .. f[p[1]]}
Debts(f, S) == {p \in S \X Nat : p[2] \in 1 .. -f[p[1]]}
Count(f, S) == Cardinality(Units(f, S)) - Cardinality(Debts(f, S))

LEMMA OneColumn ==
  ASSUME NEW x, NEW n \in Int
  PROVE  /\ IsFiniteSet({x} \X (1 .. n))
         /\ Cardinality({x} \X (1 .. n)) = IF n > 0 THEN n ELSE 0
<1>1. IsFiniteSet({x}) /\ Cardinality({x}) = 1
  BY FS_Singleton
<1>2. IsFiniteSet(1 .. n) /\ Cardinality(1 .. n) = IF n > 0 THEN n ELSE 0
  BY FS_Interval
<1> DEFINE I == 1 .. n
<1> HIDE DEF I
<1>3. /\ IsFiniteSet({x} \X I) /\ Cardinality({x} \X I) = Cardinality({x}) * Cardinality(I)
      /\ Cardinality(I) \in Nat
  BY <1>1, <1>2, FS_Product, FS_CardinalityType DEF I
<1>4. Cardinality({x} \X I) = Cardinality(I)
  BY <1>1, <1>3
<1> QED
  BY <1>2, <1>3, <1>4 DEF I

LEMMA FiniteUnits ==
  ASSUME NEW S, IsFiniteSet(S), NEW f, \A x \in S : f[x] \in Int
  PROVE  IsFiniteSet(Units(f, S))
<1> DEFINE column == [x \in S |-> {x} \X (1 .. f[x])]
           columns == {column[x] : x \in S}
<1>1. column \in Surjection(S, columns)
  BY DEF Surjection
<1>2. IsFiniteSet(columns)
  BY <1>1, FS_Surjection
<1>3. ASSUME NEW T \in columns PROVE IsFiniteSet(T)
  <2>1. PICK x \in S : T = {x} \X (1 .. f[x])
    OBVIOUS
  <2>2. f[x] \in Int
    OBVIOUS
  <2> QED
    BY <2>1, <2>2, OneColumn
<1>4. IsFiniteSet(UNION columns)
  BY <1>2, <1>3, FS_UNION
<1>5. Units(f, S) \subseteq UNION columns
  BY DEF Units
<1> QED
  BY <1>4, <1>5, FS_Subset

LEMMA FiniteDebts ==
  ASSUME NEW S, IsFiniteSet(S), NEW f, \A x \in S : f[x] \in Int
  PROVE  IsFiniteSet(Debts(f, S))
<1> DEFINE g == [x \in S |-> -f[x]]
<1>1. IsFiniteSet(Units(g, S))
  BY FiniteUnits
<1>2. Units(g, S) = Debts(f, S)
  BY DEF Units, Debts
<1> QED
  BY <1>1, <1>2

LEMMA CountAdd ==
  ASSUME NEW S, IsFiniteSet(S), NEW x, x \notin S, NEW f, \A y \in S \cup {x} : f[y] \in Int
  PROVE  Count(f, S \cup {x}) = Count(f, S) + f[x]
<1>1. /\ Units(f, S \cup {x}) = Units(f, S) \cup ({x} \X (1 .. f[x]))
      /\ Units(f, S) \cap ({x} \X (1 .. f[x])) = {}
  BY DEF Units
<1>2. /\ Debts(f, S \cup {x}) = Debts(f, S) \cup ({x} \X (1 .. -f[x]))
      /\ Debts(f, S) \cap ({x} \X (1 .. -f[x])) = {}
  BY DEF Debts
<1>3. IsFiniteSet(Units(f, S)) /\ IsFiniteSet(Debts(f, S))
  BY FiniteUnits, FiniteDebts
<1>4. Cardinality(Units(f, S)) \in Nat /\ Cardinality(Debts(f, S)) \in Nat
  BY <1>3, FS_CardinalityType
<1>5. Cardinality(Units(f, S \cup {x}))
        = Cardinality(Units(f, S)) + (IF f[x] > 0 THEN f[x] ELSE 0)
  <2>1. /\ IsFiniteSet({x} \X (1 .. f[x]))
        /\ Cardinality({x} \X (1 .. f[x])) = IF f[x] > 0 THEN f[x] ELSE 0
    <3>1. f[x] \in Int
      OBVIOUS
    <3> QED
      BY <3>1, OneColumn
  <2> DEFINE U == Units(f, S)
             C == {x} \X (1 .. f[x])
  <2>2. IsFiniteSet(U) /\ IsFiniteSet(C) /\ Cardinality(U \cap C) = 0
    BY <1>1, <1>3, <2>1, FS_EmptySet
  <2> HIDE DEF U, C
  <2>3. Cardinality(U \cup C) = Cardinality(U) + Cardinality(C) - Cardinality(U \cap C)
    BY <2>2, FS_Union
  <2>4. Cardinality(U) \in Nat /\ Cardinality(C) \in Nat
    BY <2>2, FS_CardinalityType
  <2>5. Cardinality(U \cup C) = Cardinality(U) + Cardinality(C)
    BY <2>2, <2>3, <2>4
  <2> QED
    BY <1>1, <2>1, <2>5 DEF U, C
<1>6. Cardinality(Debts(f, S \cup {x}))
        = Cardinality(Debts(f, S)) + (IF -f[x] > 0 THEN -f[x] ELSE 0)
  <2>1. /\ IsFiniteSet({x} \X (1 .. -f[x]))
        /\ Cardinality({x} \X (1 .. -f[x])) = IF -f[x] > 0 THEN -f[x] ELSE 0
    <3>1. -f[x] \in Int
      OBVIOUS
    <3> QED
      BY <3>1, OneColumn
  <2> DEFINE U == Debts(f, S)
             C == {x} \X (1 .. -f[x])
  <2>2. IsFiniteSet(U) /\ IsFiniteSet(C) /\ Cardinality(U \cap C) = 0
    BY <1>2, <1>3, <2>1, FS_EmptySet
  <2> HIDE DEF U, C
  <2>3. Cardinality(U \cup C) = Cardinality(U) + Cardinality(C) - Cardinality(U \cap C)
    BY <2>2, FS_Union
  <2>4. Cardinality(U) \in Nat /\ Cardinality(C) \in Nat
    BY <2>2, FS_CardinalityType
  <2>5. Cardinality(U \cup C) = Cardinality(U) + Cardinality(C)
    BY <2>2, <2>3, <2>4
  <2> QED
    BY <1>2, <2>1, <2>5 DEF U, C
<1> QED
  BY <1>4, <1>5, <1>6 DEF Count

LEMMA CountEmpty == \A f : Count(f, {}) = 0
<1>1. \A f : Units(f, {}) = {} /\ Debts(f, {}) = {}
  BY DEF Units, Debts
<1> QED
  BY <1>1, FS_EmptySet DEF Count

(* The function the fold defines, and what it is.                           *)
Folds(g, f) ==
  g = [s \in SUBSET DOMAIN f |->
         IF s = {} THEN 0 ELSE f[CHOOSE x \in s : TRUE] + g[s \ {CHOOSE x \in s : TRUE}]]

LEMMA CountFolds ==
  ASSUME NEW f, IsFiniteSet(DOMAIN f), \A x \in DOMAIN f : f[x] \in Int
  PROVE  Folds([s \in SUBSET DOMAIN f |-> Count(f, s)], f)
<1> SUFFICES ASSUME NEW s \in SUBSET DOMAIN f
             PROVE  Count(f, s) = IF s = {} THEN 0
                      ELSE f[CHOOSE x \in s : TRUE] + Count(f, s \ {CHOOSE x \in s : TRUE})
  BY DEF Folds
<1>1. CASE s = {}
  BY <1>1, CountEmpty
<1>2. CASE s # {}
  <2> DEFINE x == CHOOSE x \in s : TRUE
  <2>1. x \in s
    BY <1>2
  <2>2. IsFiniteSet(s \ {x}) /\ s = (s \ {x}) \cup {x} /\ x \notin s \ {x}
    BY <2>1, FS_Subset
  <2> HIDE DEF x
  <2>3. Count(f, s) = Count(f, s \ {x}) + f[x]
    BY <2>1, <2>2, CountAdd
  <2>4. Count(f, s \ {x}) \in Int
    BY <2>2, FiniteUnits, FiniteDebts, FS_CardinalityType DEF Count
  <2>5. Count(f, s) = f[x] + Count(f, s \ {x})
    BY <2>1, <2>3, <2>4
  <2> QED
    BY <1>2, <2>5 DEF x
<1> QED
  BY <1>1, <1>2

LEMMA FoldsOnce ==
  ASSUME NEW f, IsFiniteSet(DOMAIN f), NEW g, NEW h, Folds(g, f), Folds(h, f)
  PROVE  g[DOMAIN f] = h[DOMAIN f]
<1> DEFINE S == DOMAIN f
           T == {s \in SUBSET S : g[s] # h[s]}
<1>1. IsWellFoundedOn(StrictSubsetOrdering(S), FiniteSubsetsOf(S))
  BY FS_StrictSubsetOrderingWellFounded
<1>2. FiniteSubsetsOf(S) = SUBSET S
  BY FS_FiniteSubsetsOfFinite
<1>3. ASSUME T # {} PROVE FALSE
  <2>1. PICK s \in T : \A t \in T : ~(<<t, s>> \in StrictSubsetOrdering(S))
    <3>1. T \subseteq FiniteSubsetsOf(S)
      BY <1>2
    <3> HIDE DEF T, S
    <3> QED
      BY <1>1, <1>3, <3>1, WFMin
  <2> DEFINE x == CHOOSE x \in s : TRUE
  <2>2. s # {}
    BY <2>1 DEF Folds
  <2>3. x \in s
    BY <2>2
  <2>4. s \ {x} \notin T
    <3>1. <<s \ {x}, s>> \in StrictSubsetOrdering(S)
      BY <2>3 DEF StrictSubsetOrdering
    <3> QED
      BY <2>1, <3>1
  <2>5. g[s \ {x}] = h[s \ {x}]
    BY <2>4
  <2>6. g[s] = f[x] + g[s \ {x}] /\ h[s] = f[x] + h[s \ {x}]
    BY <2>2 DEF Folds
  <2> QED
    BY <2>5, <2>6
<1> QED
  BY <1>3

LEMMA SumCounts ==
  ASSUME NEW f, IsFiniteSet(DOMAIN f), \A x \in DOMAIN f : f[x] \in Int
  PROVE  SumFunction(f) = Count(f, DOMAIN f)
<1> DEFINE g == CHOOSE g : Folds(g, f)
           h == [s \in SUBSET DOMAIN f |-> Count(f, s)]
<1>1. Folds(h, f)
  BY CountFolds
<1>2. SumFunction(f) = g[DOMAIN f]
  BY DEF SumFunction, SumFunctionOnSet, FoldFunctionOnSet, MapThenFoldSet, Folds
<1> HIDE DEF h
<1>3. Folds(g, f)
  BY <1>1
<1> HIDE DEF g
<1>4. g[DOMAIN f] = h[DOMAIN f]
  BY <1>1, <1>3, FoldsOnce
<1> QED
  BY <1>2, <1>4 DEF h

-------------------------------------------------------------------------------
LEMMA SumInt ==
  ASSUME NEW S, IsFiniteSet(S), NEW f \in [S -> Int]
  PROVE  SumFunction(f) \in Int
BY SumCounts, FiniteUnits, FiniteDebts, FS_CardinalityType DEF Count

LEMMA SumEmpty == ASSUME NEW f \in [{} -> Int] PROVE SumFunction(f) = 0
BY SumCounts, CountEmpty, FS_EmptySet

LEMMA CountSame ==
  ASSUME NEW S, NEW f, NEW g, \A x \in S : f[x] = g[x]
  PROVE  Count(f, S) = Count(g, S)
<1>1. Units(f, S) = Units(g, S) /\ Debts(f, S) = Debts(g, S)
  BY DEF Units, Debts
<1> QED
  BY <1>1 DEF Count

LEMMA SumAdd ==
  ASSUME NEW S, IsFiniteSet(S), NEW x, x \notin S, NEW f \in [S \cup {x} -> Int]
  PROVE  SumFunction(f) = SumFunction([y \in S |-> f[y]]) + f[x]
<1> DEFINE g == [y \in S |-> f[y]]
<1>1. IsFiniteSet(S \cup {x})
  BY FS_AddElement
<1>2. SumFunction(f) = Count(f, S \cup {x})
  BY <1>1, SumCounts
<1>3. SumFunction(g) = Count(g, S)
  BY SumCounts
<1>4. Count(f, S) = Count(g, S)
  BY CountSame
<1> QED
  BY <1>2, <1>3, <1>4, CountAdd

(* Leaving out what is not negative makes no sum greater.                   *)
LEMMA SumPart ==
  ASSUME NEW S, IsFiniteSet(S), NEW f \in [S -> Nat], NEW T \in SUBSET S
  PROVE  /\ SumFunction([x \in T |-> f[x]]) <= SumFunction(f)
         /\ SumFunction(f) \in Nat
<1> DEFINE g == [x \in T |-> f[x]]
<1>1. IsFiniteSet(T)
  BY FS_Subset
<1>2. SumFunction(f) = Count(f, S) /\ SumFunction(g) = Count(g, T)
  BY <1>1, SumCounts
<1>3. Debts(f, S) = {} /\ Debts(g, T) = {}
  BY DEF Debts
<1>4. Units(g, T) \subseteq Units(f, S) /\ IsFiniteSet(Units(f, S)) /\ IsFiniteSet(Units(g, T))
  <2>1. Units(g, T) \subseteq Units(f, S)
    BY DEF Units
  <2> QED
    BY <1>1, <2>1, FiniteUnits
<1>5. Cardinality(Units(g, T)) <= Cardinality(Units(f, S))
  BY <1>4, FS_Subset
<1>6. Cardinality(Units(g, T)) \in Nat /\ Cardinality(Units(f, S)) \in Nat
  BY <1>4, FS_CardinalityType
<1>7. Count(f, S) = Cardinality(Units(f, S)) /\ Count(g, T) = Cardinality(Units(g, T))
  BY <1>3, <1>6, FS_EmptySet DEF Count
<1> QED
  BY <1>2, <1>5, <1>6, <1>7

(* A sum does not depend on what its terms are called.                      *)
LEMMA UnitsRenamed ==
  ASSUME NEW S, IsFiniteSet(S), NEW T, NEW g \in Bijection(S, T), NEW f \in [T -> Int], NEW h,
         \A x \in S : h[x] = f[g[x]]
  PROVE  Cardinality(Units(h, S)) = Cardinality(Units(f, T))
<1> DEFINE U == Units(h, S)
           V == Units(f, T)
           b == [p \in U |-> <<g[p[1]], p[2]>>]
<1>1. /\ g \in [S -> T] /\ \A x, y \in S : g[x] = g[y] => x = y
      /\ \A t \in T : \E x \in S : g[x] = t
  BY DEF Bijection, Injection, Surjection, IsInjective
<1>2. IsFiniteSet(U)
  BY <1>1, FiniteUnits
<1>3. b \in [U -> V]
  BY <1>1 DEF Units
<1>4. \A p, q \in U : b[p] = b[q] => p = q
  BY <1>1 DEF Units
<1>5. ASSUME NEW q \in V PROVE \E p \in U : b[p] = q
  <2>1. q = <<q[1], q[2]>> /\ q[1] \in T /\ q[2] \in Nat /\ q[2] \in 1 .. f[q[1]]
    BY DEF Units
  <2>2. PICK x \in S : g[x] = q[1]
    BY <1>1, <2>1
  <2>3. <<x, q[2]>> \in U
    BY <2>1, <2>2 DEF Units
  <2> QED
    BY <2>1, <2>2, <2>3
<1> HIDE DEF U, V, b
<1>6. b \in Bijection(U, V)
  BY <1>3, <1>4, <1>5 DEF Bijection, Injection, Surjection, IsInjective
<1> QED
  BY <1>2, <1>6, FS_Bijection DEF ExistsBijection, U, V

LEMMA SumRenamed ==
  ASSUME NEW S, IsFiniteSet(S), NEW T, NEW g \in Bijection(S, T), NEW f \in [T -> Int]
  PROVE  SumFunction(f) = SumFunction([x \in S |-> f[g[x]]])
<1> DEFINE h == [x \in S |-> f[g[x]]]
           fn == [t \in T |-> -f[t]]
           hn == [x \in S |-> fn[g[x]]]
<1>1. g \in [S -> T] /\ IsFiniteSet(T)
  BY FS_Bijection DEF Bijection, Injection, ExistsBijection
<1>2. Cardinality(Units(h, S)) = Cardinality(Units(f, T))
  BY UnitsRenamed
<1>3. Cardinality(Units(hn, S)) = Cardinality(Units(fn, T))
  BY UnitsRenamed
<1>4. Units(hn, S) = Debts(h, S) /\ Units(fn, T) = Debts(f, T)
  BY <1>1 DEF Units, Debts
<1>5. SumFunction(h) = Count(h, S) /\ SumFunction(f) = Count(f, T)
  BY <1>1, SumCounts
<1> QED
  BY <1>2, <1>3, <1>4, <1>5 DEF Count
===============================================================================

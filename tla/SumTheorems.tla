---------------------------- MODULE SumTheorems ----------------------------
(***************************************************************************)
(* Facts about natural numbers and sums over finite sets that the proofs of  *)
(* several components need.  Induction is over sets of natural numbers: it   *)
(* follows from the least element of what is not in the set.                 *)
(***************************************************************************)
EXTENDS Integers, FiniteSets, FiniteSetsExt, FiniteSetTheorems, WellFoundedInduction, TLAPS

-----------------------------------------------------------------------------
(* Natural numbers *)

LEMMA LeastNat ==
    ASSUME NEW T, T \subseteq Nat, T # {}
    PROVE  \E x \in T : \A y \in T : x <= y
<1>1. IsWellFoundedOn(OpToRel(<, Nat), Nat)
  BY NatLessThanWellFounded
<1>2. PICK x \in T : \A y \in T : ~ (<<y, x>> \in OpToRel(<, Nat))
  BY <1>1, WFMin
<1>3. \A y, z \in Nat : <<y, z>> \in OpToRel(<, Nat) <=> y < z
  BY DEF OpToRel
<1>4. \A y \in T : ~(y < x)
  BY <1>2, <1>3
<1>. QED  BY <1>4

LEMMA NatSetInduction ==
    ASSUME NEW S, 0 \in S, \A n \in Nat : n \in S => n + 1 \in S
    PROVE  Nat \subseteq S
<1>. SUFFICES ASSUME Nat \ S # {} PROVE FALSE
  OBVIOUS
<1>1. PICK x \in Nat \ S : \A y \in Nat \ S : x <= y
  BY LeastNat
<1>2. x # 0 /\ x - 1 \in Nat
  BY <1>1
<1>3. x - 1 \in S
  BY <1>1, <1>2
<1>. QED  BY <1>1, <1>2, <1>3

LEMMA MaxIsIn ==
    ASSUME NEW S, S \subseteq Nat, S # {}, NEW n \in Nat, \A x \in S : x <= n
    PROVE  Max(S) \in S /\ \A x \in S : x <= Max(S)
<1>. DEFINE T == {n - x : x \in S}
<1>1. PICK t \in T : \A y \in T : t <= y
  <2>1. T \subseteq Nat /\ T # {}
    <3>1. \A x \in S : n - x \in Nat
      OBVIOUS
    <3>. QED  BY <3>1
  <2>. QED  BY <2>1, LeastNat
<1>2. PICK m \in S : t = n - m
  BY <1>1
<1>3. \A x \in S : n - m <= n - x
  BY <1>1, <1>2
<1>4. \A x \in S : x <= m
  BY <1>2, <1>3
<1>. QED  BY <1>2, <1>4 DEF Max

LEMMA MinOfTwo ==
    ASSUME NEW a \in Int, NEW b \in Int
    PROVE  Min({a, b}) = IF a <= b THEN a ELSE b
<1>. DEFINE m == IF a <= b THEN a ELSE b
<1>1. m \in {a, b} /\ \A y \in {a, b} : m <= y
  OBVIOUS
<1>2. Min({a, b}) \in {a, b} /\ \A y \in {a, b} : Min({a, b}) <= y
  BY <1>1 DEF Min
<1>. QED  BY <1>2

-----------------------------------------------------------------------------
(* The sum of f over a finite set.  FiniteSetsExt defines it by taking one     *)
(* element after another away; sums of all the subsets are one function.       *)

Total(f, S) == MapThenSumSet(LAMBDA x : f[x], S)

Some(s) == CHOOSE x \in s : TRUE
SumBody(f, g, s) == IF s = {} THEN 0 ELSE f[Some(s)] + g[s \ {Some(s)}]
AreSums(g, f, S) == g = [s \in SUBSET S |-> SumBody(f, g, s)]

LEMMA SomeIsIn == \A s : s # {} => Some(s) \in s
BY DEF Some

LEMMA TotalDef == \A f, S : Total(f, S) = (CHOOSE g : AreSums(g, f, S))[S]
BY DEF Total, AreSums, SumBody, MapThenSumSet, MapThenFoldSet, Some

\* Subsets of a finite set, and what is left when an element is taken.
LEMMA Smaller ==
    ASSUME NEW S, IsFiniteSet(S), NEW s \in SUBSET S
    PROVE  /\ IsFiniteSet(s) /\ Cardinality(s) \in Nat /\ Cardinality(s) <= Cardinality(S)
           /\ Cardinality(S) \in Nat
           /\ Cardinality(s) = 0 <=> s = {}
           /\ \A x \in s : s \ {x} \in SUBSET S /\ Cardinality(s \ {x}) = Cardinality(s) - 1
BY FS_Subset, FS_CardinalityType, FS_EmptySet, FS_RemoveElement

\* The sums exist: those of the sets of up to n elements can be extended to n + 1.
LEMMA SumsExist ==
    ASSUME NEW S, IsFiniteSet(S), NEW f, \A x \in S : f[x] \in Int
    PROVE  \E g \in [SUBSET S -> Int] : AreSums(g, f, S)
<1>. DEFINE Upto(n) == {g \in [SUBSET S -> Int] : \A s \in SUBSET S : Cardinality(s) <= n => g[s] = SumBody(f, g, s)}
            D == {n \in Nat : Upto(n) # {}}
<1>1. 0 \in D
  <2>. DEFINE z == [s \in SUBSET S |-> 0]
  <2>1. z \in [SUBSET S -> Int]
    OBVIOUS
  <2>2. \A s \in SUBSET S : Cardinality(s) <= 0 => z[s] = SumBody(f, z, s)
    BY Smaller DEF SumBody
  <2>3. z \in Upto(0)
    BY <2>1, <2>2
  <2>. QED  BY <2>3
<1>2. \A n \in Nat : n \in D => n + 1 \in D
  <2>. SUFFICES ASSUME NEW n \in Nat, NEW g \in Upto(n) PROVE n + 1 \in D
    OBVIOUS
  <2>. DEFINE h == [s \in SUBSET S |-> IF Cardinality(s) <= n THEN g[s] ELSE SumBody(f, g, s)]
  <2>0. \A s \in SUBSET S : SumBody(f, g, s) \in Int
    BY SomeIsIn DEF SumBody
  <2>1. h \in [SUBSET S -> Int]
    BY <2>0
  <2>2. ASSUME NEW s \in SUBSET S, Cardinality(s) <= n + 1 PROVE h[s] = SumBody(f, h, s)
    <3>1. CASE s = {}
      <4>1. Cardinality(s) <= n
        BY <3>1, FS_EmptySet
      <4>. QED  BY <3>1, <4>1 DEF SumBody
    <3>2. CASE s # {}
      <4>. DEFINE r == s \ {Some(s)}
      <4>1. r \in SUBSET S /\ Cardinality(r) <= n /\ Cardinality(s) \in Nat
        BY <2>2, <3>2, Smaller, SomeIsIn
      <4>2. h[r] = g[r]
        BY <4>1
      <4>3. SumBody(f, h, s) = SumBody(f, g, s)
        BY <3>2, <4>2 DEF SumBody
      <4>. QED  BY <4>3
    <3>. QED  BY <3>1, <3>2
  <2>3. h \in Upto(n + 1)
    BY <2>1, <2>2
  <2>4. n + 1 \in Nat
    OBVIOUS
  <2>. HIDE DEF h, Upto
  <2>. QED  BY <2>3, <2>4
<1>3. Cardinality(S) \in D
  <2>. HIDE DEF D
  <2>. QED  BY <1>1, <1>2, NatSetInduction, FS_CardinalityType
<1>4. PICK g \in [SUBSET S -> Int] : \A s \in SUBSET S : Cardinality(s) <= Cardinality(S) => g[s] = SumBody(f, g, s)
  BY <1>3
<1>5. g = [s \in SUBSET S |-> SumBody(f, g, s)]
  BY <1>4, Smaller
<1>. QED  BY <1>5 DEF AreSums

\* Whichever element is taken away first, the sum is the same.
Additive(g, f, S) == \A s \in SUBSET S : g[s] \in Int /\ \A x \in s : g[s] = f[x] + g[s \ {x}]

LEMMA AnyOrder ==
    ASSUME NEW S, IsFiniteSet(S), NEW f, \A x \in S : f[x] \in Int, NEW g, AreSums(g, f, S)
    PROVE  Additive(g, f, S)
<1>. DEFINE Law(s) == g[s] \in Int /\ \A x \in s : g[s] = f[x] + g[s \ {x}]
            D == {n \in Nat : \A s \in SUBSET S : Cardinality(s) <= n => Law(s)}
<1>0. \A s \in SUBSET S : g[s] = SumBody(f, g, s)
  BY DEF AreSums
<1>e. Law({})
  <2>1. g[{}] = SumBody(f, g, {})
    BY <1>0
  <2>2. g[{}] = 0
    BY <2>1 DEF SumBody
  <2>. QED  BY <2>2
<1>1. 0 \in D
  <2>. HIDE DEF Law
  <2>1. \A s \in SUBSET S : Cardinality(s) <= 0 => s = {}
    BY Smaller
  <2>. QED  BY <1>e, <2>1
<1>2. \A n \in Nat : n \in D => n + 1 \in D
  <2>. SUFFICES ASSUME NEW n \in Nat, n \in D, NEW s \in SUBSET S, Cardinality(s) <= n + 1 PROVE Law(s)
    <3>. HIDE DEF Law
    <3>. QED  OBVIOUS
  <2>1. CASE s = {}
    <3>. HIDE DEF Law
    <3>. QED  BY <1>e, <2>1
  <2>2. CASE s # {}
    <3>. DEFINE p == Some(s)
                r == s \ {p}
    <3>1. p \in s /\ p \in S
      BY <2>2, SomeIsIn
    <3>2. \A x \in s : s \ {x} \in SUBSET S /\ Cardinality(s \ {x}) <= n
      BY Smaller
    <3>3. \A x \in s : Law(s \ {x})
      BY <3>2
    <3>4. g[s] = f[p] + g[r]
      BY <1>0, <2>2 DEF SumBody
    <3>5. g[s] \in Int
      <4>1. f[p] \in Int /\ g[r] \in Int
        BY <3>1, <3>3
      <4>. HIDE DEF p, r
      <4>. QED  BY <3>4, <4>1
    <3>6. ASSUME NEW x \in s PROVE g[s] = f[x] + g[s \ {x}]
      <4>1. CASE x = p
        BY <3>4, <4>1
      <4>2. CASE x # p
        <5>1. x \in r /\ p \in s \ {x} /\ r \ {x} = (s \ {x}) \ {p}
          BY <3>1, <4>2
        <5>2. g[r] = f[x] + g[r \ {x}]
          BY <3>1, <3>3, <5>1
        <5>3. g[s \ {x}] = f[p] + g[(s \ {x}) \ {p}]
          BY <3>3, <5>1
        <5>4. f[x] \in Int /\ f[p] \in Int /\ g[r] \in Int /\ g[s \ {x}] \in Int
          BY <3>1, <3>3
        <5>5. g[r \ {x}] \in Int
          <6>1. r \in SUBSET S /\ Cardinality(r) <= n /\ Cardinality(r) \in Nat
            BY <3>1, <3>2, Smaller
          <6>2. r \ {x} \in SUBSET S /\ Cardinality(r \ {x}) = Cardinality(r) - 1
            <7>. HIDE DEF r
            <7>. QED  BY <5>1, <6>1, Smaller
          <6>3. Cardinality(r \ {x}) <= n
            BY <6>1, <6>2
          <6>. QED  BY <6>2, <6>3
        <5>6. g[r \ {x}] = g[(s \ {x}) \ {p}]
          BY <5>1
        <5>. HIDE DEF p, r
        <5>. QED  BY ONLY <3>4, <5>2, <5>3, <5>4, <5>5, <5>6
      <4>. QED  BY <4>1, <4>2
    <3>. QED  BY <3>5, <3>6
  <2>. QED  BY <2>1, <2>2
<1>3. Cardinality(S) \in D
  <2>. HIDE DEF D
  <2>. QED  BY <1>1, <1>2, NatSetInduction, FS_CardinalityType
<1>. QED  BY <1>3, Smaller DEF Additive

\* The sums depend only on the values that are summed.
LEMMA SumsAgree ==
    ASSUME NEW S, IsFiniteSet(S), NEW f, \A x \in S : f[x] \in Int, NEW g, AreSums(g, f, S),
           NEW T \in SUBSET S, NEW e, \A x \in T : e[x] = f[x], NEW h, AreSums(h, e, T)
    PROVE  \A s \in SUBSET T : g[s] = h[s]
<1>. DEFINE D == {n \in Nat : \A s \in SUBSET T : Cardinality(s) <= n => g[s] = h[s]}
<1>0. /\ \A s \in SUBSET S : g[s] = SumBody(f, g, s)
      /\ \A s \in SUBSET T : h[s] = SumBody(e, h, s)
  BY DEF AreSums
<1>1. 0 \in D
  <2>1. \A s \in SUBSET T : Cardinality(s) <= 0 => s = {}
    BY Smaller
  <2>. QED  BY <1>0, <2>1 DEF SumBody
<1>2. ASSUME NEW n \in Nat, n \in D PROVE n + 1 \in D
  <2>. SUFFICES ASSUME NEW s \in SUBSET T, Cardinality(s) <= n + 1 PROVE g[s] = h[s]
    OBVIOUS
  <2>1. CASE s = {}
    BY <1>0, <2>1 DEF SumBody
  <2>2. CASE s # {}
    <3>. DEFINE p == Some(s)
    <3>1. p \in s /\ f[p] = e[p]
      BY <2>2, SomeIsIn
    <3>2. s \ {p} \in SUBSET T /\ Cardinality(s \ {p}) <= n
      BY <3>1, Smaller
    <3>3. g[s \ {p}] = h[s \ {p}]
      BY <1>2, <3>2
    <3>. QED  BY <1>0, <2>2, <3>1, <3>3 DEF SumBody
  <2>. QED  BY <2>1, <2>2
<1>3. Cardinality(S) \in D
  <2>. HIDE DEF D
  <2>. QED  BY <1>1, <1>2, NatSetInduction, FS_CardinalityType
<1>. QED  BY <1>3, Smaller

LEMMA TotalIs ==
    ASSUME NEW S, IsFiniteSet(S), NEW f, \A x \in S : f[x] \in Int, NEW g, AreSums(g, f, S)
    PROVE  Total(f, S) = g[S]
<1>. DEFINE c == CHOOSE h : AreSums(h, f, S)
<1>1. AreSums(c, f, S)
  OBVIOUS
<1>2. c[S] = g[S]
  <2>. HIDE DEF c
  <2>. QED  BY <1>1, SumsAgree
<1>. QED  BY <1>2, TotalDef

LEMMA TotalEmpty == \A f : Total(f, {}) = 0
<1>. TAKE f
<1>1. IsFiniteSet({})
  BY FS_EmptySet
<1>2. PICK g : AreSums(g, f, {})
  BY <1>1, SumsExist
<1>3. Total(f, {}) = g[{}]
  BY <1>1, <1>2, TotalIs
<1>. QED  BY <1>2, <1>3 DEF AreSums, SumBody

LEMMA TotalRemove ==
    ASSUME NEW S, IsFiniteSet(S), NEW f, \A x \in S : f[x] \in Int
    PROVE  /\ Total(f, S) \in Int
           /\ \A x \in S : Total(f, S) = f[x] + Total(f, S \ {x})
<1>1. PICK g : AreSums(g, f, S)
  BY SumsExist
<1>2. Total(f, S) = g[S]
  BY <1>1, TotalIs
<1>3. g[S] \in Int /\ \A x \in S : g[S] = f[x] + g[S \ {x}]
  <2>1. Additive(g, f, S)
    BY <1>1, AnyOrder
  <2>. QED  BY <2>1 DEF Additive
<1>4. ASSUME NEW x \in S PROVE Total(f, S \ {x}) = g[S \ {x}]
  <2>1. S \ {x} \in SUBSET S /\ IsFiniteSet(S \ {x})
    BY Smaller
  <2>2. PICK h : AreSums(h, f, S \ {x})
    BY <2>1, SumsExist
  <2>3. Total(f, S \ {x}) = h[S \ {x}]
    BY <2>1, <2>2, TotalIs
  <2>4. g[S \ {x}] = h[S \ {x}]
    BY <1>1, <2>1, <2>2, SumsAgree
  <2>. QED  BY <2>3, <2>4
<1>. QED  BY <1>2, <1>3, <1>4

LEMMA TotalSame ==
    ASSUME NEW S, IsFiniteSet(S), NEW f, \A x \in S : f[x] \in Int, NEW e, \A x \in S : e[x] = f[x]
    PROVE  Total(e, S) = Total(f, S)
<1>1. PICK g : AreSums(g, f, S)
  BY SumsExist
<1>0. \A x \in S : e[x] \in Int
  OBVIOUS
<1>2. PICK h : AreSums(h, e, S)
  BY <1>0, SumsExist
<1>3. g[S] = h[S]
  BY <1>1, <1>2, SumsAgree
<1>4. Total(f, S) = g[S] /\ Total(e, S) = h[S]
  BY <1>0, <1>1, <1>2, TotalIs
<1>. QED  BY <1>3, <1>4

\* One value changes.
LEMMA TotalUpdate ==
    ASSUME NEW S, IsFiniteSet(S), NEW f, \A x \in S : f[x] \in Int, NEW y \in S,
           NEW e, e[y] \in Int, \A x \in S \ {y} : e[x] = f[x]
    PROVE  Total(e, S) = Total(f, S) - f[y] + e[y]
<1>1. IsFiniteSet(S \ {y})
  BY Smaller
<1>2. \A x \in S : e[x] \in Int
  OBVIOUS
<1>3. Total(e, S) = e[y] + Total(e, S \ {y}) /\ Total(f, S) = f[y] + Total(f, S \ {y})
  BY <1>2, TotalRemove
<1>4. Total(e, S \ {y}) = Total(f, S \ {y}) /\ Total(f, S \ {y}) \in Int
  BY <1>1, TotalSame, TotalRemove
<1>. QED  BY <1>3, <1>4

LEMMA TotalAdd ==
    ASSUME NEW S, IsFiniteSet(S), NEW f, \A x \in S : f[x] \in Int, NEW y, y \notin S, f[y] \in Int
    PROVE  Total(f, S \cup {y}) = Total(f, S) + f[y]
<1>1. IsFiniteSet(S \cup {y}) /\ (S \cup {y}) \ {y} = S
  BY FS_AddElement
<1>2. Total(f, S \cup {y}) = f[y] + Total(f, (S \cup {y}) \ {y}) /\ Total(f, S) \in Int
  BY <1>1, TotalRemove
<1>3. Total(f, (S \cup {y}) \ {y}) = Total(f, S)
  BY <1>1
<1>. QED  BY <1>2, <1>3

\* Greater values have a greater sum.
LEMMA TotalMonotonic ==
    ASSUME NEW S, IsFiniteSet(S), NEW f, NEW e, \A x \in S : f[x] \in Int /\ e[x] \in Int /\ e[x] <= f[x]
    PROVE  Total(e, S) <= Total(f, S)
<1>. DEFINE D == {n \in Nat : \A s \in SUBSET S : Cardinality(s) <= n => Total(e, s) <= Total(f, s)}
<1>1. 0 \in D
  <2>1. \A s \in SUBSET S : Cardinality(s) <= 0 => s = {}
    BY Smaller
  <2>. QED  BY <2>1, TotalEmpty
<1>2. ASSUME NEW n \in Nat, n \in D PROVE n + 1 \in D
  <2>. SUFFICES ASSUME NEW s \in SUBSET S, Cardinality(s) <= n + 1 PROVE Total(e, s) <= Total(f, s)
    OBVIOUS
  <2>1. CASE s = {}
    BY <2>1, TotalEmpty
  <2>2. ASSUME NEW p \in s PROVE Total(e, s) <= Total(f, s)
    <3>0. IsFiniteSet(s) /\ IsFiniteSet(s \ {p})
      BY Smaller, FS_RemoveElement
    <3>1. s \ {p} \in SUBSET S /\ Cardinality(s \ {p}) <= n
      BY Smaller
    <3>2. Total(e, s \ {p}) <= Total(f, s \ {p})
      BY <1>2, <3>1
    <3>3. Total(e, s) = e[p] + Total(e, s \ {p}) /\ Total(e, s \ {p}) \in Int
      BY <3>0, TotalRemove
    <3>4. Total(f, s) = f[p] + Total(f, s \ {p}) /\ Total(f, s \ {p}) \in Int
      BY <3>0, TotalRemove
    <3>5. p \in S
      OBVIOUS
    <3>. QED  BY <3>2, <3>3, <3>4, <3>5
  <2>. QED  BY <2>1, <2>2
<1>3. Cardinality(S) \in D
  <2>. HIDE DEF D
  <2>. QED  BY <1>1, <1>2, NatSetInduction, FS_CardinalityType
<1>. QED  BY <1>3, Smaller

\* The sum of one number for every element.
LEMMA TotalConstant ==
    ASSUME NEW S, IsFiniteSet(S), NEW f, NEW c \in Int, \A x \in S : f[x] = c
    PROVE  Total(f, S) = c * Cardinality(S)
<1>. DEFINE D == {n \in Nat : \A s \in SUBSET S : Cardinality(s) = n => Total(f, s) = c * n}
<1>1. 0 \in D
  <2>1. \A s \in SUBSET S : Cardinality(s) = 0 => s = {}
    BY Smaller
  <2>. QED  BY <2>1, TotalEmpty
<1>2. ASSUME NEW n \in Nat, n \in D PROVE n + 1 \in D
  <2>. SUFFICES ASSUME NEW s \in SUBSET S, Cardinality(s) = n + 1 PROVE Total(f, s) = c * (n + 1)
    OBVIOUS
  <2>1. PICK p \in s : TRUE
    BY Smaller
  <2>2. IsFiniteSet(s) /\ s \ {p} \in SUBSET S /\ Cardinality(s \ {p}) = n
    BY <2>1, Smaller
  <2>3. Total(f, s \ {p}) = c * n
    BY <1>2, <2>2
  <2>4. Total(f, s) = f[p] + Total(f, s \ {p}) /\ f[p] = c
    BY <2>1, <2>2, TotalRemove
  <2>5. c * (n + 1) = c + c * n
    OBVIOUS
  <2>. QED  BY <2>3, <2>4, <2>5
<1>3. Cardinality(S) \in D
  <2>. HIDE DEF D
  <2>. QED  BY <1>1, <1>2, NatSetInduction, FS_CardinalityType
<1>. QED  BY <1>3


\* Sums over disjoint sets add up.
LEMMA TotalUnion ==
    ASSUME NEW S, IsFiniteSet(S), NEW f, \A x \in S : f[x] \in Int, NEW A \in SUBSET S, NEW B \in SUBSET S, A \cap B = {}
    PROVE  Total(f, A \cup B) = Total(f, A) + Total(f, B)
<1>. DEFINE D == {n \in Nat : \A s \in SUBSET B : Cardinality(s) <= n => Total(f, A \cup s) = Total(f, A) + Total(f, s)}
<1>0. IsFiniteSet(A) /\ IsFiniteSet(B) /\ Total(f, A) \in Int
  BY Smaller, TotalRemove
<1>1. 0 \in D
  <2>1. \A s \in SUBSET B : Cardinality(s) <= 0 => s = {}
    BY <1>0, Smaller
  <2>2. A \cup {} = A
    OBVIOUS
  <2>. QED  BY <1>0, <2>1, <2>2, TotalEmpty
<1>2. ASSUME NEW n \in Nat, n \in D PROVE n + 1 \in D
  <2>. SUFFICES ASSUME NEW s \in SUBSET B, Cardinality(s) <= n + 1 PROVE Total(f, A \cup s) = Total(f, A) + Total(f, s)
    OBVIOUS
  <2>1. CASE s = {}
    <3>1. A \cup s = A
      BY <2>1
    <3>. QED  BY <1>0, <2>1, <3>1, TotalEmpty
  <2>2. ASSUME NEW p \in s PROVE Total(f, A \cup s) = Total(f, A) + Total(f, s)
    <3>. DEFINE r == s \ {p}
    <3>1. r \in SUBSET B /\ Cardinality(r) <= n /\ IsFiniteSet(s) /\ IsFiniteSet(r)
      BY <1>0, Smaller
    <3>2. Total(f, A \cup r) = Total(f, A) + Total(f, r)
      BY <1>2, <3>1
    <3>3. IsFiniteSet(A \cup s) /\ (A \cup s) \ {p} = A \cup r
      BY <1>0, <3>1, FS_Union
    <3>4. Total(f, A \cup s) = f[p] + Total(f, A \cup r)
      BY <3>3, TotalRemove
    <3>5. Total(f, s) = f[p] + Total(f, r) /\ Total(f, r) \in Int /\ f[p] \in Int
      BY <3>1, TotalRemove
    <3>. HIDE DEF r
    <3>. QED  BY <1>0, <3>2, <3>4, <3>5
  <2>. QED  BY <2>1, <2>2
<1>3. Cardinality(B) \in D
  <2>. HIDE DEF D
  <2>. QED  BY <1>0, <1>1, <1>2, NatSetInduction, FS_CardinalityType
<1>. QED  BY <1>0, <1>3, Smaller

LEMMA TotalNat ==
    ASSUME NEW S, IsFiniteSet(S), NEW f, \A x \in S : f[x] \in Nat
    PROVE  Total(f, S) \in Nat
<1>. DEFINE z == [x \in S |-> 0]
<1>1. Total(z, S) = 0 * Cardinality(S)
  BY TotalConstant
<1>2. Total(z, S) <= Total(f, S)
  BY TotalMonotonic
<1>3. Total(f, S) \in Int /\ Cardinality(S) \in Nat
  BY TotalRemove, FS_CardinalityType
<1>. QED  BY <1>1, <1>2, <1>3

LEMMA TotalSubset ==
    ASSUME NEW S, IsFiniteSet(S), NEW f, \A x \in S : f[x] \in Nat, NEW T \in SUBSET S
    PROVE  Total(f, T) \in Nat /\ Total(f, T) <= Total(f, S)
<1>1. S \ T \in SUBSET S /\ T \cap (S \ T) = {} /\ T \cup (S \ T) = S
  OBVIOUS
<1>2. IsFiniteSet(T) /\ IsFiniteSet(S \ T)
  BY <1>1, Smaller
<1>3. Total(f, T) \in Nat /\ Total(f, S \ T) \in Nat
  BY <1>2, TotalNat
<1>4. Total(f, T \cup (S \ T)) = Total(f, T) + Total(f, S \ T)
  BY <1>1, TotalUnion
<1>5. Total(f, T \cup (S \ T)) = Total(f, S)
  BY <1>1
<1>. QED  BY <1>3, <1>4, <1>5

=============================================================================

----------------------------- MODULE SumTheorems -----------------------------
(***************************************************************************)
(* Facts about counting, and about sums over finite sets (SumFunctionOnSet *)
(* of the community module Functions), in which the accounts state what    *)
(* money there is.  The provers cannot use an induction rule that takes a  *)
(* predicate, so induction is stated over sets: a set of numbers, or of    *)
(* parts of a finite set, that is closed under the step holds them all.    *)
(***************************************************************************)
EXTENDS Integers, Functions, FiniteSetTheorems, WellFoundedInduction, TLAPS

-------------------------------------------------------------------------------
(* Induction. *)

\* A non-empty set of natural numbers has a least element.
LEMMA LeastNumber ==
  ASSUME NEW T \in SUBSET Nat, T # {}
  PROVE  \E n \in T : \A m \in T : n <= m
<1> DEFINE R == {p \in Nat \X Nat : p[1] < p[2]}
<1>1. IsWellFoundedOn(R, Nat)
  BY NatLessThanWellFounded, Zenon DEF OpToRel
<1>2. \A m, n \in Nat : m < n => <<m, n>> \in R
  OBVIOUS
<1> HIDE DEF R
<1>3. \E n \in T : \A m \in T : ~ (<<m, n>> \in R)
  BY <1>1, WFMin
<1>4. PICK n \in T : \A m \in T : ~ (<<m, n>> \in R)
  BY <1>3
<1>5. \A m \in T : m \in Nat /\ ~ (m < n)
  BY <1>2, <1>4
<1>6. n \in Nat /\ \A m \in T : n <= m
  BY <1>5
<1> QED BY <1>6

\* A set with 0 and with n + 1 for each of its n holds every natural number.
LEMMA NumberSets ==
  ASSUME NEW T, 0 \in T, \A n \in Nat : n \in T => n + 1 \in T
  PROVE  Nat \subseteq T
<1> DEFINE Out == Nat \ T
<1> SUFFICES ASSUME Out # {} PROVE FALSE
  OBVIOUS
<1>1. PICK n \in Out : \A m \in Out : n <= m
  BY LeastNumber
<1>2. n # 0 /\ n \in Nat
  OBVIOUS
<1>3. n - 1 \in Nat /\ n - 1 \notin Out
  BY <1>1, <1>2
<1>4. n - 1 \in T
  BY <1>3
<1>5. (n - 1) + 1 \in T
  BY <1>3, <1>4
<1>6. (n - 1) + 1 = n
  BY <1>2
<1> QED BY <1>1, <1>5, <1>6

\* A collection with {} that may always take in one more element has all of S.
LEMMA FiniteSetInduction ==
  ASSUME NEW S, IsFiniteSet(S), NEW T, {} \in T,
         \A s \in SUBSET S : \A x \in S \ s : s \in T => s \cup {x} \in T
  PROVE  S \in T
<1> DEFINE Sizes == {n \in Nat : \A s \in SUBSET S : Cardinality(s) = n => s \in T}
<1>1. 0 \in Sizes
  <2> SUFFICES ASSUME NEW s \in SUBSET S, Cardinality(s) = 0 PROVE s \in T
    OBVIOUS
  <2>1. IsFiniteSet(s)
    BY FS_Subset
  <2> QED BY <2>1, FS_EmptySet
<1>2. ASSUME NEW n \in Nat, n \in Sizes PROVE n + 1 \in Sizes
  <2> SUFFICES ASSUME NEW s \in SUBSET S, Cardinality(s) = n + 1 PROVE s \in T
    OBVIOUS
  <2>1. IsFiniteSet(s)
    BY FS_Subset
  <2>2. s # {}
    BY <2>1, FS_EmptySet
  <2>3. PICK x : x \in s
    BY <2>2
  <2>4. IsFiniteSet(s \ {x}) /\ Cardinality(s \ {x}) = n
    <3>1. IsFiniteSet(s \ {x}) /\ Cardinality(s \ {x}) = Cardinality(s) - 1
      BY <2>1, <2>3, FS_RemoveElement
    <3> QED BY <3>1
  <2>5. s \ {x} \in T
    BY <1>2, <2>4
  <2>6. x \in S \ (s \ {x}) /\ s = (s \ {x}) \cup {x} /\ s \ {x} \in SUBSET S
    BY <2>3
  <2> HIDE DEF Sizes
  <2> QED BY <2>5, <2>6
<1>3. Nat \subseteq Sizes
  <2> HIDE DEF Sizes
  <2> QED BY <1>1, <1>2, NumberSets
<1>4. Cardinality(S) \in Nat
  BY FS_CardinalityType
<1> QED BY <1>3, <1>4

-------------------------------------------------------------------------------
(* Sums: one function adds up f over every part of S, in whatever order, and  *)
(* the recursion behind SumFunctionOnSet, which takes elements as CHOOSE does, *)
(* can have no other result.                                                   *)

\* g sums f over every part of S, whatever the order.
Additive(g, f, S) ==
    /\ g \in [SUBSET S -> Int]
    /\ g[{}] = 0
    /\ \A s \in SUBSET S : \A x \in S \ s : g[s \cup {x}] = f[x] + g[s]

\* Every numeric function on a finite set has one.
LEMMA AdditiveExists ==
  ASSUME NEW S, IsFiniteSet(S), NEW f, \A x \in S : f[x] \in Int
  PROVE  \E g : Additive(g, f, S)
<1> DEFINE T == {s \in SUBSET S : \E g : Additive(g, f, s)}
<1>1. {} \in T
  <2> DEFINE g == [s \in SUBSET {} |-> 0]
  <2>1. Additive(g, f, {})
    BY DEF Additive
  <2> QED BY <2>1
<1>2. ASSUME NEW s \in SUBSET S, NEW x \in S \ s, s \in T PROVE s \cup {x} \in T
  <2>1. PICK g : Additive(g, f, s)
    BY <1>2
  <2> DEFINE h == [u \in SUBSET (s \cup {x}) |-> IF x \in u THEN f[x] + g[u \ {x}] ELSE g[u]]
  <2>2. \A u \in SUBSET (s \cup {x}) : u \ {x} \in SUBSET s /\ (x \notin u => u \in SUBSET s)
    OBVIOUS
  <2>3. h \in [SUBSET (s \cup {x}) -> Int]
    BY <2>1, <2>2 DEF Additive
  <2>4. h[{}] = 0
    BY <2>1 DEF Additive
  <2>5. ASSUME NEW u \in SUBSET (s \cup {x}), NEW y \in (s \cup {x}) \ u
        PROVE  h[u \cup {y}] = f[y] + h[u]
    <3>0. u \cup {y} \in SUBSET (s \cup {x})
      OBVIOUS
    <3>1. CASE y = x
      <4>1. h[u \cup {y}] = f[x] + g[(u \cup {y}) \ {x}]
        BY <3>0, <3>1
      <4>2. (u \cup {y}) \ {x} = u /\ h[u] = g[u]
        BY <3>1
      <4> QED BY <3>1, <4>1, <4>2
    <3>2. CASE y # x /\ x \in u
      <4>1. h[u \cup {y}] = f[x] + g[(u \cup {y}) \ {x}] /\ h[u] = f[x] + g[u \ {x}]
        BY <3>0, <3>2
      <4>2. (u \cup {y}) \ {x} = (u \ {x}) \cup {y} /\ u \ {x} \in SUBSET s /\ y \in s \ (u \ {x})
        BY <3>2
      <4>3. g[(u \ {x}) \cup {y}] = f[y] + g[u \ {x}]
        BY <2>1, <4>2 DEF Additive
      <4>4. f[x] \in Int /\ f[y] \in Int /\ g[u \ {x}] \in Int
        BY <2>1, <4>2 DEF Additive
      <4>5. h[u \cup {y}] = f[x] + (f[y] + g[u \ {x}])
        BY <4>1, <4>2, <4>3, Zenon
      <4> HIDE DEF h
      <4> QED BY <4>1, <4>4, <4>5
    <3>3. CASE y # x /\ x \notin u
      <4>1. h[u \cup {y}] = g[u \cup {y}] /\ h[u] = g[u]
        BY <3>0, <3>3
      <4> QED BY <2>1, <3>3, <4>1 DEF Additive
    <3> QED BY <3>1, <3>2, <3>3
  <2>6. Additive(h, f, s \cup {x})
    <3> HIDE DEF h
    <3> QED BY <2>3, <2>4, <2>5 DEF Additive
  <2> QED BY <2>6
<1>3. S \in T
  <2> HIDE DEF T
  <2> QED BY <1>1, <1>2, FiniteSetInduction
<1> QED BY <1>3

\* An additive function solves the recursion, and any other solution agrees with it.
LEMMA SumIsAdditive ==
  ASSUME NEW S, IsFiniteSet(S), NEW f, \A x \in S : f[x] \in Int,
         NEW g, Additive(g, f, S)
  PROVE  SumFunctionOnSet(f, S) = g[S]
<1> DEFINE P(h) == h = [s \in SUBSET S |-> IF s = {} THEN 0 ELSE LET x == CHOOSE x \in s : TRUE IN f[x] + h[s \ {x}]]
           iter == CHOOSE h : P(h)
<1>1. SumFunctionOnSet(f, S) = iter[S]
  BY DEF SumFunctionOnSet, FoldFunctionOnSet, MapThenFoldSet
<1>2. P(g)
  <2>1. ASSUME NEW s \in SUBSET S, s # {}
        PROVE  g[s] = f[CHOOSE x \in s : TRUE] + g[s \ {CHOOSE x \in s : TRUE}]
    <3> DEFINE c == CHOOSE x \in s : TRUE
    <3>1. c \in s
      BY <2>1
    <3> HIDE DEF c
    <3>2. s \ {c} \in SUBSET S /\ c \in S \ (s \ {c}) /\ (s \ {c}) \cup {c} = s
      BY <3>1
    <3>3. g[s] = f[c] + g[s \ {c}]
      BY <3>2 DEF Additive
    <3> QED BY <3>3 DEF c
  <2> DEFINE k == [s \in SUBSET S |-> IF s = {} THEN 0 ELSE LET x == CHOOSE x \in s : TRUE IN f[x] + g[s \ {x}]]
  <2>2. \A s \in SUBSET S : g[s] = k[s]
    BY <2>1 DEF Additive
  <2>3. g = [s \in SUBSET S |-> g[s]] /\ k = [s \in SUBSET S |-> k[s]]
    BY DEF Additive
  <2> HIDE DEF k
  <2>4. g = k
    BY <2>2, <2>3
  <2> QED BY <2>4 DEF k
<1>3. P(iter)
  <2> HIDE DEF P
  <2> QED BY <1>2
<1>4. iter = [s \in SUBSET S |-> IF s = {} THEN 0
                              ELSE LET x == CHOOSE x \in s : TRUE IN f[x] + iter[s \ {x}]]
  <2> HIDE DEF iter
  <2> QED BY <1>3
<1> HIDE DEF iter
<1> DEFINE N == {n \in Nat : \A u \in SUBSET S : Cardinality(u) = n => iter[u] = g[u]}
<1>5. \A u \in SUBSET S : IsFiniteSet(u) /\ Cardinality(u) \in Nat
  BY FS_Subset, FS_CardinalityType
<1>6. 0 \in N
  <2>1. \A u \in SUBSET S : Cardinality(u) = 0 => u = {}
    BY <1>5, FS_EmptySet
  <2>2. iter[{}] = 0 /\ g[{}] = 0
    BY <1>4 DEF Additive
  <2> QED BY <2>1, <2>2
<1>7. ASSUME NEW n \in Nat, n \in N PROVE n + 1 \in N
  <2> SUFFICES ASSUME NEW u \in SUBSET S, Cardinality(u) = n + 1 PROVE iter[u] = g[u]
    OBVIOUS
  <2>1. u # {}
    BY <1>5, FS_EmptySet
  <2> DEFINE c == CHOOSE x \in u : TRUE
  <2>2. c \in u
    BY <2>1
  <2>3. iter[u] = f[c] + iter[u \ {c}]
    BY <1>4, <2>1
  <2> HIDE DEF c
  <2>4. u \ {c} \in SUBSET S /\ c \in S \ (u \ {c}) /\ (u \ {c}) \cup {c} = u
    BY <2>2
  <2>5. Cardinality(u \ {c}) = n
    <3>1. IsFiniteSet(u)
      BY <1>5
    <3>2. Cardinality(u \ {c}) = Cardinality(u) - 1
      BY <2>2, <3>1, FS_RemoveElement
    <3> QED BY <3>2
  <2>6. g[u] = f[c] + g[u \ {c}]
    BY <2>4 DEF Additive
  <2>7. iter[u \ {c}] = g[u \ {c}]
    BY <1>7, <2>4, <2>5
  <2> QED BY <2>3, <2>6, <2>7
<1>8. Cardinality(S) \in N
  <2>1. Nat \subseteq N
    <3> HIDE DEF N
    <3> QED BY <1>6, <1>7, NumberSets
  <2> QED BY <1>5, <2>1
<1> QED BY <1>1, <1>8

-------------------------------------------------------------------------------
(* What the other proofs use. *)

LEMMA SumEmpty ==
  ASSUME NEW f
  PROVE  SumFunctionOnSet(f, {}) = 0
<1>1. \A x \in {} : f[x] \in Int
  OBVIOUS
<1>2. PICK g : Additive(g, f, {})
  BY <1>1, AdditiveExists, FS_EmptySet
<1> QED BY <1>1, <1>2, SumIsAdditive, FS_EmptySet DEF Additive

LEMMA SumType ==
  ASSUME NEW S, IsFiniteSet(S), NEW f, \A x \in S : f[x] \in Int
  PROVE  SumFunctionOnSet(f, S) \in Int
<1>1. PICK g : Additive(g, f, S)
  BY AdditiveExists
<1>2. SumFunctionOnSet(f, S) = g[S]
  BY <1>1, SumIsAdditive
<1> QED BY <1>1, <1>2 DEF Additive

LEMMA SumAdd ==
  ASSUME NEW S, IsFiniteSet(S), NEW x, x \notin S, NEW f, \A y \in S \cup {x} : f[y] \in Int
  PROVE  SumFunctionOnSet(f, S \cup {x}) = f[x] + SumFunctionOnSet(f, S)
<1> DEFINE SX == S \cup {x}
<1>1. IsFiniteSet(SX)
  BY FS_AddElement
<1>2. PICK g : Additive(g, f, SX)
  BY <1>1, AdditiveExists
<1> DEFINE h == [s \in SUBSET S |-> g[s]]
<1>3. Additive(h, f, S)
  <2>1. \A s \in SUBSET S : s \in SUBSET SX
    OBVIOUS
  <2>2. h \in [SUBSET S -> Int] /\ h[{}] = 0
    BY <1>2, <2>1 DEF Additive
  <2>3. ASSUME NEW s \in SUBSET S, NEW y \in S \ s PROVE h[s \cup {y}] = f[y] + h[s]
    <3>1. s \cup {y} \in SUBSET S /\ s \in SUBSET SX /\ y \in SX \ s
      OBVIOUS
    <3>2. g[s \cup {y}] = f[y] + g[s]
      BY <1>2, <3>1 DEF Additive
    <3> QED BY <3>1, <3>2
  <2> HIDE DEF h
  <2> QED BY <2>2, <2>3 DEF Additive
<1>4. SumFunctionOnSet(f, SX) = g[SX]
  BY <1>1, <1>2, SumIsAdditive
<1>5. SumFunctionOnSet(f, S) = g[S]
  <2>1. SumFunctionOnSet(f, S) = h[S]
    <3> HIDE DEF h
    <3>1. \A y \in S : f[y] \in Int
      OBVIOUS
    <3> QED BY <1>3, <3>1, SumIsAdditive
  <2> QED BY <2>1
<1>6. g[SX] = f[x] + g[S]
  <2>1. S \in SUBSET SX /\ x \in SX \ S
    OBVIOUS
  <2> QED BY <1>2, <2>1 DEF Additive
<1> QED BY <1>4, <1>5, <1>6

LEMMA SumSame ==
  ASSUME NEW S, IsFiniteSet(S), NEW f, NEW h, \A x \in S : f[x] \in Int /\ f[x] = h[x]
  PROVE  SumFunctionOnSet(f, S) = SumFunctionOnSet(h, S)
<1>1. PICK g : Additive(g, f, S)
  BY AdditiveExists
<1>2. Additive(g, h, S)
  BY <1>1 DEF Additive
<1>3. \A x \in S : h[x] \in Int
  OBVIOUS
<1>4. SumFunctionOnSet(f, S) = g[S]
  BY <1>1, SumIsAdditive
<1>5. SumFunctionOnSet(h, S) = g[S]
  BY <1>2, <1>3, SumIsAdditive
<1> QED BY <1>4, <1>5

\* Nothing but zeros comes to zero.
LEMMA SumZero ==
  ASSUME NEW S, IsFiniteSet(S)
  PROVE  SumFunctionOnSet([x \in S |-> 0], S) = 0
<1> DEFINE f == [x \in S |-> 0]
           T == {s \in SUBSET S : SumFunctionOnSet(f, s) = 0}
<1>1. {} \in T
  BY SumEmpty
<1>2. ASSUME NEW s \in SUBSET S, NEW x \in S \ s, s \in T PROVE s \cup {x} \in T
  <2>1. IsFiniteSet(s) /\ x \notin s /\ \A y \in s \cup {x} : f[y] \in Int
    BY FS_Subset
  <2>2. f[x] = 0 /\ SumFunctionOnSet(f, s) = 0
    BY <1>2
  <2> HIDE DEF f
  <2>3. SumFunctionOnSet(f, s \cup {x}) = f[x] + SumFunctionOnSet(f, s)
    BY <2>1, SumAdd
  <2>4. SumFunctionOnSet(f, s \cup {x}) = 0
    BY <2>2, <2>3
  <2> QED BY <2>4
<1> HIDE DEF f, T
<1>3. S \in T
  BY <1>1, <1>2, FiniteSetInduction
<1> QED BY <1>3 DEF T, f

\* A sum changes by what one of its terms changes.
LEMMA SumUpdate ==
  ASSUME NEW S, IsFiniteSet(S), NEW x \in S, NEW f, NEW h,
         \A y \in S : f[y] \in Int, h[x] \in Int, \A y \in S \ {x} : h[y] = f[y]
  PROVE  SumFunctionOnSet(h, S) = SumFunctionOnSet(f, S) - f[x] + h[x]
<1> DEFINE R == S \ {x}
<1>1. IsFiniteSet(R) /\ x \notin R /\ R \cup {x} = S
  BY FS_RemoveElement
<1>2. \A y \in R : f[y] \in Int /\ f[y] = h[y]
  OBVIOUS
<1>3. SumFunctionOnSet(f, R) \in Int /\ SumFunctionOnSet(f, R) = SumFunctionOnSet(h, R)
  <2> HIDE DEF R
  <2>1. \A y \in R : f[y] \in Int
    BY <1>2
  <2> QED BY <1>1, <1>2, <2>1, SumType, SumSame
<1>4. \A y \in R \cup {x} : f[y] \in Int /\ h[y] \in Int
  OBVIOUS
<1> HIDE DEF R
<1>5. SumFunctionOnSet(f, R \cup {x}) = f[x] + SumFunctionOnSet(f, R)
  BY <1>1, <1>4, SumAdd
<1>6. SumFunctionOnSet(h, R \cup {x}) = h[x] + SumFunctionOnSet(h, R)
  BY <1>1, <1>4, SumAdd
<1>7. SumFunctionOnSet(f, S) = f[x] + SumFunctionOnSet(f, R)
  BY <1>1, <1>5, Zenon
<1>8. SumFunctionOnSet(h, S) = h[x] + SumFunctionOnSet(h, R)
  BY <1>1, <1>6, Zenon
<1> QED BY <1>3, <1>7, <1>8

\* Natural terms have a natural sum.
LEMMA SumNat ==
  ASSUME NEW S, IsFiniteSet(S), NEW f, \A x \in S : f[x] \in Nat
  PROVE  SumFunctionOnSet(f, S) \in Nat
<1> DEFINE T == {s \in SUBSET S : SumFunctionOnSet(f, s) \in Nat}
<1>1. {} \in T
  BY SumEmpty
<1>2. ASSUME NEW s \in SUBSET S, NEW x \in S \ s, s \in T PROVE s \cup {x} \in T
  <2>1. IsFiniteSet(s) /\ \A y \in s \cup {x} : f[y] \in Int
    BY FS_Subset
  <2>2. SumFunctionOnSet(f, s \cup {x}) = f[x] + SumFunctionOnSet(f, s)
    BY <2>1, SumAdd
  <2> QED BY <1>2, <2>2
<1>3. S \in T
  <2> HIDE DEF T
  <2> QED BY <1>1, <1>2, FiniteSetInduction
<1> QED BY <1>3

\* The sum over a set is that over a part of it and that over the rest.
LEMMA SumSplit ==
  ASSUME NEW S, IsFiniteSet(S), NEW R \in SUBSET S, NEW f, \A x \in S : f[x] \in Int
  PROVE  SumFunctionOnSet(f, S) = SumFunctionOnSet(f, R) + SumFunctionOnSet(f, S \ R)
<1> DEFINE Q == S \ R
           T == {s \in SUBSET Q :
                   SumFunctionOnSet(f, R \cup s) = SumFunctionOnSet(f, R) + SumFunctionOnSet(f, s)}
<1>0. IsFiniteSet(Q) /\ IsFiniteSet(R)
  BY FS_Subset
<1>00. SumFunctionOnSet(f, R) \in Int
  BY <1>0, SumType
<1>1. {} \in T
  <2>1. R \cup {} = R
    OBVIOUS
  <2> QED BY <1>00, <2>1, SumEmpty
<1>2. ASSUME NEW s \in SUBSET Q, NEW x \in Q \ s, s \in T PROVE s \cup {x} \in T
  <2>1. IsFiniteSet(s) /\ IsFiniteSet(R \cup s)
    BY <1>0, FS_Subset
  <2>2. SumFunctionOnSet(f, s \cup {x}) = f[x] + SumFunctionOnSet(f, s)
    <3>1. \A y \in s \cup {x} : f[y] \in Int
      OBVIOUS
    <3> QED BY <2>1, <3>1, SumAdd
  <2>3. SumFunctionOnSet(f, (R \cup s) \cup {x}) = f[x] + SumFunctionOnSet(f, R \cup s)
    <3>1. \A y \in (R \cup s) \cup {x} : f[y] \in Int
      OBVIOUS
    <3>2. x \notin R \cup s
      OBVIOUS
    <3> QED BY <2>1, <3>1, <3>2, SumAdd
  <2>4. (R \cup s) \cup {x} = R \cup (s \cup {x})
    OBVIOUS
  <2>5. SumFunctionOnSet(f, s) \in Int /\ f[x] \in Int
    <3>1. \A y \in s : f[y] \in Int
      OBVIOUS
    <3> QED BY <2>1, <3>1, SumType
  <2>6. SumFunctionOnSet(f, R \cup (s \cup {x})) = f[x] + SumFunctionOnSet(f, R \cup s)
    BY <2>3, <2>4, Zenon
  <2> QED BY <1>00, <1>2, <2>2, <2>5, <2>6
<1>3. Q \in T
  <2> HIDE DEF T
  <2>1. IsFiniteSet(Q)
    BY <1>0
  <2> HIDE DEF Q
  <2> QED BY <1>1, <1>2, <2>1, FiniteSetInduction
<1>4. R \cup Q = S
  OBVIOUS
<1> QED BY <1>3, <1>4

\* Leaving out terms of a sum of natural numbers does not make it larger.
LEMMA SumOfPart ==
  ASSUME NEW S, IsFiniteSet(S), NEW R \in SUBSET S, NEW f, \A x \in S : f[x] \in Nat
  PROVE  SumFunctionOnSet(f, R) <= SumFunctionOnSet(f, S)
<1>1. IsFiniteSet(R) /\ IsFiniteSet(S \ R)
  BY FS_Subset
<1>2. SumFunctionOnSet(f, R) \in Nat /\ SumFunctionOnSet(f, S \ R) \in Nat
  BY <1>1, SumNat
<1>3. SumFunctionOnSet(f, S) = SumFunctionOnSet(f, R) + SumFunctionOnSet(f, S \ R)
  BY SumSplit
<1> QED BY <1>2, <1>3

\* A sum over a part of S is a sum over S in which the others count nothing.
LEMMA SumOfChosen ==
  ASSUME NEW S, IsFiniteSet(S), NEW P \in SUBSET S, NEW f, \A x \in P : f[x] \in Int
  PROVE  SumFunctionOnSet(f, P) = SumFunctionOnSet([x \in S |-> IF x \in P THEN f[x] ELSE 0], S)
<1> DEFINE g == [x \in S |-> IF x \in P THEN f[x] ELSE 0]
           Q == S \ P
           none == [x \in Q |-> 0]
<1>1. IsFiniteSet(P) /\ IsFiniteSet(Q)
  BY FS_Subset
<1>2. /\ \A x \in S : g[x] \in Int
      /\ \A x \in P : f[x] \in Int /\ f[x] = g[x]
      /\ \A x \in Q : none[x] \in Int /\ none[x] = g[x]
  OBVIOUS
<1>3. SumFunctionOnSet(none, Q) = 0
  BY <1>1, SumZero
<1>4. P \in SUBSET S /\ Q = S \ P
  OBVIOUS
<1> HIDE DEF g, none, Q
<1>5. SumFunctionOnSet(f, P) = SumFunctionOnSet(g, P)
  BY <1>1, <1>2, SumSame
<1>6. SumFunctionOnSet(none, Q) = SumFunctionOnSet(g, Q)
  BY <1>1, <1>2, SumSame
<1>7. SumFunctionOnSet(g, P) \in Int
  <2>1. \A x \in P : g[x] \in Int
    BY <1>2
  <2> QED BY <1>1, <2>1, SumType
<1>8. SumFunctionOnSet(g, S) = SumFunctionOnSet(g, P) + SumFunctionOnSet(g, S \ P)
  BY <1>2, SumSplit
<1>9. SumFunctionOnSet(g, S \ P) = 0
  BY <1>3, <1>4, <1>6, Zenon
<1>10. SumFunctionOnSet(f, P) = SumFunctionOnSet(g, S)
  BY <1>5, <1>7, <1>8, <1>9
<1> QED BY <1>10 DEF g

\* One element changes its value, or joins or leaves those that are added up.
LEMMA SumMoves ==
  ASSUME NEW S, IsFiniteSet(S), NEW P \in SUBSET S, NEW Q \in SUBSET S, NEW x \in S, NEW f, NEW h,
         \A y \in S : f[y] \in Int, h[x] \in Int,
         \A y \in S \ {x} : h[y] = f[y] /\ (y \in Q <=> y \in P)
  PROVE  SumFunctionOnSet(h, Q) = SumFunctionOnSet(f, P)
           - (IF x \in P THEN f[x] ELSE 0) + (IF x \in Q THEN h[x] ELSE 0)
<1> DEFINE F == [y \in S |-> IF y \in P THEN f[y] ELSE 0]
           H == [y \in S |-> IF y \in Q THEN h[y] ELSE 0]
<1>1. \A y \in P : f[y] \in Int
  OBVIOUS
<1>2. \A y \in Q : h[y] \in Int
  OBVIOUS
<1>3. SumFunctionOnSet(f, P) = SumFunctionOnSet(F, S)
  BY <1>1, SumOfChosen
<1>4. SumFunctionOnSet(h, Q) = SumFunctionOnSet(H, S)
  BY <1>2, SumOfChosen
<1>5. /\ \A y \in S : F[y] \in Int
      /\ H[x] \in Int
      /\ \A y \in S \ {x} : H[y] = F[y]
      /\ F[x] = (IF x \in P THEN f[x] ELSE 0) /\ H[x] = (IF x \in Q THEN h[x] ELSE 0)
  OBVIOUS
<1> HIDE DEF F, H
<1>6. SumFunctionOnSet(H, S) = SumFunctionOnSet(F, S) - F[x] + H[x]
  BY <1>5, SumUpdate
<1> QED BY <1>3, <1>4, <1>5, <1>6

-------------------------------------------------------------------------------
(* Counting. *)

LEMMA CountIsNat ==
  ASSUME NEW S, IsFiniteSet(S)
  PROVE  Cardinality(S) \in Nat
  BY FS_CardinalityType

LEMMA CountNoMore ==
  ASSUME NEW S, IsFiniteSet(S), NEW T \in SUBSET S
  PROVE  IsFiniteSet(T) /\ Cardinality(T) \in Nat /\ Cardinality(T) <= Cardinality(S)
  BY FS_Subset, CountIsNat

\* A set with at most x more.
LEMMA CountOneMore ==
  ASSUME NEW S, IsFiniteSet(S), NEW x, NEW T \in SUBSET (S \cup {x})
  PROVE  IsFiniteSet(T) /\ Cardinality(T) \in Nat /\ Cardinality(T) <= Cardinality(S) + 1
<1> DEFINE U == S \cup {x}
<1>1. IsFiniteSet(U) /\ Cardinality(U) = IF x \in S THEN Cardinality(S) ELSE Cardinality(S) + 1
  BY FS_AddElement
<1>2. Cardinality(S) \in Nat
  BY CountIsNat
<1> HIDE DEF U
<1>3. T \in SUBSET U
  BY DEF U
<1>4. IsFiniteSet(T) /\ Cardinality(T) \in Nat /\ Cardinality(T) <= Cardinality(U)
  BY <1>1, <1>3, CountNoMore
<1> QED BY <1>1, <1>2, <1>4

\* A set without x, which was one of its elements.
LEMMA CountOneLess ==
  ASSUME NEW S, IsFiniteSet(S), NEW x \in S, NEW T \in SUBSET (S \ {x})
  PROVE  IsFiniteSet(T) /\ Cardinality(T) \in Nat /\ Cardinality(T) + 1 <= Cardinality(S)
<1> DEFINE U == S \ {x}
<1>1. IsFiniteSet(U) /\ Cardinality(U) = Cardinality(S) - 1
  BY FS_RemoveElement
<1>2. Cardinality(S) \in Nat
  BY CountIsNat
<1> HIDE DEF U
<1>3. T \in SUBSET U
  BY DEF U
<1>4. IsFiniteSet(T) /\ Cardinality(T) \in Nat /\ Cardinality(T) <= Cardinality(U)
  BY <1>1, <1>3, CountNoMore
<1> QED BY <1>1, <1>2, <1>4

\* Parts that have nothing in common.
LEMMA CountApart ==
  ASSUME NEW U, IsFiniteSet(U), NEW S \in SUBSET U, NEW T \in SUBSET U, S \cap T = {}
  PROVE  Cardinality(S) + Cardinality(T) <= Cardinality(U)
<1>1. IsFiniteSet(S) /\ IsFiniteSet(T) /\ S \cup T \in SUBSET U
  BY FS_Subset
<1>2. Cardinality(S \cup T) = Cardinality(S) + Cardinality(T) - Cardinality(S \cap T)
  BY <1>1, FS_Union
<1>3. Cardinality(S \cap T) = 0
  BY FS_EmptySet
<1>4. Cardinality(S) \in Nat /\ Cardinality(T) \in Nat /\ Cardinality(U) \in Nat
  BY <1>1, CountIsNat
<1>5. Cardinality(S \cup T) <= Cardinality(U)
  BY <1>1, FS_Subset
<1> QED BY <1>2, <1>3, <1>4, <1>5

LEMMA CountOne ==
  ASSUME NEW S, IsFiniteSet(S), Cardinality(S) <= 1, NEW v \in S, NEW w \in S
  PROVE  v = w
<1>1. Cardinality(S) \in Nat /\ Cardinality(S) # 0
  BY CountIsNat, FS_EmptySet
<1>2. Cardinality(S) = 1
  BY <1>1
<1> QED BY <1>2, FS_Singleton

===============================================================================

-------------------------------- MODULE Sums --------------------------------
(***************************************************************************)
(* Facts about SumFunctionOnSet of the community modules, which adds the   *)
(* values of a function over a finite set by choosing one element after    *)
(* the other: it satisfies its recursive definition, the order of the      *)
(* elements does not matter, and from these how a sum follows a change of  *)
(* one value or of the set.                                                *)
(*                                                                         *)
(* An induction is the choice of a least counterexample: of the number in  *)
(* NatLeast, of the set in LeastSubset.                                    *)
(***************************************************************************)
EXTENDS Integers, FiniteSets, Functions, FiniteSetTheorems,
        WellFoundedInduction, TLAPS

Some(S) == CHOOSE x \in S : TRUE

LEMMA NatLeast ==
  ASSUME NEW T, T \subseteq Nat, T # {}
  PROVE  \E n \in T : \A m \in T : n <= m
<1>1. PICK n \in T : \A m \in T : <<m, n>> \notin OpToRel(<, Nat)
  <2> HIDE DEF OpToRel
  <2> QED
    BY WFMin, NatLessThanWellFounded
<1>2. \A m \in T : ~(m < n)
  BY <1>1 DEF OpToRel
<1> QED
  BY <1>2

LEMMA LeastSubset ==
  ASSUME NEW S, IsFiniteSet(S), NEW B, B \subseteq SUBSET S, B # {}
  PROVE  \E s \in B : IsFiniteSet(s) /\ \A t \in SUBSET s : t # s => t \notin B
<1>1. B \subseteq FiniteSubsetsOf(S)
  BY FS_FiniteSubsetsOfFinite
<1>2. PICK s \in B : \A t \in B : <<t, s>> \notin StrictSubsetOrdering(S)
  BY <1>1, WFMin, FS_StrictSubsetOrderingWellFounded
<1>3. ASSUME NEW t \in SUBSET s, t # s, t \in B
      PROVE  FALSE
  BY <1>2, <1>3 DEF StrictSubsetOrdering
<1> QED
  BY <1>3, FS_Subset

-----------------------------------------------------------------------------
(* The recursive function that the sum is a value of exists.               *)
IsSum(g, f, S) ==
  g = [s \in SUBSET S |-> IF s = {} THEN 0 ELSE f[Some(s)] + g[s \ {Some(s)}]]

UpTo(S, n) == {s \in SUBSET S : Cardinality(s) <= n}

IsSumUpTo(g, f, S, n) ==
  g = [s \in UpTo(S, n) |-> IF s = {} THEN 0 ELSE f[Some(s)] + g[s \ {Some(s)}]]

LEMMA SomeIn ==
  ASSUME NEW s, s # {}, IsFiniteSet(s)
  PROVE  /\ Some(s) \in s
         /\ Cardinality(s \ {Some(s)}) = Cardinality(s) - 1
         /\ Cardinality(s) \in Nat \ {0}
BY FS_RemoveElement, FS_CardinalityType, FS_EmptySet DEF Some

LEMMA SumUpToExists ==
  ASSUME NEW f, NEW S, IsFiniteSet(S), NEW n \in Nat
  PROVE  \E g : IsSumUpTo(g, f, S, n)
<1> DEFINE Bad == {m \in Nat : ~ \E g : IsSumUpTo(g, f, S, m)}
<1> SUFFICES ASSUME Bad # {}
             PROVE  FALSE
  OBVIOUS
<1>1. PICK m \in Bad : \A k \in Bad : m <= k
  <2> HIDE DEF Bad
  <2>1. Bad \subseteq Nat
    BY DEF Bad
  <2> QED
    BY <2>1, NatLeast
<1>2. \A s \in SUBSET S : IsFiniteSet(s) /\ Cardinality(s) \in Nat
  BY FS_Subset, FS_CardinalityType
<1>3. CASE m = 0
  <2>1. \A s \in UpTo(S, 0) : s = {}
    BY <1>2, FS_EmptySet DEF UpTo
  <2> DEFINE h == [s \in UpTo(S, 0) |-> 0]
  <2>2. h = [s \in UpTo(S, 0) |-> IF s = {} THEN 0 ELSE f[Some(s)] + h[s \ {Some(s)}]]
    BY <2>1
  <2> QED
    BY <1>1, <1>3, <2>2 DEF IsSumUpTo
<1>4. CASE m # 0
  <2>1. m - 1 \in Nat /\ m - 1 \notin Bad
    BY <1>1, <1>4
  <2>2. PICK g : IsSumUpTo(g, f, S, m - 1)
    BY <2>1
  <2> DEFINE h == [s \in UpTo(S, m) |-> IF s = {} THEN 0 ELSE f[Some(s)] + g[s \ {Some(s)}]]
  <2>3. ASSUME NEW s \in UpTo(S, m - 1)
        PROVE  g[s] = IF s = {} THEN 0 ELSE f[Some(s)] + g[s \ {Some(s)}]
    BY <2>2 DEF IsSumUpTo
  <2>4. ASSUME NEW s \in UpTo(S, m), s # {}
        PROVE  s \ {Some(s)} \in UpTo(S, m - 1) \cap UpTo(S, m)
    <3>1. IsFiniteSet(s) /\ s \in SUBSET S /\ Cardinality(s) <= m
      BY <1>2 DEF UpTo
    <3>2. Cardinality(s \ {Some(s)}) = Cardinality(s) - 1 /\ Cardinality(s) \in Nat
      BY <2>4, <3>1, SomeIn
    <3> QED
      BY <3>1, <3>2 DEF UpTo
  <2>5. ASSUME NEW s \in UpTo(S, m - 1)
        PROVE  s \in UpTo(S, m) /\ h[s] = g[s]
    <3>1. s \in UpTo(S, m)
      BY <1>2 DEF UpTo
    <3> QED
      BY <3>1, <2>3
  <2>6. \A s \in UpTo(S, m) : s # {} => h[s \ {Some(s)}] = g[s \ {Some(s)}]
    <3> HIDE DEF h
    <3> QED
      BY <2>4, <2>5
  <2>7. h = [s \in UpTo(S, m) |-> IF s = {} THEN 0 ELSE f[Some(s)] + h[s \ {Some(s)}]]
    BY <2>6
  <2>8. IsSumUpTo(h, f, S, m)
    BY <2>7 DEF IsSumUpTo
  <2> QED
    BY <1>1, <2>8
<1> QED
  BY <1>3, <1>4

LEMMA SumExists ==
  ASSUME NEW f, NEW S, IsFiniteSet(S)
  PROVE  \E g : IsSum(g, f, S) /\ SumFunctionOnSet(f, S) = g[S]
<1>1. PICK g : IsSumUpTo(g, f, S, Cardinality(S))
  BY SumUpToExists, FS_CardinalityType
<1>2. UpTo(S, Cardinality(S)) = SUBSET S
  BY FS_Subset DEF UpTo
<1>3. IsSum(g, f, S)
  BY <1>1, <1>2 DEF IsSumUpTo, IsSum
<1>4. IsSum(CHOOSE h : IsSum(h, f, S), f, S)
  BY <1>3
<1>5. SumFunctionOnSet(f, S) = (CHOOSE h : IsSum(h, f, S))[S]
  BY DEF SumFunctionOnSet, FoldFunctionOnSet, MapThenFoldSet, IsSum, Some
<1> QED
  BY <1>4, <1>5

(* The value of a subset is the same in the sum over any superset.         *)
LEMMA SumUnique ==
  ASSUME NEW f, NEW S, IsFiniteSet(S), NEW T, T \subseteq S,
         NEW g, IsSum(g, f, S), NEW h, IsSum(h, f, T)
  PROVE  g[T] = h[T]
<1> DEFINE Bad == {s \in SUBSET T : g[s] # h[s]}
<1> SUFFICES ASSUME Bad # {}
             PROVE  FALSE
  OBVIOUS
<1>1. PICK s \in Bad : IsFiniteSet(s) /\ \A t \in SUBSET s : t # s => t \notin Bad
  <2> HIDE DEF Bad
  <2>1. Bad \subseteq SUBSET T /\ IsFiniteSet(T)
    BY FS_Subset DEF Bad
  <2> QED
    BY <2>1, LeastSubset
<1>2. s # {}
  BY <1>1 DEF IsSum
<1>3. g[s \ {Some(s)}] = h[s \ {Some(s)}]
  BY <1>1, <1>2, SomeIn
<1>4. g[s] = f[Some(s)] + g[s \ {Some(s)}] /\ h[s] = f[Some(s)] + h[s \ {Some(s)}]
  BY <1>2 DEF IsSum
<1> QED
  BY <1>1, <1>3, <1>4

(* The recursion.                                                          *)
LEMMA SumStep ==
  ASSUME NEW f, NEW S, IsFiniteSet(S)
  PROVE  SumFunctionOnSet(f, S) =
           IF S = {} THEN 0
           ELSE f[Some(S)] + SumFunctionOnSet(f, S \ {Some(S)})
<1>1. PICK g : IsSum(g, f, S) /\ SumFunctionOnSet(f, S) = g[S]
  BY SumExists
<1>2. CASE S = {}
  BY <1>1, <1>2 DEF IsSum
<1>3. CASE S # {}
  <2> DEFINE T == S \ {Some(S)}
  <2>1. IsFiniteSet(T) /\ T \subseteq S
    BY FS_Subset
  <2>2. PICK h : IsSum(h, f, T) /\ SumFunctionOnSet(f, T) = h[T]
    BY <2>1, SumExists
  <2>3. g[T] = h[T]
    <3> HIDE DEF T
    <3> QED
      BY <1>1, <2>1, <2>2, SumUnique
  <2>4. g[S] = f[Some(S)] + g[T]
    BY <1>1, <1>3 DEF IsSum
  <2> QED
    BY <1>1, <1>3, <2>2, <2>3, <2>4
<1> QED
  BY <1>2, <1>3

-----------------------------------------------------------------------------
LEMMA SumEmpty ==
  ASSUME NEW f
  PROVE  SumFunctionOnSet(f, {}) = 0
BY SumStep, FS_EmptySet

LEMMA SumInt ==
  ASSUME NEW f, NEW S, IsFiniteSet(S), \A x \in S : f[x] \in Int
  PROVE  SumFunctionOnSet(f, S) \in Int
<1> DEFINE Bad == {s \in SUBSET S : SumFunctionOnSet(f, s) \notin Int}
<1> SUFFICES ASSUME Bad # {}
             PROVE  FALSE
  OBVIOUS
<1>1. PICK s \in Bad : IsFiniteSet(s) /\ \A t \in SUBSET s : t # s => t \notin Bad
  <2> HIDE DEF Bad
  <2>1. Bad \subseteq SUBSET S
    BY DEF Bad
  <2> QED
    BY <2>1, LeastSubset
<1>2. s # {}
  <2> SUFFICES ASSUME s = {}
               PROVE  SumFunctionOnSet(f, s) \in Int
    BY <1>1
  <2> QED
    BY SumEmpty
<1>3. Some(s) \in s
  BY <1>1, <1>2, SomeIn
<1>4. SumFunctionOnSet(f, s \ {Some(s)}) \in Int
  BY <1>1, <1>3
<1>5. SumFunctionOnSet(f, s) = f[Some(s)] + SumFunctionOnSet(f, s \ {Some(s)})
  BY <1>1, <1>2, SumStep
<1> QED
  BY <1>1, <1>3, <1>4, <1>5

(* Any element may be taken out first.                                     *)
LEMMA SumRemove ==
  ASSUME NEW f, NEW S, IsFiniteSet(S), \A x \in S : f[x] \in Int, NEW k \in S
  PROVE  SumFunctionOnSet(f, S) = f[k] + SumFunctionOnSet(f, S \ {k})
<1> DEFINE Bad == {s \in SUBSET S : \E x \in s :
             SumFunctionOnSet(f, s) # f[x] + SumFunctionOnSet(f, s \ {x})}
<1> SUFFICES ASSUME Bad # {}
             PROVE  FALSE
  OBVIOUS
<1>1. PICK s \in Bad : IsFiniteSet(s) /\ \A t \in SUBSET s : t # s => t \notin Bad
  <2> HIDE DEF Bad
  <2>1. Bad \subseteq SUBSET S
    BY DEF Bad
  <2> QED
    BY <2>1, LeastSubset
<1>2. PICK x \in s : SumFunctionOnSet(f, s) # f[x] + SumFunctionOnSet(f, s \ {x})
  BY <1>1
<1> DEFINE c == Some(s)
           rest == (s \ {c}) \ {x}
<1>3. c \in s /\ SumFunctionOnSet(f, s) = f[c] + SumFunctionOnSet(f, s \ {c})
  BY <1>1, <1>2, SomeIn, SumStep
<1> HIDE DEF c
<1>4. c # x
  BY <1>2, <1>3
<1>5. SumFunctionOnSet(f, s \ {c}) = f[x] + SumFunctionOnSet(f, rest)
  BY <1>1, <1>3, <1>4
<1>6. SumFunctionOnSet(f, s \ {x}) = f[c] + SumFunctionOnSet(f, rest)
  <2>1. rest = (s \ {x}) \ {c}
    OBVIOUS
  <2> HIDE DEF rest
  <2> QED
    BY <1>1, <1>3, <1>4, <2>1
<1>7. SumFunctionOnSet(f, rest) \in Int
  <2>1. IsFiniteSet(rest) /\ \A y \in rest : f[y] \in Int
    BY <1>1, FS_Subset
  <2> HIDE DEF rest
  <2> QED
    BY <2>1, SumInt
<1>8. f[x] \in Int /\ f[c] \in Int
  BY <1>1, <1>3
<1> QED
  BY <1>2, <1>3, <1>5, <1>6, <1>7, <1>8

LEMMA SumAdd ==
  ASSUME NEW f, NEW S, IsFiniteSet(S), NEW k, k \notin S,
         \A x \in S \cup {k} : f[x] \in Int
  PROVE  SumFunctionOnSet(f, S \cup {k}) = f[k] + SumFunctionOnSet(f, S)
<1>1. (S \cup {k}) \ {k} = S /\ IsFiniteSet(S \cup {k})
  BY FS_AddElement
<1> QED
  BY <1>1, SumRemove

(* Sums of values that are not above the others.                           *)
LEMMA SumLess ==
  ASSUME NEW f, NEW g, NEW S, IsFiniteSet(S),
         \A x \in S : f[x] \in Int /\ g[x] \in Int /\ f[x] <= g[x]
  PROVE  SumFunctionOnSet(f, S) <= SumFunctionOnSet(g, S)
<1> DEFINE Bad == {s \in SUBSET S :
             ~(SumFunctionOnSet(f, s) <= SumFunctionOnSet(g, s))}
<1> SUFFICES ASSUME Bad # {}
             PROVE  FALSE
  OBVIOUS
<1>1. PICK s \in Bad : IsFiniteSet(s) /\ \A t \in SUBSET s : t # s => t \notin Bad
  <2> HIDE DEF Bad
  <2>1. Bad \subseteq SUBSET S
    BY DEF Bad
  <2> QED
    BY <2>1, LeastSubset
<1>2. s # {}
  <2> SUFFICES ASSUME s = {}
               PROVE  SumFunctionOnSet(f, s) <= SumFunctionOnSet(g, s)
    BY <1>1
  <2>1. SumFunctionOnSet(f, s) = 0 /\ SumFunctionOnSet(g, s) = 0
    BY SumEmpty
  <2> QED
    BY <2>1
<1> DEFINE c == Some(s)
           r == s \ {c}
<1>3. c \in s /\ r \in SUBSET s /\ r # s
  BY <1>1, <1>2, SomeIn
<1>4. /\ SumFunctionOnSet(f, s) = f[c] + SumFunctionOnSet(f, r)
      /\ SumFunctionOnSet(g, s) = g[c] + SumFunctionOnSet(g, r)
  BY <1>1, <1>2, SumStep
<1>5. SumFunctionOnSet(f, r) \in Int /\ SumFunctionOnSet(g, r) \in Int
  <2>1. IsFiniteSet(r) /\ \A x \in r : f[x] \in Int /\ g[x] \in Int
    BY <1>1, FS_Subset
  <2> HIDE DEF r
  <2> QED
    BY <2>1, SumInt
<1>6. SumFunctionOnSet(f, r) <= SumFunctionOnSet(g, r)
  BY <1>1, <1>3
<1>7. f[c] \in Int /\ g[c] \in Int /\ f[c] <= g[c]
  BY <1>1, <1>3
<1> QED
  BY <1>1, <1>4, <1>5, <1>6, <1>7

LEMMA SumSame ==
  ASSUME NEW f, NEW g, NEW S, IsFiniteSet(S),
         \A x \in S : f[x] \in Int /\ f[x] = g[x]
  PROVE  SumFunctionOnSet(f, S) = SumFunctionOnSet(g, S)
<1>1. SumFunctionOnSet(f, S) \in Int /\ SumFunctionOnSet(g, S) \in Int
  BY SumInt
<1>2. SumFunctionOnSet(f, S) <= SumFunctionOnSet(g, S)
  BY SumLess
<1>3. SumFunctionOnSet(g, S) <= SumFunctionOnSet(f, S)
  BY SumLess
<1> QED
  BY <1>1, <1>2, <1>3

(* A sum follows the change of one value.                                  *)
LEMMA SumChange ==
  ASSUME NEW f, NEW g, NEW S, IsFiniteSet(S), NEW k \in S,
         \A x \in S : f[x] \in Int /\ g[x] \in Int,
         \A x \in S : x # k => f[x] = g[x]
  PROVE  SumFunctionOnSet(g, S) = SumFunctionOnSet(f, S) + g[k] - f[k]
<1>1. IsFiniteSet(S \ {k})
  BY FS_Subset
<1>2. SumFunctionOnSet(f, S \ {k}) = SumFunctionOnSet(g, S \ {k})
  BY <1>1, SumSame
<1>3. SumFunctionOnSet(f, S \ {k}) \in Int
  BY <1>1, SumInt
<1>4. /\ SumFunctionOnSet(f, S) = f[k] + SumFunctionOnSet(f, S \ {k})
      /\ SumFunctionOnSet(g, S) = g[k] + SumFunctionOnSet(g, S \ {k})
  BY SumRemove
<1> QED
  BY <1>2, <1>3, <1>4

(* What is zero outside of a part may be summed over the part.             *)
LEMMA SumPart ==
  ASSUME NEW f, NEW S, IsFiniteSet(S), \A x \in S : f[x] \in Int,
         NEW T, T \subseteq S, \A x \in S \ T : f[x] = 0
  PROVE  SumFunctionOnSet(f, T) = SumFunctionOnSet(f, S)
<1> DEFINE Bad == {s \in SUBSET (S \ T) :
             SumFunctionOnSet(f, T \cup s) # SumFunctionOnSet(f, T)}
<1> SUFFICES ASSUME Bad # {}
             PROVE  FALSE
  <2>1. S \ T \notin Bad
    OBVIOUS
  <2>2. T \cup (S \ T) = S
    OBVIOUS
  <2> QED
    BY <2>1, <2>2
<1>1. PICK s \in Bad : IsFiniteSet(s) /\ \A t \in SUBSET s : t # s => t \notin Bad
  <2> HIDE DEF Bad
  <2>1. Bad \subseteq SUBSET (S \ T) /\ IsFiniteSet(S \ T)
    BY FS_Subset DEF Bad
  <2> QED
    BY <2>1, LeastSubset
<1>2. s # {}
  BY <1>1
<1> DEFINE c == Some(s)
           r == s \ {c}
<1>3. c \in s /\ r \in SUBSET s /\ r # s /\ f[c] = 0
  BY <1>1, <1>2, SomeIn
<1>4. SumFunctionOnSet(f, T \cup r) = SumFunctionOnSet(f, T)
  BY <1>1, <1>3
<1>5. SumFunctionOnSet(f, T \cup s) = f[c] + SumFunctionOnSet(f, T \cup r)
  <2>1. T \cup s = (T \cup r) \cup {c} /\ c \notin T \cup r
    BY <1>1, <1>3
  <2>2. IsFiniteSet(T \cup r) /\ \A x \in (T \cup r) \cup {c} : f[x] \in Int
    BY <1>1, <1>3, FS_Subset
  <2> HIDE DEF r, c
  <2> QED
    BY <2>1, <2>2, SumAdd
<1>6. SumFunctionOnSet(f, T) \in Int
  BY FS_Subset, SumInt
<1> QED
  BY <1>1, <1>3, <1>4, <1>5, <1>6

LEMMA SumZero ==
  ASSUME NEW f, NEW S, IsFiniteSet(S), \A x \in S : f[x] = 0
  PROVE  SumFunctionOnSet(f, S) = 0
<1>1. SumFunctionOnSet(f, {}) = SumFunctionOnSet(f, S)
  BY SumPart
<1> QED
  BY <1>1, SumEmpty

LEMMA SumNat ==
  ASSUME NEW f, NEW S, IsFiniteSet(S), \A x \in S : f[x] \in Nat
  PROVE  SumFunctionOnSet(f, S) \in Nat
<1> DEFINE zero == [x \in S |-> 0]
<1>1. SumFunctionOnSet(zero, S) = 0
  BY SumZero
<1>2. SumFunctionOnSet(zero, S) <= SumFunctionOnSet(f, S)
  BY SumLess
<1>3. SumFunctionOnSet(f, S) \in Int
  BY SumInt
<1> QED
  BY <1>1, <1>2, <1>3

(* The sum of the sums.                                                    *)
LEMMA SumPlus ==
  ASSUME NEW f, NEW g, NEW h, NEW S, IsFiniteSet(S),
         \A x \in S : f[x] \in Int /\ g[x] \in Int /\ h[x] = f[x] + g[x]
  PROVE  SumFunctionOnSet(h, S) = SumFunctionOnSet(f, S) + SumFunctionOnSet(g, S)
<1> DEFINE Bad == {s \in SUBSET S : SumFunctionOnSet(h, s)
                     # SumFunctionOnSet(f, s) + SumFunctionOnSet(g, s)}
<1> SUFFICES ASSUME Bad # {}
             PROVE  FALSE
  OBVIOUS
<1>1. PICK s \in Bad : IsFiniteSet(s) /\ \A t \in SUBSET s : t # s => t \notin Bad
  <2> HIDE DEF Bad
  <2>1. Bad \subseteq SUBSET S
    BY DEF Bad
  <2> QED
    BY <2>1, LeastSubset
<1>2. s # {}
  <2> SUFFICES ASSUME s = {}
               PROVE  SumFunctionOnSet(h, s)
                        = SumFunctionOnSet(f, s) + SumFunctionOnSet(g, s)
    BY <1>1
  <2>1. SumFunctionOnSet(f, s) = 0 /\ SumFunctionOnSet(g, s) = 0
        /\ SumFunctionOnSet(h, s) = 0
    BY SumEmpty
  <2> QED
    BY <2>1
<1> DEFINE c == Some(s)
           r == s \ {c}
<1>3. c \in s /\ r \in SUBSET s /\ r # s
  BY <1>1, <1>2, SomeIn
<1>4. /\ SumFunctionOnSet(f, s) = f[c] + SumFunctionOnSet(f, r)
      /\ SumFunctionOnSet(g, s) = g[c] + SumFunctionOnSet(g, r)
      /\ SumFunctionOnSet(h, s) = h[c] + SumFunctionOnSet(h, r)
  BY <1>1, <1>2, SumStep
<1>5. SumFunctionOnSet(f, r) \in Int /\ SumFunctionOnSet(g, r) \in Int
  <2>1. IsFiniteSet(r) /\ \A x \in r : f[x] \in Int /\ g[x] \in Int
    BY <1>1, FS_Subset
  <2> HIDE DEF r
  <2> QED
    BY <2>1, SumInt
<1>6. SumFunctionOnSet(h, r) = SumFunctionOnSet(f, r) + SumFunctionOnSet(g, r)
  BY <1>1, <1>3
<1>7. f[c] \in Int /\ g[c] \in Int /\ h[c] = f[c] + g[c]
  BY <1>1, <1>3
<1> QED
  BY <1>1, <1>4, <1>5, <1>6, <1>7

=============================================================================

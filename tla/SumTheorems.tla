----------------------------- MODULE SumTheorems -----------------------------
(***************************************************************************)
(* Facts about SumFunctionOnSet, the community modules' sum of a function  *)
(* over a finite set: it is a natural, loses with an element its value and *)
(* is additive over sets apart.  The fold behind it is a recursive         *)
(* function; that one exists, and that any two agree, is proved by the     *)
(* smallest set on which it would not be so.                               *)
(***************************************************************************)
EXTENDS Integers, Functions, FiniteSetTheorems, WellFoundedInduction, TLAPS

(***************************************************************************)
(* A set of naturals has a least one.                                      *)
(***************************************************************************)
LEMMA First ==
  ASSUME NEW T \in SUBSET Nat, T # {}
  PROVE  \E i \in T : \A k \in T : i <= k
<1>1. PICK i \in T : \A k \in T : ~(<<k, i>> \in OpToRel(<, Nat))
  BY NatLessThanWellFounded, WFMin
<1>2. ASSUME NEW k \in T PROVE i <= k
  <2>1. <<k, i>> \in Nat \X Nat
    OBVIOUS
  <2>2. ~(k < i)
    BY <1>1, <2>1 DEF OpToRel
  <2> QED BY <2>2
<1> QED BY <1>2

-----------------------------------------------------------------------------
(* The fold.                                                               *)

\* The element the fold takes from a set, and what it leaves.
Taken(s) == CHOOSE x \in s : TRUE
Left(s) == s \ {Taken(s)}

\* F computes, on the sets in Z, the fold that SumFunctionOnSet is.
Computes(f, Z, F) == F = [s \in Z |-> IF s = {} THEN 0 ELSE f[Taken(s)] + F[Left(s)]]

LEMMA SumIsComputed ==
  ASSUME NEW f, NEW S
  PROVE  SumFunctionOnSet(f, S) = (CHOOSE F : Computes(f, SUBSET S, F))[S]
  BY DEF SumFunctionOnSet, FoldFunctionOnSet, MapThenFoldSet, Computes, Taken, Left

LEMMA LeftSmaller ==
  ASSUME NEW s, IsFiniteSet(s), s # {}
  PROVE  /\ Taken(s) \in s /\ Left(s) \subseteq s /\ Taken(s) \notin Left(s)
         /\ IsFiniteSet(Left(s)) /\ Cardinality(s) \in Nat \ {0}
         /\ Cardinality(Left(s)) = Cardinality(s) - 1
<1>1. Taken(s) \in s
  BY DEF Taken
<1>2. IsFiniteSet(Left(s)) /\ Cardinality(Left(s)) = Cardinality(s) - 1
  BY <1>1, FS_RemoveElement DEF Left
<1>3. Cardinality(s) \in Nat /\ Cardinality(s) # 0
  BY FS_CardinalityType, FS_EmptySet
<1> QED BY <1>1, <1>2, <1>3 DEF Left

(***************************************************************************)
(* On sets they share, two such functions of the same values agree.        *)
(***************************************************************************)
LEMMA ComputedAgree ==
  ASSUME NEW Y, NEW Z, NEW f, NEW g, NEW F, NEW G,
         Computes(f, SUBSET Y, F), Computes(g, SUBSET Z, G),
         NEW s \in SUBSET Y, s \subseteq Z, IsFiniteSet(s),
         \A x \in s : f[x] = g[x]
  PROVE  F[s] = G[s]
<1> DEFINE Wrong == {n \in Nat : \E t \in SUBSET s : Cardinality(t) = n /\ F[t] # G[t]}
<1>1. Wrong = {}
  <2> SUFFICES ASSUME Wrong # {} PROVE FALSE
    OBVIOUS
  <2>1. PICK n \in Wrong : \A m \in Wrong : n <= m
    BY First
  <2>2. PICK t \in SUBSET s : Cardinality(t) = n /\ F[t] # G[t]
    BY <2>1
  <2>3. /\ F[t] = (IF t = {} THEN 0 ELSE f[Taken(t)] + F[Left(t)])
        /\ G[t] = (IF t = {} THEN 0 ELSE g[Taken(t)] + G[Left(t)])
    BY <2>2 DEF Computes
  <2>4. t # {} /\ IsFiniteSet(t)
    BY <2>2, <2>3, FS_Subset
  <2>5. F[Left(t)] # G[Left(t)]
    BY <2>2, <2>3, <2>4, LeftSmaller
  <2>6. n - 1 \in Nat /\ Cardinality(Left(t)) = n - 1 /\ Left(t) \in SUBSET s
    BY <2>2, <2>4, LeftSmaller
  <2>7. n - 1 \in Wrong
    BY <2>5, <2>6
  <2> QED BY <2>1, <2>6, <2>7
<1>2. Cardinality(s) \in Nat /\ Cardinality(s) \notin Wrong
  BY <1>1, FS_CardinalityType
<1> QED BY <1>2

(***************************************************************************)
(* There is such a function for every finite set: from one for the sets of *)
(* up to n - 1 elements follows one for those of up to n.                  *)
(***************************************************************************)
LEMMA ComputedExists ==
  ASSUME NEW f, NEW S, IsFiniteSet(S)
  PROVE  \E F : Computes(f, SUBSET S, F)
<1> DEFINE Upto(n) == {s \in SUBSET S : Cardinality(s) <= n}
           Missing == {n \in Nat : ~\E F : Computes(f, Upto(n), F)}
<1>1. ASSUME NEW s \in SUBSET S PROVE IsFiniteSet(s) /\ Cardinality(s) \in Nat
  BY FS_Subset, FS_CardinalityType
<1>2. Missing = {}
  <2> SUFFICES ASSUME Missing # {} PROVE FALSE
    OBVIOUS
  <2>1. PICK n \in Missing : \A m \in Missing : n <= m
    BY First
  <2>2. n # 0
    <3> DEFINE F == [s \in Upto(0) |-> 0]
    <3>1. \A s \in Upto(0) : s = {}
      BY <1>1, FS_EmptySet
    <3>2. Computes(f, Upto(0), F)
      BY <3>1, Zenon DEF Computes
    <3> QED BY <2>1, <3>2
  <2>3. n - 1 \in Nat /\ n - 1 \notin Missing
    <3> HIDE DEF Missing
    <3>1. n \in Nat
      BY <2>1 DEF Missing
    <3> QED BY <2>1, <2>2, <3>1
  <2>4. PICK G : Computes(f, Upto(n - 1), G)
    BY <2>3
  <2> DEFINE F == [s \in Upto(n) |-> IF s = {} THEN 0 ELSE f[Taken(s)] + G[Left(s)]]
  <2>5. ASSUME NEW s \in Upto(n), s # {} PROVE Left(s) \in Upto(n - 1) /\ Left(s) \in Upto(n)
    BY <1>1, <2>3, <2>5, LeftSmaller
  <2>6. ASSUME NEW s \in Upto(n - 1) PROVE F[s] = G[s]
    <3>1. s \in Upto(n)
      BY <1>1, <2>3
    <3>2. G[s] = IF s = {} THEN 0 ELSE f[Taken(s)] + G[Left(s)]
      BY <2>4 DEF Computes
    <3> QED BY <3>1, <3>2
  <2>7. F = [s \in Upto(n) |-> IF s = {} THEN 0 ELSE f[Taken(s)] + F[Left(s)]]
    <3>1. ASSUME NEW s \in Upto(n), s # {} PROVE F[Left(s)] = G[Left(s)]
      BY <2>5, <2>6, <3>1
    <3> HIDE DEF Upto
    <3>2. \A s \in Upto(n) : (IF s = {} THEN 0 ELSE f[Taken(s)] + G[Left(s)])
                              = (IF s = {} THEN 0 ELSE f[Taken(s)] + F[Left(s)])
      <4> HIDE DEF F
      <4> QED BY <3>1
    <3>3. F = [s \in Upto(n) |-> IF s = {} THEN 0 ELSE f[Taken(s)] + G[Left(s)]]
      OBVIOUS
    <3> HIDE DEF F
    <3> QED BY <3>2, <3>3
  <2> QED BY <2>1, <2>7 DEF Computes
<1>3. Upto(Cardinality(S)) = SUBSET S
  BY <1>1, FS_Subset
<1> QED BY <1>1, <1>2, <1>3

-----------------------------------------------------------------------------
(* Sums.                                                                   *)

(***************************************************************************)
(* A sum depends on the values at its elements only.                       *)
(***************************************************************************)
LEMMA SumAgree ==
  ASSUME NEW S, IsFiniteSet(S), NEW f, NEW g, \A x \in S : f[x] = g[x]
  PROVE  SumFunctionOnSet(f, S) = SumFunctionOnSet(g, S)
<1> DEFINE F == CHOOSE F : Computes(f, SUBSET S, F)
           G == CHOOSE G : Computes(g, SUBSET S, G)
<1>1. Computes(f, SUBSET S, F) /\ Computes(g, SUBSET S, G)
  BY ComputedExists
<1> HIDE DEF F, G
<1>2. F[S] = G[S]
  BY <1>1, ComputedAgree
<1> QED BY <1>2, SumIsComputed DEF F, G

LEMMA SumEmpty ==
  ASSUME NEW f
  PROVE  SumFunctionOnSet(f, {}) = 0
<1> DEFINE F == CHOOSE F : Computes(f, SUBSET {}, F)
<1>1. Computes(f, SUBSET {}, F)
  BY ComputedExists, FS_EmptySet
<1> QED BY <1>1, SumIsComputed DEF Computes

LEMMA SumTaken ==
  ASSUME NEW S, IsFiniteSet(S), S # {}, NEW f
  PROVE  SumFunctionOnSet(f, S) = f[Taken(S)] + SumFunctionOnSet(f, Left(S))
<1> DEFINE F == CHOOSE F : Computes(f, SUBSET S, F)
           G == CHOOSE G : Computes(f, SUBSET Left(S), G)
<1>1. IsFiniteSet(Left(S)) /\ Left(S) \subseteq S
  BY LeftSmaller
<1>2. Computes(f, SUBSET S, F) /\ Computes(f, SUBSET Left(S), G)
  BY <1>1, ComputedExists
<1>3. F[S] = f[Taken(S)] + F[Left(S)]
  BY <1>2 DEF Computes
<1>4. F[Left(S)] = G[Left(S)]
  <2> HIDE DEF F, G
  <2>1. \A x \in Left(S) : f[x] = f[x]
    OBVIOUS
  <2>2. Left(S) \in SUBSET S /\ Left(S) \subseteq Left(S)
    BY <1>1
  <2> QED BY <1>1, <1>2, <2>1, <2>2, ComputedAgree
<1>5. SumFunctionOnSet(f, S) = F[S] /\ SumFunctionOnSet(f, Left(S)) = G[Left(S)]
  BY SumIsComputed
<1> QED BY <1>3, <1>4, <1>5

(***************************************************************************)
(* A sum of naturals is a natural.                                         *)
(***************************************************************************)
LEMMA SumNat ==
  ASSUME NEW S, IsFiniteSet(S), NEW f, \A x \in S : f[x] \in Nat
  PROVE  SumFunctionOnSet(f, S) \in Nat
<1> DEFINE Sum(T) == SumFunctionOnSet(f, T)
           Wrong == {n \in Nat : \E T \in SUBSET S : Cardinality(T) = n /\ Sum(T) \notin Nat}
<1>1. ASSUME NEW T \in SUBSET S, T # {}
      PROVE  Sum(T) = f[Taken(T)] + Sum(Left(T)) /\ Taken(T) \in S /\ Left(T) \in SUBSET S
             /\ Cardinality(T) \in Nat \ {0} /\ Cardinality(Left(T)) = Cardinality(T) - 1
  BY <1>1, FS_Subset, SumTaken, LeftSmaller
<1>2. Sum({}) = 0
  BY SumEmpty
<1> HIDE DEF Sum
<1>3. Wrong = {}
  <2> SUFFICES ASSUME Wrong # {} PROVE FALSE
    OBVIOUS
  <2>1. PICK n \in Wrong : \A m \in Wrong : n <= m
    BY First
  <2>2. PICK T \in SUBSET S : Cardinality(T) = n /\ Sum(T) \notin Nat
    BY <2>1
  <2>3. T # {}
    BY <1>2, <2>2
  <2>4. n - 1 \in Nat /\ Cardinality(Left(T)) = n - 1 /\ Sum(Left(T)) \notin Nat /\ ~(n <= n - 1)
    BY <1>1, <2>2, <2>3
  <2>5. n - 1 \in Wrong
    BY <1>1, <2>3, <2>4
  <2> QED BY <2>1, <2>4, <2>5
<1>4. Cardinality(S) \in Nat /\ Cardinality(S) \notin Wrong
  BY <1>3, FS_CardinalityType
<1> QED BY <1>4 DEF Sum

(***************************************************************************)
(* A sum of zeros is zero.                                                 *)
(***************************************************************************)
LEMMA SumZero ==
  ASSUME NEW S, IsFiniteSet(S), NEW f, \A x \in S : f[x] = 0
  PROVE  SumFunctionOnSet(f, S) = 0
<1> DEFINE Sum(T) == SumFunctionOnSet(f, T)
           Wrong == {n \in Nat : \E T \in SUBSET S : Cardinality(T) = n /\ Sum(T) # 0}
<1>1. ASSUME NEW T \in SUBSET S, T # {}
      PROVE  Sum(T) = 0 + Sum(Left(T)) /\ Left(T) \in SUBSET S
             /\ Cardinality(T) \in Nat \ {0} /\ Cardinality(Left(T)) = Cardinality(T) - 1
  BY <1>1, FS_Subset, SumTaken, LeftSmaller
<1>2. Sum({}) = 0
  BY SumEmpty
<1> HIDE DEF Sum
<1>3. Wrong = {}
  <2> SUFFICES ASSUME Wrong # {} PROVE FALSE
    OBVIOUS
  <2>1. PICK n \in Wrong : \A m \in Wrong : n <= m
    BY First
  <2>2. PICK T \in SUBSET S : Cardinality(T) = n /\ Sum(T) # 0
    BY <2>1
  <2>3. T # {}
    BY <1>2, <2>2
  <2>4. n - 1 \in Nat /\ Cardinality(Left(T)) = n - 1 /\ Sum(Left(T)) # 0 /\ ~(n <= n - 1)
    BY <1>1, <2>2, <2>3
  <2>5. n - 1 \in Wrong
    BY <1>1, <2>3, <2>4
  <2> QED BY <2>1, <2>4, <2>5
<1>4. Cardinality(S) \in Nat /\ Cardinality(S) \notin Wrong
  BY <1>3, FS_CardinalityType
<1> QED BY <1>4 DEF Sum

(***************************************************************************)
(* A sum loses with an element its value, whichever element it is.         *)
(***************************************************************************)
LEMMA SumRemove ==
  ASSUME NEW S, IsFiniteSet(S), NEW f, \A x \in S : f[x] \in Nat
  PROVE  \A y \in S : SumFunctionOnSet(f, S) = f[y] + SumFunctionOnSet(f, S \ {y})
<1> DEFINE Sum(T) == SumFunctionOnSet(f, T)
           Fine(T) == \A y \in T : Sum(T) = f[y] + Sum(T \ {y})
           Wrong == {n \in Nat : \E T \in SUBSET S : Cardinality(T) = n /\ ~Fine(T)}
<1>1. ASSUME NEW T \in SUBSET S, T # {}
      PROVE  Sum(T) = f[Taken(T)] + Sum(Left(T)) /\ Taken(T) \in T /\ Left(T) \in SUBSET S
             /\ Cardinality(T) \in Nat \ {0} /\ Cardinality(Left(T)) = Cardinality(T) - 1
  BY <1>1, FS_Subset, SumTaken, LeftSmaller
<1>2. ASSUME NEW T \in SUBSET S PROVE IsFiniteSet(T) /\ Sum(T) \in Nat
  BY FS_Subset, SumNat
<1> HIDE DEF Sum
<1>3. Wrong = {}
  <2> SUFFICES ASSUME Wrong # {} PROVE FALSE
    OBVIOUS
  <2>1. PICK n \in Wrong : \A m \in Wrong : n <= m
    BY First
  <2>2. PICK T \in SUBSET S : Cardinality(T) = n /\ ~Fine(T)
    BY <2>1
  <2>3. T # {}
    BY <2>2
  <2>4. ASSUME NEW U \in SUBSET S, Cardinality(U) = n - 1 PROVE Fine(U)
    <3>1. n \in Nat \ {0} /\ n - 1 \in Nat /\ ~(n <= n - 1)
      BY <1>1, <2>2, <2>3
    <3>2. n - 1 \notin Wrong
      BY <2>1, <3>1
    <3> QED BY <2>4, <3>1, <3>2
  <2> DEFINE x == Taken(T)
             R == Left(T)
  <2>5. /\ Sum(T) = f[x] + Sum(R) /\ x \in T /\ R \in SUBSET S
        /\ Cardinality(R) = n - 1 /\ R = T \ {x}
    BY <1>1, <2>2, <2>3 DEF Left
  <2> HIDE DEF x, R
  <2>6. Fine(R)
    BY <2>4, <2>5
  <2>7. ASSUME NEW y \in T PROVE Sum(T) = f[y] + Sum(T \ {y})
    <3>1. CASE y = x
      BY <2>5, <3>1
    <3>2. CASE y # x
      <4> DEFINE U == T \ {y}
                 V == R \ {y}
      <4>1. y \in R /\ x \in U /\ U \in SUBSET S /\ V \in SUBSET S /\ V = U \ {x}
        BY <2>2, <2>5, <3>2
      <4>2. Cardinality(U) = n - 1
        BY <1>2, <2>2, FS_RemoveElement
      <4>3. Fine(U)
        BY <2>4, <4>1, <4>2
      <4>4. Sum(R) = f[y] + Sum(V)
        BY <2>6, <4>1
      <4>5. Sum(U) = f[x] + Sum(V)
        BY <4>1, <4>3
      <4>6. Sum(V) \in Nat /\ f[x] \in Nat /\ f[y] \in Nat
        BY <1>2, <2>2, <2>5, <4>1
      <4> HIDE DEF U, V
      <4>7. \A a, b, v \in Nat : a + (b + v) = b + (a + v)
        OBVIOUS
      <4>8. Sum(T) = f[y] + Sum(U)
        BY <2>5, <4>4, <4>5, <4>6, <4>7
      <4> QED BY <4>8 DEF U
    <3> QED BY <3>1, <3>2
  <2> QED BY <2>2, <2>7
<1>4. Cardinality(S) \in Nat /\ Cardinality(S) \notin Wrong /\ S \in SUBSET S
  BY <1>3, FS_CardinalityType
<1> QED BY <1>4 DEF Sum

(***************************************************************************)
(* The sum over two sets apart is the sum of theirs.                       *)
(***************************************************************************)
LEMMA SumSplit ==
  ASSUME NEW A, NEW B, IsFiniteSet(A), IsFiniteSet(B), A \cap B = {},
         NEW f, \A x \in A \cup B : f[x] \in Nat
  PROVE  SumFunctionOnSet(f, A \cup B) = SumFunctionOnSet(f, A) + SumFunctionOnSet(f, B)
<1> DEFINE Sum(T) == SumFunctionOnSet(f, T)
           Wrong == {n \in Nat : \E T \in SUBSET B : Cardinality(T) = n /\ Sum(A \cup T) # Sum(A) + Sum(T)}
<1>1. ASSUME NEW T \in SUBSET B
      PROVE  /\ IsFiniteSet(T) /\ Cardinality(T) \in Nat /\ Sum(A) \in Nat /\ Sum(T) \in Nat
             /\ \A y \in T : Sum(T) = f[y] + Sum(T \ {y})
             /\ \A y \in T : Sum(A \cup T) = f[y] + Sum((A \cup T) \ {y})
  <2>1. IsFiniteSet(T) /\ Cardinality(T) \in Nat /\ IsFiniteSet(A \cup T)
    BY FS_Subset, FS_CardinalityType, FS_Union
  <2> QED BY <2>1, SumRemove, SumNat
<1>2. Sum({}) = 0
  BY SumEmpty
<1> HIDE DEF Sum
<1>3. Wrong = {}
  <2> SUFFICES ASSUME Wrong # {} PROVE FALSE
    OBVIOUS
  <2>1. PICK n \in Wrong : \A m \in Wrong : n <= m
    BY First
  <2>2. PICK T \in SUBSET B : Cardinality(T) = n /\ Sum(A \cup T) # Sum(A) + Sum(T)
    BY <2>1
  <2>3. T # {}
    <3>1. Sum(A) \in Nat
      BY <1>1
    <3> QED BY <1>2, <2>2, <3>1
  <2>4. PICK y : y \in T
    BY <2>3
  <2> DEFINE R == T \ {y}
  <2>5. R \in SUBSET B /\ (A \cup T) \ {y} = A \cup R
    BY <2>2, <2>4
  <2>6. Cardinality(R) = n - 1 /\ n - 1 \in Nat /\ ~(n <= n - 1)
    <3>1. IsFiniteSet(T) /\ Cardinality(T) \in Nat /\ Cardinality(R) \in Nat
      BY <1>1, <2>2, <2>5
    <3>2. Cardinality(R) = Cardinality(T) - 1
      BY <2>4, <3>1, FS_RemoveElement
    <3> QED BY <2>2, <3>1, <3>2
  <2>7. Sum(A \cup R) = Sum(A) + Sum(R)
    BY <2>1, <2>5, <2>6
  <2>8. Sum(T) = f[y] + Sum(R) /\ Sum(A \cup T) = f[y] + Sum(A \cup R)
    <3>1. Sum(T) = f[y] + Sum(T \ {y})
      BY <1>1, <2>2, <2>4
    <3>2. Sum(A \cup T) = f[y] + Sum((A \cup T) \ {y})
      BY <1>1, <2>2, <2>4
    <3>3. Sum((A \cup T) \ {y}) = Sum(A \cup R)
      BY <2>5
    <3> QED BY <3>1, <3>2, <3>3
  <2>9. Sum(A) \in Nat /\ Sum(R) \in Nat /\ f[y] \in Nat
    BY <1>1, <2>4, <2>5
  <2> HIDE DEF R
  <2>10. \A a, b, c \in Nat : a + (b + c) = b + (a + c)
    OBVIOUS
  <2> QED BY <2>2, <2>7, <2>8, <2>9, <2>10
<1>4. Cardinality(B) \in Nat /\ Cardinality(B) \notin Wrong /\ B \in SUBSET B
  BY <1>3, FS_CardinalityType
<1> QED BY <1>4 DEF Sum

(***************************************************************************)
(* Fewer elements sum to no more.                                          *)
(***************************************************************************)
LEMMA SumSubset ==
  ASSUME NEW S, IsFiniteSet(S), NEW A \in SUBSET S, NEW f, \A x \in S : f[x] \in Nat
  PROVE  SumFunctionOnSet(f, A) <= SumFunctionOnSet(f, S)
<1>1. IsFiniteSet(A) /\ IsFiniteSet(S \ A) /\ A \cup (S \ A) = S /\ A \cap (S \ A) = {}
  BY FS_Subset
<1>2. SumFunctionOnSet(f, S) = SumFunctionOnSet(f, A) + SumFunctionOnSet(f, S \ A)
  BY <1>1, SumSplit
<1>3. SumFunctionOnSet(f, A) \in Nat /\ SumFunctionOnSet(f, S \ A) \in Nat
  BY <1>1, SumNat
<1> QED BY <1>2, <1>3
=============================================================================

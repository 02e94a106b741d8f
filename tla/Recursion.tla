----------------------------- MODULE Recursion -----------------------------
(***************************************************************************)
(* Recursive definitions over finite ranks: functions that are what their  *)
(* definitions say, and folds over sequences.                              *)
(***************************************************************************)
EXTENDS Integers, Sequences, TLAPS, WellFoundedInduction, FiniteSetTheorems

\* A set of natural numbers has a least element.
LEMMA Least ==
    ASSUME NEW T \in SUBSET Nat, T # {}
    PROVE  \E x \in T : \A y \in T : x <= y
<1>1. PICK x \in T : \A y \in T : ~ (<<y, x>> \in OpToRel(<, Nat))
  BY NatLessThanWellFounded, WFMin
<1>2. \A y \in Nat : y < x => <<y, x>> \in OpToRel(<, Nat)
  BY DEF OpToRel
<1>3. \A y \in T : ~(y < x)
  BY <1>1, <1>2
<1> QED BY <1>3

\* H[g] is what g is defined to be, in terms of its values at elements of lower rank.
Recursive(S, T, N, rank, H) ==
    /\ T # {} /\ N \in Nat /\ rank \in [S -> 0..N] /\ H \in [[S -> T] -> [S -> T]]
    /\ \A g, h \in [S -> T] : \A s \in S :
          (\A t \in S : rank[t] < rank[s] => g[t] = h[t]) => H[g][s] = H[h][s]

\* Some function is what the definition H says.
LEMMA Recursion ==
    ASSUME NEW S, NEW T, NEW N, NEW rank, NEW H, Recursive(S, T, N, rank, H)
    PROVE  \E g \in [S -> T] : g = H[g]
<1> DEFINE Upto(n) == \E g \in [S -> T] : \A s \in S : rank[s] < n => g[s] = H[g][s]
           Not == {n \in Nat : ~Upto(n)}
<1>. /\ T # {} /\ N \in Nat /\ rank \in [S -> 0..N] /\ H \in [[S -> T] -> [S -> T]]
     /\ \A g, h \in [S -> T] : \A s \in S :
           (\A t \in S : rank[t] < rank[s] => g[t] = h[t]) => H[g][s] = H[h][s]
  BY DEF Recursive
<1>1. Upto(0)
  <2>1. PICK t \in T : TRUE
    OBVIOUS
  <2>2. [s \in S |-> t] \in [S -> T]
    BY <2>1
  <2>3. \A s \in S : ~(rank[s] < 0)
    OBVIOUS
  <2> QED BY <2>2, <2>3
<1>2. ASSUME NEW n \in Nat, Upto(n)
      PROVE  Upto(n + 1)
  <2>1. PICK g \in [S -> T] : \A s \in S : rank[s] < n => g[s] = H[g][s]
    BY <1>2
  <2>2. H[g] \in [S -> T]
    OBVIOUS
  <2>3. ASSUME NEW s \in S, rank[s] < n + 1
        PROVE  H[g][s] = H[H[g]][s]
    <3>1. \A t \in S : rank[t] < rank[s] => g[t] = H[g][t]
      BY <2>1, <2>3
    <3> QED BY <2>2, <3>1
  <2> QED BY <2>2, <2>3
<1>3. \A n \in Nat : Upto(n)
  <2> SUFFICES ASSUME Not # {}
               PROVE  FALSE
    BY DEF Not
  <2>1. PICK n \in Not : \A m \in Not : n <= m
    BY Least
  <2>2. n \in Nat /\ ~Upto(n)
    OBVIOUS
  <2>3. n # 0
    BY <1>1, <2>2
  <2>4. n - 1 \in Nat /\ n - 1 \notin Not /\ (n - 1) + 1 = n
    BY <2>1, <2>2, <2>3
  <2>5. Upto(n - 1)
    BY <2>4
  <2>6. Upto(n)
    <3> HIDE DEF Upto
    <3> QED BY <1>2, <2>4, <2>5
  <2> QED BY <2>2, <2>6
<1>4. PICK g \in [S -> T] : \A s \in S : rank[s] < N + 1 => g[s] = H[g][s]
  BY <1>3
<1>5. \A s \in S : g[s] = H[g][s]
  BY <1>4
<1>6. H[g] \in [S -> T]
  OBVIOUS
<1> QED BY <1>5, <1>6

\* f and g agree at s if they agree at all elements of lower rank.
Determined(S, N, rank, f, g) ==
    /\ N \in Nat /\ rank \in [S -> 0..N]
    /\ \A s \in S : (\A t \in S : rank[t] < rank[s] => f[t] = g[t]) => f[s] = g[s]

\* Then they agree everywhere.
LEMMA Unique ==
    ASSUME NEW S, NEW N, NEW rank, NEW f, NEW g, Determined(S, N, rank, f, g)
    PROVE  \A s \in S : f[s] = g[s]
<1>. DEFINE Ranks == {rank[s] : s \in {t \in S : f[t] # g[t]}}
<1>0. /\ N \in Nat /\ rank \in [S -> 0..N]
      /\ \A s \in S : (\A t \in S : rank[t] < rank[s] => f[t] = g[t]) => f[s] = g[s]
  BY DEF Determined
<1>1. Ranks \in SUBSET Nat
  BY <1>0
<1>2. SUFFICES ASSUME Ranks # {} PROVE FALSE
  OBVIOUS
<1>3. PICK n \in Ranks : \A m \in Ranks : n <= m
  <2>. HIDE DEF Ranks
  <2>. QED BY <1>1, <1>2, Least
<1>4. PICK s \in S : rank[s] = n /\ f[s] # g[s]
  BY <1>3
<1>5. ASSUME NEW t \in S, rank[t] < rank[s], f[t] # g[t] PROVE FALSE
  <2>1. rank[t] \in Ranks
    BY <1>5
  <2>2. n <= rank[t] /\ rank[t] \in Nat /\ rank[s] \in Nat
    <3>. HIDE DEF Ranks
    <3>. QED BY <1>0, <1>3, <2>1
  <2>. QED BY <1>4, <1>5, <2>2
<1>. QED BY <1>0, <1>4, <1>5

-----------------------------------------------------------------------------
(* Folds over finite sets                                                  *)

\* A set of finite sets has a smallest element.
LEMMA SmallestSet ==
    ASSUME NEW S, IsFiniteSet(S), NEW B \in SUBSET (SUBSET S), B # {}
    PROVE  \E s \in B : \A t \in B : Cardinality(s) <= Cardinality(t)
<1>. DEFINE Cards == {Cardinality(s) : s \in B}
<1>1. \A s \in B : Cardinality(s) \in Nat
  BY FS_Subset, FS_CardinalityType
<1>2. Cards \in SUBSET Nat /\ Cards # {}
  BY <1>1
<1>3. PICK n \in Cards : \A m \in Cards : n <= m
  <2>. HIDE DEF Cards
  <2>. QED BY <1>2, Least
<1>. QED BY <1>3

\* Without one of its elements a finite set is smaller.
LEMMA Smaller ==
    ASSUME NEW S, IsFiniteSet(S), NEW s \in SUBSET S, NEW x \in s
    PROVE  s \ {x} \in SUBSET S /\ Cardinality(s \ {x}) \in Nat /\ Cardinality(s \ {x}) < Cardinality(s)
<1>1. IsFiniteSet(s)
  BY FS_Subset
<1>2. Cardinality(s \ {x}) = Cardinality(s) - 1 /\ Cardinality(s) \in Nat /\ IsFiniteSet(s \ {x})
  BY <1>1, FS_RemoveElement, FS_CardinalityType
<1>3. Cardinality(s \ {x}) \in Nat
  BY <1>2, FS_CardinalityType
<1>. QED BY <1>2, <1>3

\* The elements of S, taken in the order of pick, can be folded into base; D are
\* the sets of elements that may be left.
Foldable(S, D, T, base, step, pick) ==
    /\ IsFiniteSet(S) /\ D = SUBSET S /\ base \in T /\ step \in [S \X T -> T]
    /\ \A s \in D : s # {} => pick[s] \in s

LEMMA FoldSolution ==
    ASSUME NEW S, NEW D, NEW T, NEW base, NEW step, NEW pick, Foldable(S, D, T, base, step, pick)
    PROVE  \E g \in [D -> T] :
              \A s \in D : g[s] = IF s = {} THEN base ELSE step[<<pick[s], g[s \ {pick[s]}]>>]
<1>0. D = SUBSET S
  BY DEF Foldable
<1>. /\ IsFiniteSet(S) /\ base \in T /\ step \in [S \X T -> T]
     /\ \A s \in D : s # {} => pick[s] \in s
  BY DEF Foldable
<1>. DEFINE H == [g \in [D -> T] |->
                     [s \in D |-> IF s = {} THEN base ELSE step[<<pick[s], g[s \ {pick[s]}]>>]]]
            rank == [s \in D |-> Cardinality(s)]
            N == Cardinality(S)
<1>1. N \in Nat /\ rank \in [D -> 0..N]
  <2>1. ASSUME NEW s \in D PROVE Cardinality(s) \in 0..N
    <3>1. IsFiniteSet(s) /\ Cardinality(s) <= Cardinality(S)
      BY <1>0, FS_Subset
    <3>2. Cardinality(s) \in Nat /\ Cardinality(S) \in Nat
      BY <3>1, FS_CardinalityType
    <3>. QED BY <3>1, <3>2
  <2>2. N \in Nat
    BY FS_CardinalityType
  <2>. QED BY <2>1, <2>2
<1>2. ASSUME NEW s \in D, s # {}
      PROVE  /\ pick[s] \in S /\ s \ {pick[s]} \in D
             /\ rank[s \ {pick[s]}] < rank[s]
  <2>1. pick[s] \in s
    BY <1>2
  <2>2. s \ {pick[s]} \in SUBSET S /\ Cardinality(s \ {pick[s]}) < Cardinality(s)
    BY <1>0, <2>1, Smaller
  <2>. QED BY <1>0, <2>1, <2>2
<1>3. H \in [[D -> T] -> [D -> T]]
  <2>. SUFFICES ASSUME NEW g \in [D -> T], NEW s \in D, s # {}
                PROVE  step[<<pick[s], g[s \ {pick[s]}]>>] \in T
    OBVIOUS
  <2>1. pick[s] \in S /\ g[s \ {pick[s]}] \in T
    BY <1>2
  <2>. QED BY <2>1
<1>4. ASSUME NEW g \in [D -> T], NEW h \in [D -> T], NEW s \in D,
             \A t \in D : rank[t] < rank[s] => g[t] = h[t]
      PROVE  H[g][s] = H[h][s]
  <2>1. s # {} => g[s \ {pick[s]}] = h[s \ {pick[s]}]
    <3>. HIDE DEF rank
    <3>. QED BY <1>2, <1>4
  <2>. QED BY <2>1
<1>5. T # {}
  OBVIOUS
<1>6. \A g, h \in [D -> T] : \A s \in D :
          (\A t \in D : rank[t] < rank[s] => g[t] = h[t]) => H[g][s] = H[h][s]
  <2>. HIDE DEF H, rank
  <2>. QED BY <1>4
<1>7. \E g \in [D -> T] : g = H[g]
  <2>. HIDE DEF H, rank, N
  <2>1. Recursive(D, T, N, rank, H)
    BY <1>1, <1>3, <1>5, <1>6 DEF Recursive
  <2>. QED BY <2>1, Recursion
<1>8. PICK g \in [D -> T] : g = H[g]
  BY <1>7
<1>9. \A s \in D : g[s] = IF s = {} THEN base ELSE step[<<pick[s], g[s \ {pick[s]}]>>]
  BY <1>8
<1>. QED BY <1>8, <1>9
=============================================================================

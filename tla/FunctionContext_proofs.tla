----------------------- MODULE FunctionContext_proofs -----------------------
(***************************************************************************)
(* Proofs, for every program without a recursive function that requires    *)
(* verification: the inputs of every proof are where its circuit takes     *)
(* them, and the variables have their types.  Unless msg, block and tx     *)
(* were refused once, a simulator is clean between calls, and is_external  *)
(* is true exactly in the function the user called.                        *)
(*                                                                         *)
(* The layout of the inputs is recursive over sequences and over the       *)
(* program.  What is claimed of every number, or of every function, is     *)
(* proved from the least one of which it does not hold (Least).            *)
(***************************************************************************)
EXTENDS FunctionContext, Recursion

-----------------------------------------------------------------------------
(* Sums and concatenations                                                 *)

\* Sums(v) has the values its definition says.
LEMMA SumsAre ==
    ASSUME NEW v \in Seq(Nat)
    PROVE  /\ Sums(v) \in [0..Len(v) -> Nat] /\ Sums(v)[0] = 0
           /\ \A i \in 1..Len(v) : Sums(v)[i] = Sums(v)[i - 1] + v[i]
<1> DEFINE S == 0..Len(v)
           H == [g \in [S -> Nat] |-> [i \in S |-> IF i = 0 THEN 0 ELSE g[i - 1] + v[i]]]
           rank == [i \in S |-> i]
<1>1. \E g \in [S -> Nat] : g = H[g]
  <2>1. H \in [[S -> Nat] -> [S -> Nat]]
    OBVIOUS
  <2>2. rank \in [S -> 0..Len(v)] /\ Len(v) \in Nat
    OBVIOUS
  <2>3. ASSUME NEW g \in [S -> Nat], NEW h \in [S -> Nat], NEW s \in S,
               \A t \in S : rank[t] < rank[s] => g[t] = h[t]
        PROVE  H[g][s] = H[h][s]
    <3>1. s # 0 => s - 1 \in S /\ g[s - 1] = h[s - 1]
      BY <2>3
    <3> QED BY <3>1
  <2>4. \A g, h \in [S -> Nat] : \A s \in S :
              (\A t \in S : rank[t] < rank[s] => g[t] = h[t]) => H[g][s] = H[h][s]
    BY <2>3
  <2>5. Nat # {}
    OBVIOUS
  <2> HIDE DEF H, rank, S
  <2>6. Recursive(S, Nat, Len(v), rank, H)
    BY <2>1, <2>2, <2>4, <2>5 DEF Recursive
  <2> QED BY <2>6, Recursion
<1>2. Sums(v) = [i \in S |-> IF i = 0 THEN 0 ELSE Sums(v)[i - 1] + v[i]]
  BY <1>1 DEF Sums
<1>3. ASSUME NEW n \in Nat, \A m \in 0 .. n - 1 : m \in S => Sums(v)[m] \in Nat, n \in S
      PROVE  Sums(v)[n] \in Nat
  BY <1>2, <1>3
<1>4. \A n \in S : Sums(v)[n] \in Nat
  <2> DEFINE Bad == {n \in S : Sums(v)[n] \notin Nat}
  <2> HIDE DEF Bad
  <2> SUFFICES ASSUME Bad # {} PROVE FALSE
    BY DEF Bad
  <2>. Bad \in SUBSET Nat
    BY DEF Bad
  <2>1. PICK n \in Bad : \A m \in Bad : n <= m
    BY Least
  <2>2. n \in S /\ n \in Nat /\ Sums(v)[n] \notin Nat
    BY <2>1 DEF Bad
  <2>3. \A m \in 0 .. n - 1 : m \in S => Sums(v)[m] \in Nat
    BY <2>1, <2>2 DEF Bad
  <2> QED BY <1>3, <2>2, <2>3
<1>5. Sums(v) \in [S -> Nat]
  <2> HIDE DEF S
  <2> QED BY <1>2, <1>4
<1>6. 0 \in S /\ \A i \in 1..Len(v) : i \in S /\ i # 0
  OBVIOUS
<1>. HIDE DEF S, H, rank
<1>7. Sums(v)[0] = 0 /\ \A i \in 1..Len(v) : Sums(v)[i] = Sums(v)[i - 1] + v[i]
  BY <1>2, <1>6
<1> QED BY <1>5, <1>7 DEF S

\* The sums grow, and every number up to the last one is reached by one of them.
LEMMA SumsGrow ==
    ASSUME NEW v \in Seq(Nat)
    PROVE  /\ \A i, j \in 0..Len(v) : i <= j => Sums(v)[i] <= Sums(v)[j]
           /\ \A n \in 1..Sums(v)[Len(v)] : \E i \in 1..Len(v) :
                 Sums(v)[i - 1] < n /\ n <= Sums(v)[i]
<1>. DEFINE s == Sums(v)
<1>1. /\ s \in [0..Len(v) -> Nat] /\ s[0] = 0 /\ Len(v) \in Nat
      /\ \A i \in 1..Len(v) : s[i] = s[i - 1] + v[i]
  BY SumsAre
<1>. HIDE DEF s
<1>. \A i \in 0..Len(v) : s[i] \in Nat
  BY <1>1
<1>2. \A i, j \in 0..Len(v) : i <= j => s[i] <= s[j]
  <2>. DEFINE Bad == {j \in 0..Len(v) : \E i \in 0..j : ~(s[i] <= s[j])}
  <2>. HIDE DEF Bad
  <2>. SUFFICES ASSUME NEW x \in 0..Len(v), NEW y \in 0..Len(v), x <= y, ~(s[x] <= s[y])
                PROVE  FALSE
    OBVIOUS
  <2>. Bad # {}
    <3>1. x \in 0..y
      BY <1>1
    <3>. QED BY <3>1 DEF Bad
  <2>. Bad \in SUBSET Nat
    BY DEF Bad
  <2>1. PICK j \in Bad : \A m \in Bad : j <= m
    BY Least
  <2>2. PICK i \in 0..j : ~(s[i] <= s[j])
    BY DEF Bad
  <2>3. j \in 0..Len(v) /\ i \in 0..Len(v) /\ s[i] \in Nat /\ s[j] \in Nat
    <3>1. j \in 0..Len(v)
      BY DEF Bad
    <3>2. i \in 0..Len(v)
      BY <1>1, <3>1
    <3>. QED BY <3>1, <3>2
  <2>4. i # j
    BY <2>2, <2>3
  <2>5. j - 1 \in 0..Len(v) /\ j - 1 \notin Bad /\ i \in 0..(j - 1)
    BY <2>1, <2>2, <2>3, <2>4, <1>1
  <2>6. s[i] <= s[j - 1]
    BY <2>5 DEF Bad
  <2>7. s[j] = s[j - 1] + v[j] /\ v[j] \in Nat
    BY <1>1, <2>3, <2>5
  <2>8. s[j - 1] \in Nat
    BY <2>5
  <2>. QED BY <2>2, <2>3, <2>6, <2>7, <2>8
<1>3. ASSUME NEW n \in 1..s[Len(v)]
      PROVE  \E i \in 1..Len(v) : s[i - 1] < n /\ n <= s[i]
  <2>. DEFINE Up == {i \in 0..Len(v) : n <= s[i]}
  <2>1. Up \in SUBSET Nat /\ Len(v) \in Up /\ 0 \notin Up
    BY <1>1
  <2>2. PICK i \in Up : \A m \in Up : i <= m
    <3>. HIDE DEF Up
    <3>. QED BY <2>1, Least
  <2>3. i \in 1..Len(v) /\ n <= s[i]
    BY <2>1
  <2>4. i - 1 \in 0..Len(v) /\ i - 1 \notin Up
    BY <2>2, <2>3, <1>1
  <2>5. s[i - 1] \in Nat /\ ~(n <= s[i - 1])
    BY <1>1, <2>4
  <2>6. s[Len(v)] \in Nat /\ n \in Nat
    BY <1>1
  <2>7. s[i - 1] < n
    BY <2>5, <2>6
  <2>. QED BY <2>3, <2>7
<1>. QED BY <1>2, <1>3 DEF s

\* The elements of a concatenation.
LEMMA Concatenated ==
    ASSUME NEW X, NEW a \in Seq(X), NEW b \in Seq(X)
    PROVE  /\ a \o b \in Seq(X) /\ Len(a \o b) = Len(a) + Len(b)
           /\ Len(a) \in Nat /\ Len(b) \in Nat
           /\ \A k \in 1..Len(a) : (a \o b)[k] = a[k]
           /\ \A k \in 1..Len(b) : (a \o b)[Len(a) + k] = b[k]
  OBVIOUS

\* A position in a segment lies below what bounds the segment.
LEMMA Within ==
    \A p, k, c, r \in Nat : k <= c /\ p + c <= r => p + k <= r
OBVIOUS

\* The elements of the concatenation of sequences whose lengths are v.
LEMMA Flattened ==
    ASSUME NEW X, NEW ss \in Seq(Seq(X)),
           NEW v \in Seq(Nat), Len(v) = Len(ss), \A i \in 1..Len(ss) : v[i] = Len(ss[i])
    PROVE  /\ FlattenSeq(ss) \in Seq(X) /\ Len(FlattenSeq(ss)) = Sums(v)[Len(v)]
           /\ \A i \in 1..Len(v) : \A k \in 1..v[i] :
                 FlattenSeq(ss)[Sums(v)[i - 1] + k] = ss[i][k]
<1>. DEFINE S == 1..Len(ss)
            T == Seq(X)
            H == [g \in [S -> T] |-> [i \in S |-> IF i = 1 THEN ss[i] ELSE g[i - 1] \o ss[i]]]
            rank == [i \in S |-> i]
            flatten == CHOOSE g : g = [i \in S |-> IF i = 1 THEN ss[i] ELSE g[i - 1] \o ss[i]]
<1>1. /\ Sums(v) \in [0..Len(v) -> Nat] /\ Sums(v)[0] = 0 /\ Len(v) \in Nat
      /\ \A i \in 1..Len(v) : Sums(v)[i] = Sums(v)[i - 1] + v[i]
  BY SumsAre
<1>. \A i \in 0..Len(v) : Sums(v)[i] \in Nat
  BY <1>1
<1>. \A i \in 1..Len(v) : ss[i] \in Seq(X) /\ Len(ss[i]) = v[i] /\ v[i] \in Nat /\ i - 1 \in 0..Len(v)
  BY <1>1
<1>2. CASE Len(ss) = 0
  <2>1. FlattenSeq(ss) = <<>> /\ ss = <<>>
    BY <1>2 DEF FlattenSeq
  <2>. QED BY <1>1, <1>2, <2>1
<1>3. CASE Len(ss) # 0
  <2>1. \E g \in [S -> T] : g = H[g]
    <3>1. H \in [[S -> T] -> [S -> T]]
      <4>1. ASSUME NEW g \in [S -> T], NEW i \in S
            PROVE  (IF i = 1 THEN ss[i] ELSE g[i - 1] \o ss[i]) \in T
        <5>1. ss[i] \in T
          OBVIOUS
        <5>2. i # 1 => i - 1 \in S
          OBVIOUS
        <5>3. i # 1 => g[i - 1] \in T
          <6>. HIDE DEF S, T
          <6>. QED BY <5>2
        <5>. QED BY <5>1, <5>3
      <4>. HIDE DEF S, T
      <4>. QED BY <4>1
    <3>2. rank \in [S -> 0..Len(ss)] /\ Len(ss) \in Nat
      OBVIOUS
    <3>3. ASSUME NEW g \in [S -> T], NEW h \in [S -> T], NEW s \in S,
                 \A t \in S : rank[t] < rank[s] => g[t] = h[t]
          PROVE  H[g][s] = H[h][s]
      <4>1. s # 1 => s - 1 \in S /\ g[s - 1] = h[s - 1]
        BY <3>3
      <4>. HIDE DEF T
      <4>. QED BY <4>1
    <3>4. \A g, h \in [S -> T] : \A s \in S :
              (\A t \in S : rank[t] < rank[s] => g[t] = h[t]) => H[g][s] = H[h][s]
      <4>. HIDE DEF H, rank, S, T
      <4>. QED BY <3>3
    <3>5. T # {}
      <4>1. <<>> \in Seq(X)
        OBVIOUS
      <4>. QED BY <4>1
    <3>. HIDE DEF H, rank, S, T
    <3>6. Recursive(S, T, Len(ss), rank, H)
      BY <3>1, <3>2, <3>4, <3>5 DEF Recursive
    <3>. QED BY <3>6, Recursion
  <2>2. flatten = [i \in S |-> IF i = 1 THEN ss[i] ELSE flatten[i - 1] \o ss[i]]
    <3>1. \E g : g = [i \in S |-> IF i = 1 THEN ss[i] ELSE g[i - 1] \o ss[i]]
      <4>. HIDE DEF S, T
      <4>. QED BY <2>1
    <3>. HIDE DEF S
    <3>. QED BY <3>1
  <2>3. FlattenSeq(ss) = flatten[Len(ss)]
    BY <1>3 DEF FlattenSeq
  <2>. DEFINE Good(i) ==
                /\ flatten[i] \in Seq(X) /\ Len(flatten[i]) = Sums(v)[i]
                /\ \A j \in 1..i : \A k \in 1..v[j] : flatten[i][Sums(v)[j - 1] + k] = ss[j][k]
              Bad == {i \in S : ~Good(i)}
  <2>4. flatten[1] = ss[1] /\ \A i \in S : i # 1 => flatten[i] = flatten[i - 1] \o ss[i]
    <3>1. 1 \in S
      BY <1>3
    <3>. HIDE DEF S, flatten
    <3>. QED BY <2>2, <3>1
  <2>. HIDE DEF flatten
  <2>5. Good(1)
    BY <2>4, <1>1, <1>3
  <2>6. ASSUME NEW i \in S, i # 1, Good(i - 1)
        PROVE  Good(i)
    <3>1. /\ flatten[i] = flatten[i - 1] \o ss[i] /\ ss[i] \in Seq(X) /\ Len(ss[i]) = v[i]
          /\ i \in 1..Len(v) /\ i - 1 \in 1..Len(v)
      <4>1. i \in 1..Len(v)
        OBVIOUS
      <4>2. flatten[i] = flatten[i - 1] \o ss[i]
        BY <2>4, <2>6
      <4>3. i - 1 \in 1..Len(v)
        BY <2>6, <4>1
      <4>. HIDE DEF S
      <4>. QED BY <4>1, <4>2, <4>3
    <3>2. flatten[i - 1] \in Seq(X) /\ Len(flatten[i - 1]) = Sums(v)[i - 1]
      BY <2>6
    <3>3. Sums(v)[i - 1] \in Nat /\ v[i] \in Nat /\ Sums(v)[i] = Sums(v)[i - 1] + v[i]
      BY <1>1, <3>1
    <3>0. /\ flatten[i] \in Seq(X) /\ Len(flatten[i]) = Len(flatten[i - 1]) + Len(ss[i])
          /\ \A k \in 1..Len(flatten[i - 1]) : flatten[i][k] = flatten[i - 1][k]
          /\ \A k \in 1..Len(ss[i]) : flatten[i][Len(flatten[i - 1]) + k] = ss[i][k]
      <4>1. flatten[i - 1] \in Seq(X) /\ ss[i] \in Seq(X) /\ flatten[i] = flatten[i - 1] \o ss[i]
        BY <3>1, <3>2
      <4>. HIDE DEF S, Good
      <4>. DEFINE a == flatten[i - 1]  b == ss[i]  c == flatten[i]
      <4>2. a \in Seq(X) /\ b \in Seq(X) /\ c = a \o b
        BY <4>1
      <4>. HIDE DEF a, b, c
      <4>3. /\ c \in Seq(X) /\ Len(c) = Len(a) + Len(b)
            /\ \A k \in 1..Len(a) : c[k] = a[k]
            /\ \A k \in 1..Len(b) : c[Len(a) + k] = b[k]
        BY <4>2, Concatenated
      <4>. QED BY <4>3 DEF a, b, c
    <3>4. flatten[i] \in Seq(X) /\ Len(flatten[i]) = Sums(v)[i]
      <4>. HIDE DEF S, Good
      <4>. QED BY <3>0, <3>1, <3>2, <3>3
    <3>5. ASSUME NEW j \in 1..i, NEW k \in 1..v[j]
          PROVE  flatten[i][Sums(v)[j - 1] + k] = ss[j][k]
      <4>1. CASE j = i
        <5>1. flatten[i][Len(flatten[i - 1]) + k] = ss[i][k]
          <6>. HIDE DEF S, Good
          <6>. QED BY <3>0, <3>1, <4>1
        <5>. QED BY <5>1, <3>2, <4>1
      <4>2. CASE j # i
        <5>1. j \in 1..(i - 1) /\ j \in 1..Len(v)
          BY <3>1, <4>2
        <5>2. flatten[i - 1][Sums(v)[j - 1] + k] = ss[j][k]
          BY <2>6, <5>1
        <5>3. Sums(v)[j] <= Sums(v)[i - 1]
          BY <3>1, <5>1, SumsGrow
        <5>4. Sums(v)[j] = Sums(v)[j - 1] + v[j] /\ Sums(v)[j - 1] \in Nat /\ v[j] \in Nat
          BY <1>1, <5>1
        <5>5. Sums(v)[j - 1] + k \in 1..Len(flatten[i - 1])
          <6>1. k \in Nat /\ 1 <= k /\ k <= v[j]
            BY <5>4
          <6>2. Sums(v)[j - 1] + k <= Sums(v)[i - 1]
            <7>. DEFINE p == Sums(v)[j - 1]  q == Sums(v)[j]  r == Sums(v)[i - 1]
            <7>1. p \in Nat /\ r \in Nat /\ q = p + v[j] /\ q <= r /\ v[j] \in Nat
              BY <3>3, <5>3, <5>4
            <7>. HIDE DEF p, q, r
            <7>2. p + v[j] <= r
              BY <7>1
            <7>3. p + k <= r
              BY <6>1, <7>1, <7>2, Within, Zenon
            <7>. QED BY <7>3 DEF p, r
          <6>3. Sums(v)[j - 1] + k \in Nat /\ 1 <= Sums(v)[j - 1] + k
            <7>. DEFINE p == Sums(v)[j - 1]
            <7>1. p \in Nat
              BY <5>4
            <7>. HIDE DEF p
            <7>2. p + k \in Nat /\ 1 <= p + k
              BY <6>1, <7>1
            <7>. QED BY <7>2 DEF p
          <6>. QED BY <3>2, <6>2, <6>3
        <5>. HIDE DEF S, Good
        <5>. QED BY <3>0, <5>2, <5>5
      <4>. QED BY <4>1, <4>2
    <3>. QED BY <3>4, <3>5
  <2>7. \A i \in S : Good(i)
    <3>. HIDE DEF Good
    <3>. SUFFICES ASSUME Bad # {} PROVE FALSE
      OBVIOUS
    <3>1. Bad \in SUBSET Nat
      OBVIOUS
    <3>2. PICK i \in Bad : \A m \in Bad : i <= m
      <4>. HIDE DEF Bad
      <4>. QED BY <3>1, Least
    <3>3. i \in S /\ ~Good(i) /\ i # 1
      BY <2>5
    <3>4. i - 1 \in S /\ i - 1 \notin Bad
      BY <3>2, <3>3
    <3>. QED BY <2>6, <3>3, <3>4
  <2>8. Good(Len(ss))
    <3>. HIDE DEF Good
    <3>. QED BY <2>7, <1>3
  <2>. QED BY <2>3, <2>8, <1>3
<1>. QED BY <1>2, <1>3

-----------------------------------------------------------------------------
(* Sizes and layouts of the functions of a program                         *)

\* The functions f calls that have inputs.
VerifiedCalls(f) == {Body[f][i] : i \in {j \in DOMAIN Body[f] : Body[f][j] \in Verified}}

\* What is assumed of a program.
LEMMA Calls ==
    ASSUME NEW f \in Fns
    PROVE  /\ Own[f] \in Nat /\ Body[f] \in Seq(Fns) /\ Len(Body[f]) \in Nat
           /\ DOMAIN Body[f] = 1..Len(Body[f]) /\ VerifiedCalls(f) \subseteq Fns
           /\ \A i \in 1..Len(Body[f]) : Body[f][i] \in Fns
<1>1. Own[f] \in Nat /\ Body[f] \in Seq(Fns)
  BY ProgramAssumption
<1>2. /\ Len(Body[f]) \in Nat /\ DOMAIN Body[f] = 1..Len(Body[f])
      /\ \A i \in 1..Len(Body[f]) : Body[f][i] \in Fns
  BY <1>1
<1>. QED BY <1>1, <1>2 DEF VerifiedCalls

\* Functions are ranked above the ones they call.
LEMMA Ranked ==
    \E N \in Nat : \E rank \in [Fns -> 0..N] :
        \A f \in Fns : \A g \in VerifiedCalls(f) : rank[g] < rank[f]
<1>1. Cardinality(Fns) \in Nat
  BY NoRecursion, FS_CardinalityType
<1>2. PICK rank \in [Fns -> 1..Cardinality(Fns)] :
          \A f \in Fns : \A i \in DOMAIN Body[f] :
              Body[f][i] \in Verified => rank[Body[f][i]] < rank[f]
  BY NoRecursion
<1>3. rank \in [Fns -> 0..Cardinality(Fns)]
  BY <1>1, <1>2
<1>4. \A f \in Fns : \A g \in VerifiedCalls(f) : rank[g] < rank[f]
  BY <1>2 DEF VerifiedCalls
<1>. QED BY <1>1, <1>3, <1>4

\* What holds of a function if it holds of its callees holds of all.
LEMMA CalleesFirst ==
    ASSUME NEW Good, \A f \in Fns : VerifiedCalls(f) \subseteq Good => f \in Good
    PROVE  Fns \subseteq Good
<1>0. PICK N \in Nat : \E rank \in [Fns -> 0..N] :
          \A f \in Fns : \A g \in VerifiedCalls(f) : rank[g] < rank[f]
  BY Ranked
<1>1. PICK rank \in [Fns -> 0..N] : \A f \in Fns : \A g \in VerifiedCalls(f) : rank[g] < rank[f]
  BY <1>0
<1>. DEFINE Bad == {rank[f] : f \in Fns \ Good}
<1>. SUFFICES ASSUME Bad # {} PROVE FALSE
  OBVIOUS
<1>2. Bad \in SUBSET Nat
  BY <1>1
<1>3. PICK n \in Bad : \A m \in Bad : n <= m
  <2>. HIDE DEF Bad
  <2>. QED BY <1>2, Least
<1>4. PICK f \in Fns \ Good : n = rank[f]
  OBVIOUS
<1>5. \A g \in VerifiedCalls(f) : g \in Fns /\ rank[g] \in Nat /\ rank[f] \in Nat /\ rank[g] < rank[f]
  BY <1>1, <1>4, Calls
<1>6. \A g \in VerifiedCalls(f) : g \in Good
  BY <1>3, <1>4, <1>5
<1>. QED BY <1>4, <1>6

\* A definition of something for each function from that of its callees.
ByCallees(T, H) ==
    /\ T # {} /\ H \in [[Fns -> T] -> [Fns -> T]]
    /\ \A g, h \in [Fns -> T] : \A f \in Fns :
          (\A c \in VerifiedCalls(f) : g[c] = h[c]) => H[g][f] = H[h][f]

\* Such a definition is met by some function.
LEMMA ProgramRecursion ==
    ASSUME NEW T, NEW H, ByCallees(T, H)
    PROVE  \E g \in [Fns -> T] : g = H[g]
<1>0. PICK N \in Nat : \E rank \in [Fns -> 0..N] :
          \A f \in Fns : \A g \in VerifiedCalls(f) : rank[g] < rank[f]
  BY Ranked
<1>1. PICK rank \in [Fns -> 0..N] : \A f \in Fns : \A g \in VerifiedCalls(f) : rank[g] < rank[f]
  BY <1>0
<1>2. \A f \in Fns : VerifiedCalls(f) \subseteq Fns
  BY Calls
<1>3. ASSUME NEW g \in [Fns -> T], NEW h \in [Fns -> T], NEW f \in Fns,
             \A c \in Fns : rank[c] < rank[f] => g[c] = h[c]
      PROVE  H[g][f] = H[h][f]
  <2>1. \A c \in VerifiedCalls(f) : g[c] = h[c]
    BY <1>1, <1>2, <1>3
  <2>. QED BY <2>1 DEF ByCallees
<1>4. \A g, h \in [Fns -> T] : \A f \in Fns :
          (\A c \in Fns : rank[c] < rank[f] => g[c] = h[c]) => H[g][f] = H[h][f]
  BY <1>3
<1>5. Recursive(Fns, T, N, rank, H)
  BY <1>1, <1>4 DEF Recursive, ByCallees
<1>. QED BY <1>5, Recursion

\* The calls of f have the sizes of the functions they call.
LEMMA CallSizesAre ==
    ASSUME NEW f \in Fns, NEW size, \A g \in VerifiedCalls(f) : size[g] \in Nat
    PROVE  /\ CallSizes(f, size) \in Seq(Nat) /\ Len(CallSizes(f, size)) = Len(Body[f])
           /\ \A i \in 1..Len(Body[f]) : CallSizes(f, size)[i] =
                 IF Body[f][i] \in Verified THEN size[Body[f][i]] ELSE 0
<1>1. DOMAIN Body[f] = 1..Len(Body[f]) /\ Len(Body[f]) \in Nat
  BY Calls
<1>2. \A i \in 1..Len(Body[f]) : (IF Body[f][i] \in Verified THEN size[Body[f][i]] ELSE 0) \in Nat
  BY <1>1 DEF VerifiedCalls
<1>3. CallSizes(f, size) = [i \in 1..Len(Body[f]) |->
                              IF Body[f][i] \in Verified THEN size[Body[f][i]] ELSE 0]
  BY <1>1 DEF CallSizes
<1>. QED BY <1>1, <1>2, <1>3

\* Size[f] is a number: the own inputs of f and those of its calls.
LEMMA Sizes ==
    /\ Size \in [Fns -> Nat]
    /\ \A f \in Fns : Size[f] = Own[f] + Sums(CallSizes(f, Size))[Len(Body[f])]
<1>. DEFINE H == [g \in [Fns -> Nat] |->
                    [f \in Fns |-> Own[f] + Sums(CallSizes(f, g))[Len(Body[f])]]]
<1>1. ASSUME NEW f \in Fns, NEW size, \A g \in VerifiedCalls(f) : size[g] \in Nat
      PROVE  Own[f] + Sums(CallSizes(f, size))[Len(Body[f])] \in Nat
  <2>1. CallSizes(f, size) \in Seq(Nat) /\ Len(CallSizes(f, size)) = Len(Body[f])
    BY <1>1, CallSizesAre
  <2>2. Sums(CallSizes(f, size)) \in [0..Len(Body[f]) -> Nat] /\ Len(Body[f]) \in 0..Len(Body[f])
    BY <2>1, SumsAre, Calls
  <2>3. Sums(CallSizes(f, size))[Len(Body[f])] \in Nat /\ Own[f] \in Nat
    BY <2>2, Calls
  <2>. QED BY <2>3
<1>2. H \in [[Fns -> Nat] -> [Fns -> Nat]]
  <2>1. \A g \in [Fns -> Nat] : \A f \in Fns :
            Own[f] + Sums(CallSizes(f, g))[Len(Body[f])] \in Nat
    BY <1>1, Calls
  <2>. QED BY <2>1
<1>3. ASSUME NEW g \in [Fns -> Nat], NEW h \in [Fns -> Nat], NEW f \in Fns,
             \A c \in VerifiedCalls(f) : g[c] = h[c]
      PROVE  H[g][f] = H[h][f]
  <2>1. CallSizes(f, g) = CallSizes(f, h)
    BY <1>3 DEF CallSizes, VerifiedCalls
  <2>. QED BY <2>1
<1>4. \E g \in [Fns -> Nat] : g = H[g]
  <2>. HIDE DEF H
  <2>1. ByCallees(Nat, H)
    BY <1>2, <1>3 DEF ByCallees
  <2>. QED BY <2>1, ProgramRecursion
<1>5. Size = [f \in Fns |-> Own[f] + Sums(CallSizes(f, Size))[Len(Body[f])]]
  BY <1>4 DEF Size
<1>6. \A f \in Fns : Size[f] = Own[f] + Sums(CallSizes(f, Size))[Len(Body[f])]
  BY <1>5
<1>7. \A f \in Fns : Size[f] \in Nat
  <2>. DEFINE Good == {f \in Fns : Size[f] \in Nat}
  <2>1. ASSUME NEW f \in Fns, VerifiedCalls(f) \subseteq Good
        PROVE  f \in Good
    BY <1>1, <1>6, <2>1
  <2>2. Fns \subseteq Good
    <3>. HIDE DEF Good
    <3>. QED BY <2>1, CalleesFirst
  <2>. QED BY <2>2
<1>. QED BY <1>5, <1>6, <1>7

\* Paths of calls: the position of each call in the body of its caller.
Paths == Seq(Nat)

\* The layouts of the calls of f, given those of its callees.
LEMMA CallLayoutsAre ==
    ASSUME NEW f \in Fns, NEW layout, \A g \in VerifiedCalls(f) : layout[g] \in Seq(Paths)
    PROVE  /\ CallLayouts(f, layout) \in Seq(Seq(Paths))
           /\ Len(CallLayouts(f, layout)) = Len(Body[f])
           /\ \A i \in 1..Len(Body[f]) :
                 LET ls == CallLayouts(f, layout)[i]
                     l == layout[Body[f][i]]
                 IN  IF Body[f][i] \in Verified
                     THEN /\ l \in Seq(Paths) /\ Len(ls) = Len(l)
                          /\ \A k \in 1..Len(l) : ls[k] = <<i>> \o l[k]
                     ELSE ls = <<>>
<1>. DEFINE Lay(i) == IF Body[f][i] \in Verified
                      THEN [k \in DOMAIN layout[Body[f][i]] |-> <<i>> \o layout[Body[f][i]][k]]
                      ELSE <<>>
<1>1. DOMAIN Body[f] = 1..Len(Body[f]) /\ Len(Body[f]) \in Nat
  BY Calls
<1>2. CallLayouts(f, layout) = [i \in 1..Len(Body[f]) |-> Lay(i)]
  BY <1>1 DEF CallLayouts
<1>3. ASSUME NEW i \in 1..Len(Body[f]), Body[f][i] \in Verified
      PROVE  /\ layout[Body[f][i]] \in Seq(Paths) /\ Lay(i) \in Seq(Paths)
             /\ Len(Lay(i)) = Len(layout[Body[f][i]])
             /\ \A k \in 1..Len(layout[Body[f][i]]) : Lay(i)[k] = <<i>> \o layout[Body[f][i]][k]
  <2>. DEFINE l == layout[Body[f][i]]
  <2>1. l \in Seq(Paths) /\ i \in Nat
    BY <1>1, <1>3 DEF VerifiedCalls
  <2>2. Lay(i) = [k \in 1..Len(l) |-> <<i>> \o l[k]] /\ Len(l) \in Nat
    <3>1. DOMAIN l = 1..Len(l) /\ Len(l) \in Nat
      BY <2>1
    <3>. QED BY <1>3, <3>1
  <2>. HIDE DEF l, Lay
  <2>3. \A k \in 1..Len(l) : <<i>> \o l[k] \in Paths
    <3>. SUFFICES ASSUME NEW k \in 1..Len(l) PROVE <<i>> \o l[k] \in Paths
      OBVIOUS
    <3>1. l[k] \in Seq(Nat) /\ <<i>> \in Seq(Nat)
      BY <2>1 DEF Paths
    <3>. HIDE DEF l
    <3>. QED BY <3>1 DEF Paths
  <2>4. Lay(i) \in Seq(Paths) /\ Len(Lay(i)) = Len(l)
    BY <2>2, <2>3
  <2>5. \A k \in 1..Len(l) : Lay(i)[k] = <<i>> \o l[k]
    BY <2>2
  <2>. QED BY <2>1, <2>4, <2>5 DEF l
<1>4. \A i \in 1..Len(Body[f]) : Body[f][i] \notin Verified => Lay(i) = <<>>
  OBVIOUS
<1>. HIDE DEF Lay
<1>5. \A i \in 1..Len(Body[f]) : Lay(i) \in Seq(Paths)
  <2>1. <<>> \in Seq(Paths)
    OBVIOUS
  <2>. QED BY <1>3, <1>4, <2>1
<1>6. /\ CallLayouts(f, layout) \in Seq(Seq(Paths))
      /\ Len(CallLayouts(f, layout)) = Len(Body[f])
      /\ \A i \in 1..Len(Body[f]) : CallLayouts(f, layout)[i] = Lay(i)
  BY <1>1, <1>2, <1>5
<1>. QED BY <1>3, <1>4, <1>6

\* The layout of f, given those of its callees.
Composed(f, layout) == [k \in 1..Own[f] |-> <<>>] \o FlattenSeq(CallLayouts(f, layout))

\* c is a layout of f, whose calls have the sizes n.
LaidOut(f, layout, c, n) ==
    /\ n \in Seq(Nat) /\ Len(n) = Len(Body[f])
    /\ c \in Seq(Paths) /\ Len(c) = Own[f] + Sums(n)[Len(Body[f])]
    /\ \A k \in 1..Own[f] : c[k] = <<>>
    /\ \A i \in 1..Len(Body[f]) : \A k \in 1..n[i] :
          c[Own[f] + Sums(n)[i - 1] + k] = <<i>> \o layout[Body[f][i]][k]

\* The layout composed of those of the callees.
LEMMA ComposedOf ==
    ASSUME NEW f \in Fns, NEW layout, \A g \in VerifiedCalls(f) : layout[g] \in Seq(Paths)
    PROVE  LaidOut(f, layout, Composed(f, layout), CallSizes(f, [g \in Fns |-> Len(layout[g])]))
<1>. DEFINE size == [g \in Fns |-> Len(layout[g])]
            n == CallSizes(f, size)
            own == [k \in 1..Own[f] |-> <<>>]
            calls == CallLayouts(f, layout)
            flat == FlattenSeq(calls)
<1>1. \A g \in VerifiedCalls(f) : g \in Fns /\ size[g] \in Nat
  <2>1. \A g \in VerifiedCalls(f) : g \in Fns /\ size[g] = Len(layout[g])
    BY Calls
  <2>. QED BY <2>1
<1>. Len(Body[f]) \in Nat /\ Own[f] \in Nat
  BY Calls
<1>2. /\ n \in Seq(Nat) /\ Len(n) = Len(Body[f])
      /\ \A i \in 1..Len(Body[f]) :
            n[i] = IF Body[f][i] \in Verified THEN size[Body[f][i]] ELSE 0
  <2>. HIDE DEF size
  <2>. QED BY <1>1, CallSizesAre
<1>3. /\ calls \in Seq(Seq(Paths)) /\ Len(calls) = Len(Body[f])
      /\ \A i \in 1..Len(Body[f]) : Len(calls[i]) = n[i]
      /\ \A i \in 1..Len(Body[f]) : \A k \in 1..n[i] : calls[i][k] = <<i>> \o layout[Body[f][i]][k]
  <2>1. /\ calls \in Seq(Seq(Paths)) /\ Len(calls) = Len(Body[f])
        /\ \A i \in 1..Len(Body[f]) :
              IF Body[f][i] \in Verified
              THEN /\ layout[Body[f][i]] \in Seq(Paths) /\ Len(calls[i]) = Len(layout[Body[f][i]])
                   /\ \A k \in 1..Len(layout[Body[f][i]]) : calls[i][k] = <<i>> \o layout[Body[f][i]][k]
              ELSE calls[i] = <<>>
    BY CallLayoutsAre
  <2>. HIDE DEF calls, n
  <2>2. ASSUME NEW i \in 1..Len(Body[f])
        PROVE  /\ Len(calls[i]) = n[i]
               /\ \A k \in 1..n[i] : calls[i][k] = <<i>> \o layout[Body[f][i]][k]
    <3>1. CASE Body[f][i] \in Verified
      <4>1. n[i] = Len(layout[Body[f][i]])
        BY <1>2, <3>1, Calls
      <4>. QED BY <2>1, <3>1, <4>1
    <3>2. CASE Body[f][i] \notin Verified
      <4>1. calls[i] = <<>> /\ n[i] = 0
        BY <1>2, <2>1, <3>2
      <4>. QED BY <4>1
    <3>. QED BY <3>1, <3>2
  <2>. QED BY <2>1, <2>2
<1>. HIDE DEF n, calls
<1>4. /\ flat \in Seq(Paths) /\ Len(flat) = Sums(n)[Len(n)]
      /\ \A i \in 1..Len(n) : \A k \in 1..n[i] : flat[Sums(n)[i - 1] + k] = calls[i][k]
  <2>1. Len(n) = Len(calls) /\ \A i \in 1..Len(calls) : n[i] = Len(calls[i])
    BY <1>2, <1>3
  <2>2. n \in Seq(Nat) /\ calls \in Seq(Seq(Paths))
    BY <1>2, <1>3
  <2>. QED BY <2>1, <2>2, Flattened
<1>5. own \in Seq(Paths) /\ Len(own) = Own[f] /\ \A k \in 1..Own[f] : own[k] = <<>>
  <2>1. <<>> \in Paths
    BY DEF Paths
  <2>. QED BY <2>1
<1>. HIDE DEF own, flat
<1>6. Composed(f, layout) = own \o flat
  BY DEF Composed, own, flat, calls
<1>7. /\ own \o flat \in Seq(Paths) /\ Len(own \o flat) = Own[f] + Len(flat) /\ Len(flat) \in Nat
      /\ \A k \in 1..Own[f] : (own \o flat)[k] = own[k]
      /\ \A k \in 1..Len(flat) : (own \o flat)[Own[f] + k] = flat[k]
  <2>1. own \in Seq(Paths) /\ flat \in Seq(Paths)
    BY <1>4, <1>5
  <2>. QED BY <1>5, <2>1, Concatenated
<1>8. ASSUME NEW i \in 1..Len(Body[f]), NEW k \in 1..n[i]
      PROVE  (own \o flat)[Own[f] + Sums(n)[i - 1] + k] = <<i>> \o layout[Body[f][i]][k]
  <2>1. flat[Sums(n)[i - 1] + k] = <<i>> \o layout[Body[f][i]][k]
    <3>1. i \in 1..Len(n)
      BY <1>2
    <3>2. flat[Sums(n)[i - 1] + k] = calls[i][k]
      BY <1>4, <3>1
    <3>3. calls[i][k] = <<i>> \o layout[Body[f][i]][k]
      BY <1>3
    <3>. QED BY <3>2, <3>3
  <2>2. Sums(n)[i] = Sums(n)[i - 1] + n[i] /\ Sums(n)[i - 1] \in Nat /\ n[i] \in Nat
    <3>1. n \in Seq(Nat) /\ i \in 1..Len(n) /\ i - 1 \in 0..Len(n)
      BY <1>2
    <3>2. n[i] \in Nat
      BY <3>1
    <3>. QED BY <3>1, <3>2, SumsAre
  <2>3. Sums(n)[i] <= Sums(n)[Len(n)] /\ Sums(n)[Len(n)] \in Nat
    BY <1>2, SumsGrow, SumsAre
  <2>4. Sums(n)[i - 1] + k \in 1..Len(flat)
    <3>. DEFINE p == Sums(n)[i - 1]  q == Sums(n)[i]  r == Sums(n)[Len(n)]
    <3>1. q = p + n[i] /\ p \in Nat /\ n[i] \in Nat /\ q <= r /\ r \in Nat /\ Len(flat) = r
      BY <2>2, <2>3, <1>4
    <3>. HIDE DEF p, q, r
    <3>2. p + k \in 1..Len(flat)
      BY <3>1
    <3>. QED BY <3>2 DEF p
  <2>5. Own[f] + Sums(n)[i - 1] + k = Own[f] + (Sums(n)[i - 1] + k)
    BY <2>2
  <2>. QED BY <1>7, <2>1, <2>4, <2>5
<1>9. Len(own \o flat) = Own[f] + Sums(n)[Len(Body[f])]
  BY <1>2, <1>4, <1>7
<1>. QED BY <1>2, <1>5, <1>6, <1>7, <1>8, <1>9 DEF n, size, LaidOut

\* Every function has a layout, as long as its size says.
LEMMA Layouts ==
    \A f \in Fns : /\ Layout[f] \in Seq(Paths) /\ Len(Layout[f]) = Size[f]
                   /\ Layout[f] = Composed(f, Layout)
<1>. DEFINE T == Seq(Paths)
            H == [g \in [Fns -> T] |-> [f \in Fns |-> Composed(f, g)]]
<1>1. H \in [[Fns -> T] -> [Fns -> T]]
  <2>1. ASSUME NEW g \in [Fns -> T], NEW f \in Fns
        PROVE  Composed(f, g) \in T
    <3>1. \A c \in VerifiedCalls(f) : g[c] \in Seq(Paths)
      BY Calls
    <3>. QED BY <3>1, ComposedOf DEF LaidOut
  <2>. HIDE DEF T
  <2>. QED BY <2>1
<1>2. ASSUME NEW g \in [Fns -> T], NEW h \in [Fns -> T], NEW f \in Fns,
             \A c \in VerifiedCalls(f) : g[c] = h[c]
      PROVE  H[g][f] = H[h][f]
  <2>1. CallLayouts(f, g) = CallLayouts(f, h)
    <3>. HIDE DEF T
    <3>. QED BY <1>2 DEF CallLayouts, VerifiedCalls
  <2>2. Composed(f, g) = Composed(f, h)
    BY <2>1 DEF Composed
  <2>. HIDE DEF T
  <2>. QED BY <2>2
<1>3. \E g \in [Fns -> T] : g = H[g]
  <2>1. T # {}
    <3>1. <<>> \in T
      OBVIOUS
    <3>. QED BY <3>1
  <2>. HIDE DEF H, T
  <2>2. ByCallees(T, H)
    BY <1>1, <1>2, <2>1 DEF ByCallees
  <2>. QED BY <2>2, ProgramRecursion
<1>4. Layout = [f \in Fns |-> Composed(f, Layout)]
  <2>1. \E g : g = [f \in Fns |-> Composed(f, g)]
    <3>. HIDE DEF T
    <3>. QED BY <1>3
  <2>. QED BY <2>1 DEF Layout, Composed
<1>5. \A f \in Fns : Layout[f] = Composed(f, Layout)
  BY <1>4
<1>. DEFINE Good == {f \in Fns : Layout[f] \in Seq(Paths) /\ Len(Layout[f]) = Size[f]}
<1>6. ASSUME NEW f \in Fns, VerifiedCalls(f) \subseteq Good
      PROVE  f \in Good
  <2>. DEFINE lens == [g \in Fns |-> Len(Layout[g])]
  <2>1. CallSizes(f, lens) = CallSizes(f, Size)
    <3>1. \A g \in VerifiedCalls(f) : lens[g] = Size[g]
      BY <1>6
    <3>. HIDE DEF lens
    <3>. QED BY <3>1 DEF CallSizes, VerifiedCalls
  <2>2. /\ Composed(f, Layout) \in Seq(Paths)
        /\ Len(Composed(f, Layout)) = Own[f] + Sums(CallSizes(f, lens))[Len(Body[f])]
    <3>1. \A g \in VerifiedCalls(f) : Layout[g] \in Seq(Paths)
      BY <1>6
    <3>. QED BY <3>1, ComposedOf DEF LaidOut
  <2>3. Size[f] = Own[f] + Sums(CallSizes(f, Size))[Len(Body[f])]
    BY Sizes
  <2>. HIDE DEF lens
  <2>. QED BY <1>5, <2>1, <2>2, <2>3
<1>7. Fns \subseteq Good
  <2>. HIDE DEF Good
  <2>. QED BY <1>6, CalleesFirst
<1>. QED BY <1>5, <1>7

\* Where the inputs of f and of the functions it calls are.
LEMMA Segments ==
    ASSUME NEW f \in Fns
    PROVE  /\ Layout[f] \in Seq(Paths) /\ Len(Layout[f]) = Size[f]
           /\ Own[f] \in Nat /\ Size[f] \in Nat /\ Own[f] <= Size[f]
           /\ \A k \in 1..Own[f] : Layout[f][k] = <<>>
           /\ \A i \in 1..Len(Body[f]) : Body[f][i] \in Verified =>
                 /\ Offset(f, i) \in Nat /\ Own[f] <= Offset(f, i)
                 /\ Size[Body[f][i]] \in Nat /\ Offset(f, i) + Size[Body[f][i]] <= Size[f]
                 /\ \A k \in 1..Size[Body[f][i]] :
                       Layout[f][Offset(f, i) + k] = <<i>> \o Layout[Body[f][i]][k]
           /\ \A k \in 1..Size[f] : k > Own[f] =>
                 \E i \in 1..Len(Body[f]) :
                    /\ Body[f][i] \in Verified
                    /\ Offset(f, i) < k /\ k <= Offset(f, i) + Size[Body[f][i]]
<1>. DEFINE n == CallSizes(f, Size)
            lens == [g \in Fns |-> Len(Layout[g])]
<1>1. \A g \in VerifiedCalls(f) : g \in Fns /\ Layout[g] \in Seq(Paths) /\ lens[g] = Size[g]
  BY Calls, Layouts
<1>2. CallSizes(f, lens) = n
  <2>. HIDE DEF lens
  <2>. QED BY <1>1 DEF CallSizes, VerifiedCalls
<1>3. /\ n \in Seq(Nat) /\ Len(n) = Len(Body[f])
      /\ \A k \in 1..Own[f] : Layout[f][k] = <<>>
      /\ \A i \in 1..Len(Body[f]) : \A k \in 1..n[i] :
            Layout[f][Own[f] + Sums(n)[i - 1] + k] = <<i>> \o Layout[Body[f][i]][k]
  <2>1. \A g \in VerifiedCalls(f) : Layout[g] \in Seq(Paths)
    BY <1>1
  <2>2. LaidOut(f, Layout, Composed(f, Layout), CallSizes(f, lens))
    BY <2>1, ComposedOf
  <2>. HIDE DEF lens
  <2>3. Layout[f] = Composed(f, Layout)
    BY Layouts
  <2>4. LaidOut(f, Layout, Layout[f], n)
    BY <1>2, <2>2, <2>3
  <2>. QED BY <2>4, Zenon DEF LaidOut
<1>4. \A i \in 1..Len(Body[f]) :
          n[i] = IF Body[f][i] \in Verified THEN Size[Body[f][i]] ELSE 0
  <2>1. \A g \in VerifiedCalls(f) : Size[g] \in Nat
    BY <1>1, Sizes
  <2>. QED BY <2>1, CallSizesAre
<1>5. Layout[f] \in Seq(Paths) /\ Len(Layout[f]) = Size[f] /\ Own[f] \in Nat /\ Size[f] \in Nat
  BY Layouts, Sizes, Calls
<1>6. Size[f] = Own[f] + Sums(n)[Len(n)]
  BY <1>3, Sizes
<1>. HIDE DEF n, lens
<1>. DEFINE s == Sums(n)
            m == Len(n)
<1>7. /\ m \in Nat /\ s \in [0..m -> Nat] /\ s[0] = 0
      /\ \A i \in 1..m : s[i] = s[i - 1] + n[i]
      /\ \A i, j \in 0..m : i <= j => s[i] <= s[j]
      /\ \A k \in 1..s[m] : \E i \in 1..m : s[i - 1] < k /\ k <= s[i]
      /\ \A i \in 1..m : n[i] \in Nat
  <2>1. n \in Seq(Nat) /\ m \in Nat /\ \A i \in 1..m : n[i] \in Nat
    BY <1>3
  <2>2. /\ s \in [0..m -> Nat] /\ s[0] = 0
        /\ \A i \in 1..m : s[i] = s[i - 1] + n[i]
    BY <2>1, SumsAre
  <2>3. /\ \A i, j \in 0..m : i <= j => s[i] <= s[j]
        /\ \A k \in 1..s[m] : \E i \in 1..m : s[i - 1] < k /\ k <= s[i]
    BY <2>1, SumsGrow
  <2>. QED BY <2>1, <2>2, <2>3
<1>8. \A i \in 1..m : Offset(f, i) = Own[f] + s[i - 1] /\ Body[f][i] \in Fns
  BY <1>3, Calls DEF Offset, n
<1>9. Size[f] = Own[f] + s[m] /\ Len(Body[f]) = m
  BY <1>3, <1>6
<1>10. /\ \A k \in 1..Own[f] : Layout[f][k] = <<>>
       /\ \A i \in 1..m : \A k \in 1..n[i] :
            Layout[f][Own[f] + s[i - 1] + k] = <<i>> \o Layout[Body[f][i]][k]
       /\ \A i \in 1..m : n[i] = IF Body[f][i] \in Verified THEN Size[Body[f][i]] ELSE 0
  BY <1>3, <1>4
<1>. HIDE DEF s, m
<1>11. ASSUME NEW i \in 1..m, Body[f][i] \in Verified
       PROVE  /\ Offset(f, i) \in Nat /\ Own[f] <= Offset(f, i)
              /\ Size[Body[f][i]] \in Nat /\ Offset(f, i) + Size[Body[f][i]] <= Size[f]
              /\ \A k \in 1..Size[Body[f][i]] :
                    Layout[f][Offset(f, i) + k] = <<i>> \o Layout[Body[f][i]][k]
  <2>1. i - 1 \in 0..m /\ i \in 0..m /\ m \in 0..m
    BY <1>7
  <2>2. s[i - 1] \in Nat /\ s[i] \in Nat /\ s[m] \in Nat /\ s[i] <= s[m] /\ s[i] = s[i - 1] + n[i]
    BY <1>7, <2>1
  <2>3. n[i] = Size[Body[f][i]] /\ n[i] \in Nat /\ Offset(f, i) = Own[f] + s[i - 1]
    BY <1>7, <1>8, <1>10, <1>11
  <2>4. \A k \in 1..Size[Body[f][i]] :
            Layout[f][Offset(f, i) + k] = <<i>> \o Layout[Body[f][i]][k]
    BY <1>10, <2>3
  <2>. DEFINE p == s[i - 1]  q == s[i]  r == s[m]  c == Size[Body[f][i]]  o == Offset(f, i)
  <2>5. /\ p \in Nat /\ q \in Nat /\ r \in Nat /\ q <= r /\ q = p + c /\ c \in Nat
        /\ o = Own[f] + p /\ Own[f] \in Nat /\ Size[f] = Own[f] + r
    BY <1>5, <1>9, <2>2, <2>3
  <2>. HIDE DEF p, q, r, c, o
  <2>6. o \in Nat /\ Own[f] <= o /\ c \in Nat /\ o + c <= Size[f]
    BY <2>5
  <2>. QED BY <2>4, <2>6 DEF c, o
<1>12. ASSUME NEW k \in 1..Size[f], k > Own[f]
       PROVE  \E i \in 1..m : /\ Body[f][i] \in Verified
                              /\ Offset(f, i) < k /\ k <= Offset(f, i) + Size[Body[f][i]]
  <2>0. s[m] \in Nat
    BY <1>7
  <2>1. k - Own[f] \in 1..s[m]
    BY <1>5, <1>9, <1>12, <2>0
  <2>2. PICK i \in 1..m : s[i - 1] < k - Own[f] /\ k - Own[f] <= s[i]
    BY <1>7, <2>1
  <2>3. i - 1 \in 0..m /\ s[i - 1] \in Nat /\ s[i] = s[i - 1] + n[i] /\ n[i] \in Nat
    BY <1>7
  <2>4. n[i] # 0 /\ k \in Nat
    BY <1>5, <2>2, <2>3
  <2>5. Body[f][i] \in Verified /\ n[i] = Size[Body[f][i]]
    BY <1>10, <2>4
  <2>6. Offset(f, i) = Own[f] + s[i - 1]
    BY <1>8
  <2>7. Offset(f, i) < k /\ k <= Offset(f, i) + Size[Body[f][i]]
    <3>. DEFINE p == s[i - 1]  c == Size[Body[f][i]]  o == Offset(f, i)  w == Own[f]
    <3>1. /\ p \in Nat /\ c \in Nat /\ w \in Nat /\ k \in Nat /\ o = w + p
          /\ p < k - w /\ k - w <= p + c
      BY <1>5, <2>2, <2>3, <2>4, <2>5, <2>6
    <3>. HIDE DEF p, c, o, w
    <3>2. o < k /\ k <= o + c
      BY <3>1
    <3>. QED BY <3>2 DEF o, c
  <2>. QED BY <2>5, <2>7
<1>13. s[m] \in Nat
  BY <1>7
<1>14. Own[f] <= Size[f]
  BY <1>5, <1>9, <1>13
<1>15. Len(Body[f]) = m
  BY <1>9
<1>. QED BY <1>5, <1>10, <1>11, <1>12, <1>14, <1>15, Zenon

-----------------------------------------------------------------------------
(* Where a function finds its inputs                                       *)

\* The path p leads to the function, or to one it calls, that q leads to.
Begins(p, q) == Len(p) <= Len(q) /\ \A e \in 1..Len(p) : q[e] = p[e]

\* In the layout, the inputs of f called along p are those from start on.
PlacedAt(layout, f, p, start) ==
    /\ start + Size[f] <= Len(layout)
    /\ \A k \in 1..Len(layout) :
          IF start < k /\ k <= start + Size[f]
          THEN layout[k] = p \o Layout[f][k - start]
          ELSE ~Begins(p, layout[k])

\* The inputs of f itself are the ones named by p.
LEMMA OwnInputs ==
    ASSUME NEW layout \in Seq(Paths), NEW f \in Fns, NEW p \in Paths, NEW start \in Nat,
           PlacedAt(layout, f, p, start)
    PROVE  \A k \in 1..Len(layout) : k \in (start + 1)..(start + Own[f]) <=> layout[k] = p
<1>. SUFFICES ASSUME NEW k \in 1..Len(layout)
              PROVE  k \in (start + 1)..(start + Own[f]) <=> layout[k] = p
  OBVIOUS
<1>1. /\ Len(layout) \in Nat /\ k \in Nat
      /\ Size[f] \in Nat /\ Own[f] \in Nat /\ Own[f] <= Size[f]
      /\ Layout[f] \in Seq(Paths) /\ Len(Layout[f]) = Size[f]
  BY Segments
<1>2. CASE start < k /\ k <= start + Size[f]
  <2>1. layout[k] = p \o Layout[f][k - start]
    BY <1>2 DEF PlacedAt
  <2>2. k - start \in 1..Size[f]
    BY <1>1, <1>2
  <2>3. CASE k - start <= Own[f]
    <3>1. Layout[f][k - start] = <<>>
      BY <1>1, <2>2, <2>3, Segments
    <3>2. layout[k] = p
      BY <2>1, <3>1 DEF Paths
    <3>3. k \in (start + 1)..(start + Own[f])
      BY <1>1, <2>2, <2>3
    <3>. QED BY <3>2, <3>3
  <2>4. CASE k - start > Own[f]
    <3>1. PICK i \in 1..Len(Body[f]) :
              /\ Body[f][i] \in Verified
              /\ Offset(f, i) < k - start /\ k - start <= Offset(f, i) + Size[Body[f][i]]
      BY <2>2, <2>4, Segments
    <3>. DEFINE g == Body[f][i]
                j == k - start - Offset(f, i)
    <3>2. Offset(f, i) \in Nat /\ Size[g] \in Nat /\ g \in Fns
      BY <3>1, Segments, Calls
    <3>3. j \in 1..Size[g] /\ Offset(f, i) + j = k - start
      <4>. DEFINE o == Offset(f, i)  c == Size[g]  d == k - start
      <4>1. o \in Nat /\ c \in Nat /\ d \in Int /\ o < d /\ d <= o + c /\ j = d - o
        BY <1>1, <3>1, <3>2
      <4>. HIDE DEF o, c, d, j
      <4>2. j \in 1..c /\ o + j = d
        BY <4>1
      <4>. QED BY <4>2 DEF o, c, d
    <3>4. Layout[f][k - start] = <<i>> \o Layout[g][j]
      <4>1. \A e \in 1..Size[g] : Layout[f][Offset(f, i) + e] = <<i>> \o Layout[g][e]
        BY <3>1, Segments
      <4>. HIDE DEF j
      <4>. QED BY <3>3, <4>1
    <3>5. Layout[g][j] \in Paths
      <4>1. Layout[g] \in Seq(Paths) /\ Len(Layout[g]) = Size[g]
        BY <3>2, Segments
      <4>. HIDE DEF j
      <4>. QED BY <3>3, <4>1
    <3>6. i \in Nat
      BY Calls
    <3>. HIDE DEF g, j
    <3>. DEFINE a == Len(p)  b == Len(Layout[g][j])  c == Len(layout[k])
    <3>7. a \in Nat /\ b \in Nat /\ c = a + (1 + b)
      <4>1. <<i>> \in Seq(Nat) /\ Len(<<i>>) = 1 /\ Layout[g][j] \in Seq(Nat)
        BY <3>5, <3>6 DEF Paths
      <4>2. /\ <<i>> \o Layout[g][j] \in Seq(Nat) /\ b \in Nat
            /\ Len(<<i>> \o Layout[g][j]) = 1 + b
        BY <4>1, Concatenated
      <4>3. p \in Seq(Nat) /\ a \in Nat
        BY DEF Paths
      <4>. QED BY <2>1, <3>4, <4>2, <4>3, Concatenated
    <3>8. layout[k] # p
      <4>. HIDE DEF a, b, c
      <4>1. a # c
        BY <3>7
      <4>. QED BY <4>1 DEF a, c
    <3>9. ~(k \in (start + 1)..(start + Own[f]))
      BY <1>1, <2>4
    <3>. QED BY <3>8, <3>9
  <2>. QED BY <1>1, <2>2, <2>3, <2>4
<1>3. CASE ~(start < k /\ k <= start + Size[f])
  <2>1. ~Begins(p, layout[k])
    BY <1>3 DEF PlacedAt
  <2>2. layout[k] # p
    <3>1. Begins(p, p)
      BY DEF Begins, Paths
    <3>. QED BY <2>1, <3>1
  <2>3. ~(k \in (start + 1)..(start + Own[f]))
    BY <1>1, <1>3
  <2>. QED BY <2>2, <2>3
<1>. QED BY <1>2, <1>3

\* A function that needs no verification has no inputs, nor have those it calls.
LEMMA NoInputs == \A f \in Fns \ Verified : Size[f] = 0
<1>. SUFFICES ASSUME NEW f \in Fns \ Verified, Size[f] # 0
              PROVE  FALSE
  OBVIOUS
<1>1. Own[f] = 0 /\ \A i \in DOMAIN Body[f] : Body[f][i] \notin Verified
  BY ProgramAssumption
<1>2. Size[f] \in 1..Size[f] /\ Size[f] > Own[f]
  BY <1>1, Segments
<1>. QED BY <1>1, <1>2, Segments, Calls

\* The inputs the layout names by paths through the i-th call in f.
LEMMA ThroughCall ==
    ASSUME NEW layout \in Seq(Paths), NEW f \in Fns, NEW p \in Paths, NEW start \in Nat,
           PlacedAt(layout, f, p, start), NEW i \in 1..Len(Body[f]),
           NEW k \in 1..Len(layout), Begins(Append(p, i), layout[k])
    PROVE  /\ Body[f][i] \in Verified
           /\ start + Offset(f, i) < k /\ k <= start + Offset(f, i) + Size[Body[f][i]]
<1>. DEFINE q == Append(p, i)
            m == Len(p)
<1>1. i \in Nat /\ p \in Seq(Nat) /\ layout[k] \in Seq(Nat) /\ m \in Nat /\ k \in Nat
  BY Calls DEF Paths
<1>2. /\ Len(q) = m + 1 /\ q[m + 1] = i
      /\ \A e \in 1..m : q[e] = p[e]
  BY <1>1
<1>. HIDE DEF q
<1>3. /\ m + 1 <= Len(layout[k]) /\ layout[k][m + 1] = i
      /\ \A e \in 1..m : layout[k][e] = p[e]
  <2>1. Begins(q, layout[k])
    BY DEF q
  <2>2. Len(q) <= Len(layout[k]) /\ \A e \in 1..Len(q) : layout[k][e] = q[e]
    BY <2>1 DEF Begins
  <2>. QED BY <1>1, <1>2, <2>2
<1>4. Begins(p, layout[k])
  BY <1>1, <1>3 DEF Begins
<1>5. start < k /\ k <= start + Size[f] /\ layout[k] = p \o Layout[f][k - start]
  BY <1>4 DEF PlacedAt
<1>6. /\ Size[f] \in Nat /\ Own[f] \in Nat
      /\ Layout[f] \in Seq(Paths) /\ Len(Layout[f]) = Size[f]
  BY Segments
<1>7. k - start \in 1..Size[f]
  BY <1>1, <1>5, <1>6
<1>. DEFINE r == Layout[f][k - start]
<1>8. r \in Seq(Nat)
  BY <1>6, <1>7 DEF Paths
<1>9. Len(r) >= 1 /\ r[1] = i
  <2>. HIDE DEF r
  <2>1. Len(p \o r) = m + Len(r) /\ Len(r) \in Nat /\ \A e \in 1..Len(r) : (p \o r)[m + e] = r[e]
    BY <1>1, <1>8, Concatenated
  <2>2. layout[k] = p \o r
    BY <1>5 DEF r
  <2>3. 1 <= Len(r)
    <3>. DEFINE n == Len(r)
    <3>1. n \in Nat /\ m + 1 <= m + n
      BY <1>3, <2>1, <2>2
    <3>. HIDE DEF n, m
    <3>2. 1 <= n
      BY <1>1, <3>1
    <3>. QED BY <3>2 DEF n
  <2>. QED BY <1>3, <2>1, <2>2, <2>3
<1>10. k - start > Own[f]
  <2>. SUFFICES ASSUME ~(k - start > Own[f]) PROVE FALSE
    OBVIOUS
  <2>1. k - start \in 1..Own[f]
    BY <1>6, <1>7
  <2>2. r = <<>>
    BY <2>1, Segments
  <2>. QED BY <1>9, <2>2
<1>11. PICK j \in 1..Len(Body[f]) :
           /\ Body[f][j] \in Verified
           /\ Offset(f, j) < k - start /\ k - start <= Offset(f, j) + Size[Body[f][j]]
  BY <1>7, <1>10, Segments
<1>12. /\ Offset(f, j) \in Nat /\ Size[Body[f][j]] \in Nat /\ Body[f][j] \in Fns
  BY <1>11, Segments, Calls
<1>. DEFINE l == k - start - Offset(f, j)
<1>13. l \in 1..Size[Body[f][j]] /\ Offset(f, j) + l = k - start
  <2>. DEFINE o == Offset(f, j)  c == Size[Body[f][j]]  d == k - start
  <2>1. o \in Nat /\ c \in Nat /\ d \in Int /\ o < d /\ d <= o + c
    BY <1>1, <1>11, <1>12
  <2>2. l = d - o
    OBVIOUS
  <2>. HIDE DEF o, c, d, l
  <2>3. l \in 1..c /\ o + l = d
    BY <2>1, <2>2
  <2>. QED BY <2>3 DEF o, c, d
<1>14. r = <<j>> \o Layout[Body[f][j]][l]
  <2>1. \A e \in 1..Size[Body[f][j]] : Layout[f][Offset(f, j) + e] = <<j>> \o Layout[Body[f][j]][e]
    BY <1>11, Segments
  <2>. HIDE DEF l
  <2>. QED BY <1>13, <2>1
<1>15. Layout[Body[f][j]][l] \in Seq(Nat) /\ j \in Nat
  <2>1. Layout[Body[f][j]] \in Seq(Paths) /\ Len(Layout[Body[f][j]]) = Size[Body[f][j]]
    BY <1>12, Segments
  <2>2. j \in Nat
    BY Calls
  <2>. HIDE DEF l
  <2>. QED BY <1>13, <2>1, <2>2 DEF Paths
<1>16. j = i
  <2>. HIDE DEF r, l
  <2>1. r[1] = j
    BY <1>14, <1>15
  <2>. QED BY <1>9, <2>1
<1>. QED BY <1>1, <1>11, <1>12, <1>16

\* The inputs of a called function are placed from the offset of the call on.
LEMMA Descends ==
    ASSUME NEW layout \in Seq(Paths), NEW f \in Fns, NEW p \in Paths, NEW start \in Nat,
           PlacedAt(layout, f, p, start), NEW i \in 1..Len(Body[f]),
           NEW offset, offset = IF Body[f][i] \in Verified THEN Offset(f, i) ELSE 0
    PROVE  offset \in Nat /\ PlacedAt(layout, Body[f][i], Append(p, i), start + offset)
<1>. DEFINE g == Body[f][i]
<1>1. g \in Fns /\ Size[g] \in Nat /\ Size[f] \in Nat /\ i \in Nat /\ Len(layout) \in Nat
  BY Segments, Calls
<1>2. offset \in Nat /\ offset + Size[g] <= Size[f]
  <2>1. CASE g \in Verified
    BY <2>1, Segments
  <2>2. CASE g \notin Verified
    <3>1. Size[g] = 0 /\ offset = 0
      BY <1>1, <2>2, NoInputs
    <3>. QED BY <1>1, <3>1
  <2>. QED BY <2>1, <2>2
<1>3. start + Size[f] <= Len(layout)
  BY DEF PlacedAt
<1>4. start + offset + Size[g] <= Len(layout)
  BY <1>1, <1>2, <1>3
<1>5. ASSUME NEW k \in 1..Len(layout), start + offset < k, k <= start + offset + Size[g]
      PROVE  layout[k] = Append(p, i) \o Layout[g][k - (start + offset)]
  <2>1. g \in Verified
    BY <1>1, <1>2, <1>5, NoInputs
  <2>. DEFINE l == k - (start + offset)
  <2>2. l \in 1..Size[g] /\ offset + l = k - start /\ start < k /\ k <= start + Size[f]
    <3>. DEFINE c == Size[g]  s == Size[f]
    <3>1. c \in Nat /\ s \in Nat /\ offset + c <= s /\ k \in Nat /\ offset \in Nat
      BY <1>1, <1>2
    <3>2. start + offset < k /\ k <= start + offset + c
      BY <1>5
    <3>. HIDE DEF c, s
    <3>3. l \in 1..c /\ offset + l = k - start /\ start < k /\ k <= start + s
      BY <3>1, <3>2, SMTT(30)
    <3>. QED BY <3>3 DEF c, s
  <2>3. layout[k] = p \o Layout[f][k - start]
    BY <2>2 DEF PlacedAt
  <2>4. Layout[f][k - start] = <<i>> \o Layout[g][l]
    <3>1. offset = Offset(f, i)
      BY <2>1
    <3>2. \A n \in 1..Size[g] : Layout[f][Offset(f, i) + n] = <<i>> \o Layout[g][n]
      BY <2>1, Segments
    <3>. HIDE DEF l
    <3>. QED BY <2>2, <3>1, <3>2
  <2>5. Layout[g][l] \in Seq(Nat) /\ p \in Seq(Nat)
    <3>1. Layout[g] \in Seq(Paths) /\ Len(Layout[g]) = Size[g]
      BY <1>1, Segments
    <3>. HIDE DEF l, g
    <3>. QED BY <2>2, <3>1 DEF Paths
  <2>. HIDE DEF l, g
  <2>6. p \o (<<i>> \o Layout[g][l]) = Append(p, i) \o Layout[g][l]
    <3>1. <<i>> \in Seq(Nat) /\ Append(p, i) = p \o <<i>>
      BY <1>1, <2>5
    <3>2. (p \o <<i>>) \o Layout[g][l] = p \o (<<i>> \o Layout[g][l])
      <4>1. \A s, t, v \in Seq(Nat) : (s \o t) \o v = s \o (t \o v)
        OBVIOUS
      <4>. QED BY <2>5, <3>1, <4>1, Zenon
    <3>. QED BY <3>1, <3>2, Zenon
  <2>. QED BY <2>3, <2>4, <2>6 DEF l
<1>6. ASSUME NEW k \in 1..Len(layout), ~(start + offset < k /\ k <= start + offset + Size[g])
      PROVE  ~Begins(Append(p, i), layout[k])
  BY <1>6, ThroughCall
<1>. QED BY <1>2, <1>4, <1>5, <1>6 DEF PlacedAt

\* The user's function begins at the first input.
LEMMA AtTop ==
    ASSUME NEW f \in Fns
    PROVE  PlacedAt(Layout[f], f, <<>>, 0)
<1>1. Layout[f] \in Seq(Paths) /\ Len(Layout[f]) = Size[f] /\ Size[f] \in Nat
  BY Segments
<1>2. ASSUME NEW k \in 1..Len(Layout[f])
      PROVE  k - 0 = k /\ <<>> \o Layout[f][k] = Layout[f][k] /\ 0 < k /\ k <= 0 + Size[f]
  <2>1. Layout[f][k] \in Seq(Nat) /\ k \in Nat
    BY <1>1, <1>2 DEF Paths
  <2>2. <<>> \o Layout[f][k] = Layout[f][k]
    BY <2>1
  <2>. QED BY <1>1, <2>1, <2>2
<1>. QED BY <1>1, <1>2 DEF PlacedAt

-----------------------------------------------------------------------------
(* The invariant of the contexts                                           *)

\* is_external at depth n of the call.
Mark(n) == IF n = 0 THEN "none" ELSE IF n = 1 THEN "yes" ELSE "no"

\* Frames of functions that are at, or after, their first call.
Frames ==
    [fn: Fns, next: Nat \ {0}, stage: {"body", "serialized", "sent"},
     ext: BOOLEAN, was: {"none", "yes", "no"}, prevLocals: Nat,
     offset: Nat, callCtx: BOOLEAN]

\* Every frame has saved what its context found: the state of the depth below.
Nested(frames) ==
    \A d \in 1..Len(frames) :
        /\ frames[d].ext <=> d = 1
        /\ frames[d].was = Mark(d - 1)
        /\ frames[d].prevLocals = d - 1

StackInv ==
    /\ stack \in Seq(Frames)
    /\ isExternal \in {"none", "yes", "no"}
    /\ locals \in Nat
    /\ refused \in BOOLEAN
    /\ stack = <<>> => raising = "no"

ContextInv ==
    ~refused =>
        /\ Nested(stack)
        /\ isExternal = Mark(Len(stack))
        /\ locals = Len(stack)

CtxInv == StackInv /\ ContextInv /\ CleanWhenIdle

-----------------------------------------------------------------------------
(* Entering and leaving a frame                                            *)

\* A pushed frame has saved the marks of its caller.
LEMMA PushNests ==
    ASSUME CtxInv, NEW f \in Fns, NEW callCtx \in BOOLEAN,
           NEW offset \in Nat,
           Push(f, callCtx, offset)
    PROVE  /\ stack' \in Seq(Frames) /\ stack' # <<>>
           /\ Len(stack') = Len(stack) + 1
           /\ locals' = Len(stack')
           /\ ~refused => Nested(stack')
<1> DEFINE new == [fn |-> f, next |-> 1, stage |-> "body", ext |-> isExternal = "none",
                   was |-> isExternal, prevLocals |-> locals, offset |-> offset,
                   callCtx |-> callCtx]
<1>1. new \in Frames
  BY DEF CtxInv, StackInv, Frames
<1>2. stack' = Append(stack, new) /\ stack \in Seq(Frames)
  BY DEF Push, CtxInv, StackInv
<1>3. /\ stack' \in Seq(Frames) /\ Len(stack') = Len(stack) + 1
      /\ \A d \in 1..Len(stack) : stack'[d] = stack[d]
      /\ stack'[Len(stack) + 1] = new
  <2> HIDE DEF new
  <2> QED BY <1>1, <1>2
<1>4. locals' = Len(stack')
  BY <1>3 DEF Push
<1>5. ASSUME ~refused
      PROVE  Nested(stack')
  <2>1. Nested(stack) /\ isExternal = Mark(Len(stack)) /\ locals = Len(stack)
    BY <1>5 DEF CtxInv, ContextInv
  <2>2. Len(stack) \in Nat
    BY <1>2
  <2>3. /\ new.ext <=> Len(stack) = 0
        /\ new.was = Mark(Len(stack))
        /\ new.prevLocals = Len(stack)
    BY <2>1, <2>2 DEF Mark
  <2> HIDE DEF new
  <2>4. ASSUME NEW d \in 1..(Len(stack) + 1)
        PROVE  /\ stack'[d].ext <=> d = 1
               /\ stack'[d].was = Mark(d - 1)
               /\ stack'[d].prevLocals = d - 1
    <3>1. CASE d \in 1..Len(stack)
      BY <1>3, <2>1, <3>1 DEF Nested
    <3>2. CASE d = Len(stack) + 1
      <4>1. d - 1 = Len(stack)
        BY <2>2, <3>2
      <4> QED BY <1>3, <2>2, <2>3, <3>2, <4>1
    <3> QED BY <2>2, <3>1, <3>2
  <2> QED BY <1>3, <2>4 DEF Nested
<1> QED BY <1>2, <1>3, <1>4, <1>5

\* The first n elements of a sequence.
LEMMA Prefix ==
    ASSUME NEW S, NEW q \in Seq(S), NEW n \in 0..Len(q)
    PROVE  /\ SubSeq(q, 1, n) \in Seq(S)
           /\ Len(SubSeq(q, 1, n)) = n
           /\ \A d \in 1..n : SubSeq(q, 1, n)[d] = q[d]
BY SMT

\* Without the frame on top the others are as they were.
LEMMA PopNests ==
    ASSUME stack \in Seq(Frames), stack # <<>>
    PROVE  /\ Len(stack) \in Nat \ {0}
           /\ Front(stack) \in Seq(Frames)
           /\ Len(Front(stack)) = Len(stack) - 1
           /\ Top \in Frames
           /\ Nested(stack) =>
                 /\ Nested(Front(stack))
                 /\ Top.ext <=> Len(stack) = 1
                 /\ Top.was = Mark(Len(stack) - 1)
                 /\ Top.prevLocals = Len(stack) - 1
<1>1. Len(stack) \in Nat \ {0}
  OBVIOUS
<1>2. Front(stack) = SubSeq(stack, 1, Len(stack) - 1)
  BY DEF Front
<1>3. /\ Front(stack) \in Seq(Frames) /\ Len(Front(stack)) = Len(stack) - 1
      /\ \A d \in 1..(Len(stack) - 1) : Front(stack)[d] = stack[d]
  <2>1. Len(stack) - 1 \in 0..Len(stack)
    BY <1>1
  <2> QED BY <1>2, <2>1, Prefix
<1>4. Top \in Frames /\ Top = stack[Len(stack)]
  BY <1>1 DEF Top
<1>5. ASSUME Nested(stack)
      PROVE  /\ Nested(Front(stack))
             /\ Top.ext <=> Len(stack) = 1
             /\ Top.was = Mark(Len(stack) - 1)
             /\ Top.prevLocals = Len(stack) - 1
  <2>1. \A d \in 1..Len(stack) :
           /\ stack[d].ext <=> d = 1
           /\ stack[d].was = Mark(d - 1)
           /\ stack[d].prevLocals = d - 1
    BY <1>5, Zenon DEF Nested
  <2>2. Len(stack) \in 1..Len(stack)
    BY <1>1
  <2>3. \A d \in 1..Len(Front(stack)) : d \in 1..Len(stack) /\ Front(stack)[d] = stack[d]
    BY <1>1, <1>3
  <2>4. Nested(Front(stack))
    BY <2>1, <2>3, Zenon DEF Nested
  <2> QED BY <1>4, <2>1, <2>2, <2>4, Zenon
<1> QED BY <1>1, <1>3, <1>4, <1>5

\* Changing next or stage of a frame leaves what it has saved alone.
LEMMA UpdateNests ==
    ASSUME NEW frames \in Seq(Frames), NEW d \in 1..Len(frames)
    PROVE  /\ \A st \in {"body", "serialized", "sent"} :
                 /\ [frames EXCEPT ![d].stage = st] \in Seq(Frames)
                 /\ Len([frames EXCEPT ![d].stage = st]) = Len(frames)
                 /\ Nested(frames) => Nested([frames EXCEPT ![d].stage = st])
           /\ [frames EXCEPT ![d].next = @ + 1] \in Seq(Frames)
           /\ Len([frames EXCEPT ![d].next = @ + 1]) = Len(frames)
           /\ Nested(frames) => Nested([frames EXCEPT ![d].next = @ + 1])
<1>1. ASSUME NEW fr \in Frames,
             fr.ext = frames[d].ext, fr.was = frames[d].was,
             fr.prevLocals = frames[d].prevLocals
      PROVE  /\ [frames EXCEPT ![d] = fr] \in Seq(Frames)
             /\ Len([frames EXCEPT ![d] = fr]) = Len(frames)
             /\ Nested(frames) => Nested([frames EXCEPT ![d] = fr])
  BY <1>1 DEF Nested
<1>2. frames[d] \in Frames
  OBVIOUS
<1>3. ASSUME NEW st \in {"body", "serialized", "sent"}
      PROVE  LET fr == [frames[d] EXCEPT !.stage = st]
             IN  /\ fr \in Frames /\ fr.ext = frames[d].ext
                 /\ fr.was = frames[d].was /\ fr.prevLocals = frames[d].prevLocals
  BY <1>2 DEF Frames
<1>4. ASSUME NEW n \in Nat \ {0}
      PROVE  LET fr == [frames[d] EXCEPT !.next = n]
             IN  /\ fr \in Frames /\ fr.ext = frames[d].ext
                 /\ fr.was = frames[d].was /\ fr.prevLocals = frames[d].prevLocals
  BY <1>2 DEF Frames
<1>5. frames[d].next + 1 \in Nat \ {0}
  BY <1>2 DEF Frames
<1> QED BY <1>1, <1>3, <1>4, <1>5

-----------------------------------------------------------------------------
(* The invariant of the contexts is inductive                              *)

LEMMA CtxInit == Init => CtxInv
<1> SUFFICES ASSUME Init
             PROVE  CtxInv
  OBVIOUS
<1>1. stack = <<>> /\ Len(stack) = 0
  BY DEF Init
<1>2. StackInv
  <2>1. stack \in Seq(Frames)
    BY <1>1
  <2>2. refused \in BOOLEAN
    BY Zenon DEF Init
  <2> QED BY <2>1, <2>2 DEF Init, StackInv
<1>3. ContextInv
  BY <1>1 DEF Init, ContextInv, Nested, Mark
<1>4. CleanWhenIdle
  BY DEF Init, CleanWhenIdle
<1> QED BY <1>2, <1>3, <1>4 DEF CtxInv

\* A step that moves no frame and leaves the simulator inside a call.
LEMMA InsideCall ==
    ASSUME CtxInv, stack # <<>>,
           stack' \in Seq(Frames), Len(stack') = Len(stack),
           Nested(stack) => Nested(stack'),
           UNCHANGED <<isExternal, locals, refused>>
    PROVE  CtxInv'
<1>1. stack' # <<>>
  BY DEF CtxInv, StackInv
<1> QED BY <1>1 DEF CtxInv, StackInv, ContextInv, CleanWhenIdle

\* A step that enters a function.
LEMMA EnterKeeps ==
    ASSUME CtxInv, NEW f \in Fns, NEW callCtx \in BOOLEAN,
           NEW offset \in Nat,
           Push(f, callCtx, offset), refused' = refused,
           isExternal' \in {"yes", "no"},
           ~refused => isExternal' = Mark(Len(stack) + 1)
    PROVE  CtxInv'
<1>1. /\ stack' \in Seq(Frames) /\ stack' # <<>>
      /\ Len(stack') = Len(stack) + 1
      /\ locals' = Len(stack')
      /\ ~refused => Nested(stack')
  BY PushNests
<1> QED BY <1>1 DEF CtxInv, StackInv, ContextInv, CleanWhenIdle

\* A step that leaves a function for the function that called it.
LEMMA LeaveKeeps ==
    ASSUME CtxInv, Len(stack) > 1, Restore(Top), refused' = refused,
           stack' \in Seq(Frames), Len(stack') = Len(stack) - 1,
           Nested(stack) => Nested(stack')
    PROVE  CtxInv'
<1>1. stack # <<>> /\ stack' # <<>> /\ Len(stack) \in Nat
  BY DEF CtxInv, StackInv
<1>2. /\ Top \in Frames
      /\ Nested(stack) => Top.was = Mark(Len(stack) - 1)
                          /\ Top.prevLocals = Len(stack) - 1
  BY <1>1, PopNests DEF CtxInv, StackInv
<1>3. isExternal' = Top.was /\ locals' = Top.prevLocals
  BY DEF Restore
<1> QED BY <1>1, <1>2, <1>3 DEF CtxInv, StackInv, ContextInv, CleanWhenIdle, Frames

\* A step that returns to the user.
LEMMA LeaveLastKeeps ==
    ASSUME CtxInv, Len(stack) = 1, Restore(Top), refused' = refused,
           stack' = <<>>, raising' = "no", ~refused => index' = 0
    PROVE  CtxInv'
<1>1. stack # <<>> /\ stack \in Seq(Frames)
  BY DEF CtxInv, StackInv
<1>2. /\ Top \in Frames
      /\ Nested(stack) => /\ Top.ext
                          /\ Top.was = "none" /\ Top.prevLocals = 0
  <2>1. /\ Top \in Frames
        /\ Nested(stack) => /\ Top.ext <=> Len(stack) = 1
                            /\ Top.was = Mark(Len(stack) - 1)
                            /\ Top.prevLocals = Len(stack) - 1
    BY <1>1, PopNests
  <2>2. Len(stack) - 1 = 0 /\ Mark(0) = "none"
    BY DEF Mark
  <2> QED BY <2>1, <2>2
<1>3. isExternal' = Top.was /\ locals' = Top.prevLocals
  BY DEF Restore
<1>4. StackInv'
  BY <1>2, <1>3 DEF CtxInv, StackInv, Frames
<1>5. ~refused => Nested(stack)
  BY DEF CtxInv, ContextInv
<1>6. ContextInv'
  BY <1>2, <1>3, <1>5 DEF ContextInv, Nested, Mark
<1>7. ~refused => priv' = NoList /\ special' = FALSE /\ cached' = FALSE
  BY <1>2, <1>5 DEF Restore
<1>8. CleanWhenIdle'
  BY <1>2, <1>3, <1>5, <1>7 DEF CleanWhenIdle
<1> QED BY <1>4, <1>6, <1>8 DEF CtxInv

LEMMA CtxStep == CtxInv /\ [Next]_vars => CtxInv'
<1> SUFFICES ASSUME CtxInv, [Next]_vars
             PROVE  CtxInv'
  OBVIOUS
<1>1. stack \in Seq(Frames) /\ Len(stack) \in Nat
  BY DEF CtxInv, StackInv
<1>2. stack # <<>> => Len(stack) \in 1..Len(stack) /\ Top \in Frames /\ Top = stack[Len(stack)]
  BY <1>1, PopNests DEF Top
<1>3. ASSUME NEW f \in Fns, UserCall(f)
      PROVE  CtxInv'
  <2>1. Push(f, FALSE, 0) /\ isExternal' = "yes" /\ refused' = refused /\ Len(stack) = 0
    BY <1>3 DEF UserCall
  <2>2. isExternal' = Mark(Len(stack) + 1)
    BY <2>1 DEF Mark
  <2>3. 0 \in Nat /\ FALSE \in BOOLEAN /\ isExternal' \in {"yes", "no"}
    BY <2>1
  <2> QED BY <2>1, <2>2, <2>3, EnterKeeps, Zenon
<1>4. ASSUME NEW f \in Fns, SpecialVariablesFail(f)
      PROVE  CtxInv'
  <2>1. /\ isExternal' = "yes" /\ refused' = TRUE
        /\ UNCHANGED <<stack, locals, raising>>
    BY <1>4 DEF SpecialVariablesFail
  <2>2. StackInv'
    BY <2>1 DEF CtxInv, StackInv
  <2> QED BY <2>1, <2>2 DEF CtxInv, ContextInv, CleanWhenIdle
<1>5. ASSUME NEW f \in Fns, UserCallTakenAsInternal(f)
      PROVE  CtxInv'
  <2>1. Push(f, FALSE, 0) /\ isExternal' = "no" /\ refused' = refused
    BY <1>5 DEF UserCallTakenAsInternal
  <2>2. refused
    BY <1>5 DEF UserCallTakenAsInternal, CtxInv, CleanWhenIdle, StackInv
  <2> QED BY <2>1, <2>2, EnterKeeps
<1>6. ASSUME InternalCall
      PROVE  CtxInv'
  <2> DEFINE g == Body[Top.fn][Top.next]
             offset == IF g \in Verified THEN Offset(Top.fn, Top.next) ELSE 0
  <2>1. Push(g, g \in Verified, offset) /\ isExternal' = "no" /\ refused' = refused
    BY <1>6 DEF InternalCall
  <2>2. stack # <<>> /\ Top.next <= Len(Body[Top.fn])
    BY <1>6 DEF InternalCall, InBody, CallsLeft
  <2>3. Top.fn \in Fns /\ Top.next \in Nat \ {0}
    BY <1>2, <2>2 DEF Frames
  <2>4. g \in Fns /\ (g \in Verified) \in BOOLEAN
    BY <2>2, <2>3, ProgramAssumption
  <2>5. offset \in Nat
    <3>1. Top.next \in 1..Len(Body[Top.fn])
      BY <2>2, <2>3, Calls
    <3> QED BY <2>3, <3>1, Segments
  <2>6. ~refused => isExternal' = Mark(Len(stack) + 1)
    BY <1>1, <2>1, <2>2 DEF Mark
  <2> HIDE DEF g, offset
  <2> QED BY <2>1, <2>4, <2>5, <2>6, EnterKeeps
<1>7. ASSUME SkipCall
      PROVE  CtxInv'
  <2>1. /\ stack # <<>> /\ stack' = [stack EXCEPT ![Len(stack)].next = @ + 1]
        /\ UNCHANGED <<isExternal, locals, refused>>
    BY <1>7 DEF SkipCall, InBody
  <2> QED BY <1>1, <1>2, <2>1, UpdateNests, InsideCall
<1>8. ASSUME UseState
      PROVE  CtxInv'
  <2>1. stack # <<>> /\ UNCHANGED <<isExternal, locals, stack, refused>>
    BY <1>8 DEF UseState, InBody
  <2> QED BY <1>1, <2>1, InsideCall
<1>9. ASSUME Serialize
      PROVE  CtxInv'
  <2>1. /\ stack # <<>> /\ stack' = [stack EXCEPT ![Len(stack)].stage = "serialized"]
        /\ UNCHANGED <<isExternal, locals, refused>>
    BY <1>9 DEF Serialize, InBody
  <2> QED BY <1>1, <1>2, <2>1, UpdateNests, InsideCall
<1>10. ASSUME ProveAndTransact
       PROVE  CtxInv'
  <2>1. /\ stack # <<>> /\ stack' = [stack EXCEPT ![Len(stack)].stage = "sent"]
        /\ UNCHANGED <<isExternal, locals, refused>>
    BY <1>10 DEF ProveAndTransact
  <2> QED BY <1>1, <1>2, <2>1, UpdateNests, InsideCall
<1>11. ASSUME Raise
       PROVE  CtxInv'
  <2>1. stack # <<>> /\ UNCHANGED <<isExternal, locals, stack, refused>>
    BY <1>11 DEF Raise
  <2> QED BY <1>1, <2>1, InsideCall
<1>12. ASSUME Return
       PROVE  CtxInv'
  <2>1. /\ Len(stack) > 1 /\ Restore(Top) /\ refused' = refused
        /\ stack' = [Front(stack) EXCEPT ![Len(stack) - 1].next = @ + 1]
    BY <1>12 DEF Return
  <2>2. /\ Front(stack) \in Seq(Frames) /\ Len(Front(stack)) = Len(stack) - 1
        /\ Nested(stack) => Nested(Front(stack))
        /\ Len(stack) - 1 \in 1..Len(Front(stack))
    BY <1>1, <2>1, PopNests
  <2>3. /\ stack' \in Seq(Frames) /\ Len(stack') = Len(stack) - 1
        /\ Nested(Front(stack)) => Nested(stack')
    BY <2>1, <2>2, UpdateNests
  <2> QED BY <2>1, <2>2, <2>3, LeaveKeeps
<1>13. ASSUME ReturnToUser
       PROVE  CtxInv'
  <2>1. raising' = "no"
    BY <1>13 DEF ReturnToUser
  <2> QED BY <1>13, <2>1, LeaveLastKeeps DEF ReturnToUser
<1>14. ASSUME Unwind
       PROVE  CtxInv'
  <2>1. /\ raising # "no" /\ Restore(Top) /\ refused' = refused
        /\ index' = IF Top.ext THEN 0 ELSE index
        /\ stack' = Front(stack)
        /\ raising' = IF Len(stack) = 1 THEN "no" ELSE raising
    BY <1>14 DEF Unwind
  <2>2. stack # <<>>
    BY <2>1 DEF CtxInv, StackInv
  <2>3. /\ Front(stack) \in Seq(Frames) /\ Len(Front(stack)) = Len(stack) - 1
        /\ Nested(stack) => Nested(Front(stack)) /\ (Top.ext <=> Len(stack) = 1)
    BY <1>1, <2>2, PopNests
  <2>4. CASE Len(stack) = 1
    <3>1. stack' = <<>> /\ raising' = "no"
      BY <2>1, <2>3, <2>4
    <3>2. ~refused => index' = 0
      BY <2>1, <2>3, <2>4 DEF CtxInv, ContextInv
    <3> QED BY <2>1, <2>4, <3>1, <3>2, LeaveLastKeeps
  <2>5. CASE Len(stack) > 1
    BY <2>1, <2>3, <2>5, LeaveKeeps
  <2>6. Len(stack) \in Nat \ {0}
    BY <1>1, <2>2, PopNests
  <2>7. Len(stack) = 1 \/ Len(stack) > 1
    BY <2>6
  <2> QED BY <2>4, <2>5, <2>7
<1>15. ASSUME UNCHANGED vars
       PROVE  CtxInv'
  BY <1>15 DEF vars, CtxInv, StackInv, ContextInv, CleanWhenIdle
<1> QED BY <1>3, <1>4, <1>5, <1>6, <1>7, <1>8, <1>9, <1>10, <1>11, <1>12, <1>13,
           <1>14, <1>15 DEF Next

LEMMA CtxInvariant == Spec => []CtxInv
BY CtxInit, CtxStep, PTL DEF Spec

-----------------------------------------------------------------------------
(* The frames of a call and the inputs of its functions                    *)

\* The path of calls to the function at depth d.
PathTo(frames, d) == [e \in 1..(d - 1) |-> frames[e].next]

\* The layout of the secret inputs of the call under way.
CallLayout(frames) == Layout[frames[1].fn]

\* start[d] is where the inputs of the function at depth d begin.
Starts(frames, start) ==
    /\ \A d \in 1..Len(frames) :
          PlacedAt(CallLayout(frames), frames[d].fn, PathTo(frames, d), start[d])
    /\ \A d \in 2..Len(frames) : start[d] = start[d - 1] + frames[d].offset

\* Functions below the top are in the middle of their body.  Those under way were
\* entered, and none that is still to be entered was.
Entered(frames, paths) ==
    /\ \A d \in 1..Len(frames) : PathTo(frames, d) \in paths
    /\ \A d \in 1..(Len(frames) - 1) : frames[d].stage = "body"
    /\ \A d \in 1..Len(frames) : \A p \in paths :
          (frames[d].stage = "body" /\ Len(p) >= d /\ Begins(PathTo(frames, d), p))
             => p[d] <= frames[d].next /\ (d = Len(frames) => p[d] # frames[d].next)

\* The functions that have not provided their inputs yet.
Waiting(frames) == {PathTo(frames, d) : d \in {e \in 1..Len(frames) : frames[e].stage = "body"}}

\* The inputs provided so far.
Filled(frames, paths) ==
    LET layout == CallLayout(frames)
    IN  [k \in 1..Len(layout) |-> IF layout[k] \in paths \ Waiting(frames) THEN layout[k] ELSE Unset]

\* The path to a frame, and the types of its fields.
LEMMA PathIs ==
    ASSUME NEW frames \in Seq(Frames), NEW d \in 1..Len(frames)
    PROVE  /\ PathTo(frames, d) \in Paths /\ Len(PathTo(frames, d)) = d - 1
           /\ \A e \in 1..(d - 1) : PathTo(frames, d)[e] = frames[e].next
           /\ frames[d] \in Frames /\ frames[d].fn \in Fns
           /\ frames[d].next \in Nat \ {0} /\ frames[d].offset \in Nat
<1>1. \A e \in 1..Len(frames) : frames[e] \in Frames
  OBVIOUS
<1>2. \A e \in 1..Len(frames) :
          frames[e].fn \in Fns /\ frames[e].next \in Nat \ {0} /\ frames[e].offset \in Nat
  BY <1>1 DEF Frames
<1>3. \A e \in 1..(d - 1) : frames[e].next \in Nat
  BY <1>2
<1>4. d - 1 \in Nat
  OBVIOUS
<1>5. PathTo(frames, d) \in Paths /\ Len(PathTo(frames, d)) = d - 1
  BY <1>3, <1>4 DEF PathTo, Paths
<1>6. \A e \in 1..(d - 1) : PathTo(frames, d)[e] = frames[e].next
  BY DEF PathTo
<1>. QED BY <1>1, <1>2, <1>5, <1>6

\* The layout of the call under way is that of the user's function.
LEMMA LayoutIs ==
    ASSUME NEW frames \in Seq(Frames), frames # <<>>
    PROVE  /\ CallLayout(frames) \in Seq(Paths) /\ Len(CallLayout(frames)) \in Nat
           /\ Len(frames) \in Nat \ {0} /\ frames[1].fn \in Fns
           /\ CallLayout(frames) = Layout[frames[1].fn]
<1>1. 1 \in 1..Len(frames) /\ Len(frames) \in Nat \ {0}
  OBVIOUS
<1>2. frames[1].fn \in Fns
  BY <1>1, PathIs
<1>. QED BY <1>1, <1>2, Segments DEF CallLayout

\* The frames of new are the lowest ones of old, but for what its top is doing.
LowerPart(new, old) ==
    /\ new \in Seq(Frames) /\ old \in Seq(Frames) /\ Len(new) \in 1..Len(old)
    /\ \A d \in 1..Len(new) : new[d].fn = old[d].fn /\ new[d].offset = old[d].offset
    /\ \A d \in 1..(Len(new) - 1) : new[d].next = old[d].next /\ new[d].stage = old[d].stage

\* The paths to the lower frames stay.
LEMMA LowerPaths ==
    ASSUME NEW new, NEW old, LowerPart(new, old)
    PROVE  /\ \A d \in 1..Len(new) : PathTo(new, d) = PathTo(old, d) /\ d \in 1..Len(old)
           /\ CallLayout(new) = CallLayout(old)
           /\ new # <<>> /\ old # <<>>
<1>. /\ new \in Seq(Frames) /\ old \in Seq(Frames) /\ Len(new) \in 1..Len(old)
     /\ \A d \in 1..Len(new) : new[d].fn = old[d].fn /\ new[d].offset = old[d].offset
     /\ \A d \in 1..(Len(new) - 1) : new[d].next = old[d].next /\ new[d].stage = old[d].stage
  BY DEF LowerPart
<1>1. \A d \in 1..Len(new) : d \in 1..Len(old) /\ \A e \in 1..(d - 1) : e \in 1..(Len(new) - 1)
  OBVIOUS
<1>2. \A d \in 1..Len(new) : PathTo(new, d) = PathTo(old, d)
  BY <1>1 DEF PathTo
<1>3. 1 \in 1..Len(new)
  OBVIOUS
<1>4. new # <<>> /\ old # <<>>
  OBVIOUS
<1>. QED BY <1>1, <1>2, <1>3, <1>4 DEF CallLayout

\* So do the places of their inputs.
LEMMA LowerStarts ==
    ASSUME NEW new, NEW old, LowerPart(new, old),
           NEW start \in [1..Len(old) -> 0..Len(CallLayout(old))], Starts(old, start)
    PROVE  LET s == [d \in 1..Len(new) |-> start[d]]
           IN  s \in [1..Len(new) -> 0..Len(CallLayout(new))] /\ Starts(new, s)
<1>. DEFINE s == [d \in 1..Len(new) |-> start[d]]
<1>1. /\ \A d \in 1..Len(new) : PathTo(new, d) = PathTo(old, d) /\ d \in 1..Len(old)
      /\ CallLayout(new) = CallLayout(old)
      /\ \A d \in 1..Len(new) : new[d].fn = old[d].fn /\ new[d].offset = old[d].offset
      /\ Len(new) \in Nat /\ Len(old) \in Nat
  BY LowerPaths DEF LowerPart
<1>2. s \in [1..Len(new) -> 0..Len(CallLayout(new))]
  BY <1>1
<1>3. \A d \in 1..Len(new) : s[d] = start[d]
  OBVIOUS
<1>. HIDE DEF s
<1>4. \A d \in 1..Len(new) : PlacedAt(CallLayout(new), new[d].fn, PathTo(new, d), s[d])
  BY <1>1, <1>3 DEF Starts
<1>5. \A d \in 2..Len(new) : s[d] = s[d - 1] + new[d].offset
  <2>. SUFFICES ASSUME NEW d \in 2..Len(new)
                PROVE  s[d] = s[d - 1] + new[d].offset
    OBVIOUS
  <2>1. d \in 1..Len(new) /\ d - 1 \in 1..Len(new) /\ d \in 2..Len(old)
    BY <1>1
  <2>2. start[d] = start[d - 1] + old[d].offset
    BY <2>1 DEF Starts
  <2>. QED BY <1>1, <1>3, <2>1, <2>2
<1>. QED BY <1>2, <1>4, <1>5 DEF Starts, s

\* Going on after a call keeps what is known of the paths taken.
LEMMA AdvanceEntered ==
    ASSUME NEW new, NEW old, LowerPart(new, old), NEW paths \in SUBSET Paths,
           Entered(old, paths),
           new[Len(new)].stage = old[Len(new)].stage,
           new[Len(new)].next = old[Len(new)].next + 1
    PROVE  Entered(new, paths)
<1>. DEFINE m == Len(new)
<1>1. /\ \A d \in 1..m : PathTo(new, d) = PathTo(old, d) /\ d \in 1..Len(old)
      /\ m \in 1..Len(old) /\ Len(old) \in Nat
      /\ new \in Seq(Frames) /\ old \in Seq(Frames)
      /\ \A d \in 1..(m - 1) : new[d].next = old[d].next /\ new[d].stage = old[d].stage
      /\ new[m].stage = old[m].stage /\ new[m].next = old[m].next + 1
  BY LowerPaths DEF LowerPart
<1>. HIDE DEF m
<1>2. \A d \in 1..m : old[d].next \in Nat
  BY <1>1, PathIs
<1>3. \A d \in 1..m : PathTo(new, d) \in paths
  BY <1>1 DEF Entered
<1>4. \A d \in 1..(m - 1) : new[d].stage = "body"
  <2>1. \A d \in 1..(m - 1) : d \in 1..(Len(old) - 1)
    BY <1>1
  <2>. QED BY <1>1, <2>1 DEF Entered
<1>5. ASSUME NEW d \in 1..m, NEW p \in paths, new[d].stage = "body", Len(p) >= d,
             Begins(PathTo(new, d), p)
      PROVE  p[d] <= new[d].next /\ (d = m => p[d] # new[d].next)
  <2>0. d = m \/ d \in 1..(m - 1)
    BY <1>1
  <2>1. old[d].stage = "body" /\ Begins(PathTo(old, d), p)
    BY <1>1, <1>5, <2>0
  <2>2. p[d] <= old[d].next
    BY <1>1, <1>5, <2>1 DEF Entered
  <2>3. p[d] \in Nat /\ old[d].next \in Nat
    <3>1. p \in Seq(Nat) /\ d \in 1..Len(p)
      BY <1>1, <1>5 DEF Paths
    <3>. QED BY <1>2, <3>1
  <2>4. CASE d = m
    BY <1>1, <2>2, <2>3, <2>4
  <2>5. CASE d \in 1..(m - 1)
    BY <1>1, <2>2, <2>5
  <2>. QED BY <2>0, <2>4, <2>5
<1>. QED BY <1>3, <1>4, <1>5 DEF Entered, m

\* So does leaving the body of the function on top.
LEMMA DoneEntered ==
    ASSUME NEW new, NEW old, LowerPart(new, old), Len(new) = Len(old),
           NEW paths \in SUBSET Paths, Entered(old, paths),
           new[Len(new)].stage # "body"
    PROVE  Entered(new, paths)
<1>. DEFINE m == Len(new)
<1>1. /\ \A d \in 1..m : PathTo(new, d) = PathTo(old, d)
      /\ m = Len(old) /\ m \in Nat \ {0}
      /\ \A d \in 1..(m - 1) : new[d].next = old[d].next /\ new[d].stage = old[d].stage
      /\ new[m].stage # "body"
  BY LowerPaths DEF LowerPart
<1>. HIDE DEF m
<1>2. \A d \in 1..m : d = m \/ d \in 1..(m - 1)
  BY <1>1
<1>3. \A d \in 1..m : PathTo(new, d) \in paths
  BY <1>1 DEF Entered
<1>4. \A d \in 1..(m - 1) : new[d].stage = "body"
  BY <1>1 DEF Entered
<1>5. ASSUME NEW d \in 1..m, NEW p \in paths, new[d].stage = "body", Len(p) >= d,
             Begins(PathTo(new, d), p)
      PROVE  p[d] <= new[d].next /\ (d = m => p[d] # new[d].next)
  <2>1. d # m /\ old[d].stage = "body" /\ Begins(PathTo(old, d), p) /\ new[d].next = old[d].next
    BY <1>1, <1>2, <1>5
  <2>. QED BY <1>1, <1>5, <2>1 DEF Entered
<1>. QED BY <1>3, <1>4, <1>5 DEF Entered, m

\* The functions that wait stay the same when none of them leaves its body.
LEMMA LowerWaiting ==
    ASSUME NEW new, NEW old, LowerPart(new, old),
           new[Len(new)].stage = "body" <=> old[Len(new)].stage = "body",
           \A d \in 1..Len(old) : d > Len(new) => old[d].stage # "body"
    PROVE  Waiting(new) = Waiting(old)
<1>. DEFINE m == Len(new)
<1>1. /\ \A d \in 1..m : PathTo(new, d) = PathTo(old, d) /\ d \in 1..Len(old)
      /\ m \in 1..Len(old) /\ Len(old) \in Nat
      /\ \A d \in 1..(m - 1) : new[d].stage = old[d].stage
      /\ new[m].stage = "body" <=> old[m].stage = "body"
      /\ \A d \in 1..Len(old) : d > m => old[d].stage # "body"
  <2>1. \A d \in 1..m : PathTo(new, d) = PathTo(old, d) /\ d \in 1..Len(old)
    BY LowerPaths
  <2>2. /\ m \in 1..Len(old) /\ Len(old) \in Nat
        /\ \A d \in 1..(m - 1) : new[d].stage = old[d].stage
    BY DEF LowerPart
  <2>. QED BY <2>1, <2>2
<1>. HIDE DEF m
<1>2. \A d \in 1..m : new[d].stage = "body" <=> old[d].stage = "body"
  <2>1. \A d \in 1..m : d = m \/ d \in 1..(m - 1)
    BY <1>1
  <2>. QED BY <1>1, <2>1
<1>3. \A d \in 1..Len(old) : old[d].stage = "body" => d \in 1..m
  BY <1>1
<1>4. {d \in 1..m : new[d].stage = "body"} = {d \in 1..Len(old) : old[d].stage = "body"}
  BY <1>1, <1>2, <1>3
<1>. QED BY <1>1, <1>4 DEF Waiting, m

\* What has been provided depends on the functions that wait only.
LEMMA LowerFilled ==
    ASSUME NEW new, NEW old, LowerPart(new, old), NEW paths,
           new[Len(new)].stage = "body" <=> old[Len(new)].stage = "body",
           \A d \in 1..Len(old) : d > Len(new) => old[d].stage # "body"
    PROVE  Filled(new, paths) = Filled(old, paths)
<1>1. Waiting(new) = Waiting(old) /\ CallLayout(new) = CallLayout(old)
  BY LowerWaiting, LowerPaths
<1>. QED BY <1>1 DEF Filled

\* Inputs are provided where the layout has the path of the function on top.
LEMMA Provided ==
    ASSUME NEW new, NEW old, LowerPart(new, old), Len(new) = Len(old),
           old[Len(old)].stage = "body", new[Len(old)].stage # "body",
           NEW start \in [1..Len(old) -> 0..Len(CallLayout(old))], Starts(old, start),
           NEW paths, Entered(old, paths)
    PROVE  Filled(new, paths) =
             [k \in 1..Len(CallLayout(old)) |->
                IF k \in (start[Len(old)] + 1)..(start[Len(old)] + Own[old[Len(old)].fn])
                THEN PathTo(old, Len(old)) ELSE Filled(old, paths)[k]]
<1>. DEFINE m == Len(old)
            layout == CallLayout(old)
            path == PathTo(old, m)
            own == (start[m] + 1)..(start[m] + Own[old[m].fn])
<1>1. /\ \A d \in 1..m : PathTo(new, d) = PathTo(old, d)
      /\ CallLayout(new) = layout /\ old # <<>>
  BY LowerPaths
<1>2. /\ m \in Nat \ {0} /\ Len(new) = m /\ old \in Seq(Frames)
      /\ \A d \in 1..(m - 1) : new[d].stage = old[d].stage
      /\ old[m].stage = "body" /\ new[m].stage # "body"
  BY DEF LowerPart
<1>3. /\ \A d \in 1..m : PathTo(old, d) \in Paths /\ Len(PathTo(old, d)) = d - 1
      /\ old[m].fn \in Fns /\ path \in Paths /\ Len(path) = m - 1
  <2>1. m \in 1..m
    BY <1>2
  <2>. QED BY <1>2, <2>1, PathIs
<1>4. layout \in Seq(Paths) /\ Len(layout) \in Nat
  BY <1>1, <1>2, LayoutIs
<1>5. \A k \in 1..Len(layout) : k \in own <=> layout[k] = path
  <2>1. m \in 1..m
    BY <1>2
  <2>2. PlacedAt(layout, old[m].fn, path, start[m])
    BY <2>1 DEF Starts
  <2>3. start[m] \in Nat
    BY <1>4, <2>1
  <2>. DEFINE x == start[m]  g == old[m].fn
  <2>4. layout \in Seq(Paths) /\ g \in Fns /\ path \in Paths /\ x \in Nat /\ PlacedAt(layout, g, path, x)
    BY <1>3, <1>4, <2>2, <2>3
  <2>. HIDE DEF layout, path, x, g
  <2>5. \A k \in 1..Len(layout) : k \in (x + 1)..(x + Own[g]) <=> layout[k] = path
    BY <2>4, OwnInputs
  <2>. QED BY <2>5 DEF x, g
<1>6. path \in paths
  BY <1>2 DEF Entered
<1>7. Waiting(new) = Waiting(old) \ {path}
  <2>. HIDE DEF m
  <2>1. ASSUME NEW p \in Waiting(new)
        PROVE  p \in Waiting(old) /\ p # path
    <3>1. PICK d \in 1..m : new[d].stage = "body" /\ p = PathTo(new, d)
      BY <1>2 DEF Waiting, m
    <3>2. d # m /\ d \in 1..(m - 1)
      BY <1>2, <3>1
    <3>3. old[d].stage = "body" /\ p = PathTo(old, d)
      BY <1>1, <1>2, <3>1, <3>2
    <3>4. p \in Waiting(old)
      BY <3>1, <3>3 DEF Waiting, m
    <3>5. Len(p) = d - 1 /\ Len(path) = m - 1
      BY <1>2, <1>3, <3>3
    <3>. QED BY <1>2, <3>2, <3>4, <3>5
  <2>2. ASSUME NEW p \in Waiting(old), p # path
        PROVE  p \in Waiting(new)
    <3>1. PICK d \in 1..m : old[d].stage = "body" /\ p = PathTo(old, d)
      BY <1>2 DEF Waiting, m
    <3>2. d # m /\ d \in 1..(m - 1)
      BY <1>2, <2>2, <3>1
    <3>. QED BY <1>1, <1>2, <3>1, <3>2 DEF Waiting
  <2>. QED BY <2>1, <2>2
<1>. HIDE DEF m, layout, path, own
<1>8. ASSUME NEW k \in 1..Len(layout)
      PROVE  (IF layout[k] \in paths \ Waiting(new) THEN layout[k] ELSE Unset)
             = (IF k \in own THEN path ELSE Filled(old, paths)[k])
  <2>1. Filled(old, paths)[k] = IF layout[k] \in paths \ Waiting(old) THEN layout[k] ELSE Unset
    BY DEF Filled, layout
  <2>. QED BY <1>5, <1>6, <1>7, <2>1
<1>9. Filled(new, paths) =
          [k \in 1..Len(layout) |-> IF layout[k] \in paths \ Waiting(new) THEN layout[k] ELSE Unset]
  BY <1>1 DEF Filled
<1>10. Filled(new, paths) = [k \in 1..Len(layout) |-> IF k \in own THEN path ELSE Filled(old, paths)[k]]
  BY <1>8, <1>9
<1>. QED BY <1>10 DEF m, layout, path, own

\* The frame that a call from the function on top enters.
Entering(old, frame) ==
    LET top == old[Len(old)]
    IN  /\ top.stage = "body" /\ top.next \in 1..Len(Body[top.fn])
        /\ frame \in Frames /\ frame.next = 1 /\ frame.stage = "body"
        /\ frame.fn = Body[top.fn][top.next]
        /\ frame.offset = IF frame.fn \in Verified THEN Offset(top.fn, top.next) ELSE 0

\* The paths after a call is entered.
LEMMA EnteredPaths ==
    ASSUME NEW old \in Seq(Frames), old # <<>>, NEW frame \in Frames
    PROVE  LET new == Append(old, frame)
               n == Len(old)
           IN  /\ new \in Seq(Frames) /\ Len(new) = n + 1 /\ n \in Nat \ {0}
               /\ \A d \in 1..n : new[d] = old[d]
               /\ new[n + 1] = frame
               /\ \A d \in 1..n : PathTo(new, d) = PathTo(old, d)
               /\ PathTo(new, n + 1) = Append(PathTo(old, n), old[n].next)
               /\ CallLayout(new) = CallLayout(old)
<1>. DEFINE new == Append(old, frame)
            n == Len(old)
<1>1. /\ new \in Seq(Frames) /\ Len(new) = n + 1 /\ n \in Nat \ {0}
      /\ \A d \in 1..n : new[d] = old[d]
      /\ new[n + 1] = frame
  OBVIOUS
<1>. HIDE DEF new
<1>2. n \in 1..Len(old) /\ 1 \in 1..n
  BY <1>1
<1>3. CallLayout(new) = CallLayout(old)
  BY <1>1, <1>2 DEF CallLayout
<1>4. \A d \in 1..n : PathTo(new, d) = PathTo(old, d)
  <2>1. \A d \in 1..n : \A e \in 1..(d - 1) : e \in 1..n
    OBVIOUS
  <2>. QED BY <1>1, <2>1 DEF PathTo
<1>5. PathTo(new, n + 1) = Append(PathTo(old, n), old[n].next)
  <2>1. PathTo(new, n + 1) = [e \in 1..n |-> old[e].next]
    BY <1>1 DEF PathTo
  <2>2. /\ PathTo(old, n) \in Seq(Nat) /\ Len(PathTo(old, n)) = n - 1
        /\ \A e \in 1..(n - 1) : PathTo(old, n)[e] = old[e].next
        /\ old[n].next \in Nat
    BY <1>2, PathIs DEF Paths
  <2>. DEFINE p == PathTo(old, n)
              q == [e \in 1..n |-> old[e].next]
  <2>. HIDE DEF p
  <2>3. /\ Append(p, old[n].next) \in Seq(Nat) /\ Len(Append(p, old[n].next)) = n
        /\ \A e \in 1..(n - 1) : Append(p, old[n].next)[e] = old[e].next
        /\ Append(p, old[n].next)[n] = old[n].next
    BY <1>1, <2>2 DEF p
  <2>4. \A e \in 1..n : e = n \/ e \in 1..(n - 1)
    BY <1>1
  <2>5. \A e \in 1..n : Append(p, old[n].next)[e] = q[e]
    BY <2>3, <2>4
  <2>6. Append(p, old[n].next) = [e \in 1..n |-> Append(p, old[n].next)[e]]
    BY <2>3
  <2>7. Append(p, old[n].next) = q
    BY <2>5, <2>6
  <2>. QED BY <2>1, <2>7 DEF p
<1>. QED BY <1>1, <1>3, <1>4, <1>5 DEF new

\* The inputs of the entered function begin at its offset from those of its caller.
LEMMA EnterStarts ==
    ASSUME NEW old \in Seq(Frames), old # <<>>, NEW frame, Entering(old, frame),
           NEW start \in [1..Len(old) -> 0..Len(CallLayout(old))], Starts(old, start)
    PROVE  LET new == Append(old, frame)
               s == [d \in 1..(Len(old) + 1) |->
                       IF d = Len(old) + 1 THEN start[Len(old)] + frame.offset ELSE start[d]]
           IN  /\ s \in [1..Len(new) -> 0..Len(CallLayout(new))] /\ Starts(new, s)
               /\ s[Len(new)] = start[Len(old)] + frame.offset
<1>. DEFINE new == Append(old, frame)
            n == Len(old)
            x == start[n] + frame.offset
            s == [d \in 1..(n + 1) |-> IF d = n + 1 THEN x ELSE start[d]]
            top == old[n]
<1>1. /\ new \in Seq(Frames) /\ Len(new) = n + 1 /\ n \in Nat \ {0}
      /\ \A d \in 1..n : new[d] = old[d]
      /\ new[n + 1] = frame
      /\ \A d \in 1..n : PathTo(new, d) = PathTo(old, d)
      /\ PathTo(new, n + 1) = Append(PathTo(old, n), old[n].next)
      /\ CallLayout(new) = CallLayout(old)
  BY EnteredPaths DEF Entering
<1>2. /\ top.next \in 1..Len(Body[top.fn]) /\ frame.fn = Body[top.fn][top.next]
      /\ frame.offset = IF frame.fn \in Verified THEN Offset(top.fn, top.next) ELSE 0
  BY DEF Entering
<1>3. n \in 1..n /\ CallLayout(old) \in Seq(Paths) /\ Len(CallLayout(old)) \in Nat
  BY <1>1, LayoutIs
<1>4. top.fn \in Fns /\ PathTo(old, n) \in Paths
  BY <1>3, PathIs
<1>5. PlacedAt(CallLayout(old), top.fn, PathTo(old, n), start[n]) /\ start[n] \in Nat
  BY <1>3 DEF Starts
<1>. HIDE DEF new, n, top
<1>6. frame.offset \in Nat /\ PlacedAt(CallLayout(old), frame.fn, Append(PathTo(old, n), top.next), x)
  BY <1>2, <1>3, <1>4, <1>5, Descends
<1>7. x \in 0..Len(CallLayout(old))
  <2>1. x + Size[frame.fn] <= Len(CallLayout(old))
    BY <1>6 DEF PlacedAt
  <2>2. Size[frame.fn] \in Nat /\ x \in Nat
    BY <1>2, <1>4, <1>5, <1>6, Calls, Segments
  <2>. QED BY <1>3, <2>1, <2>2
<1>. HIDE DEF x
<1>8. \A d \in 1..n : d \in 1..(n + 1) /\ d # n + 1 /\ s[d] = start[d]
  BY <1>1
<1>9. n + 1 \in 1..(n + 1) /\ s[n + 1] = x /\ \A d \in 1..(n + 1) : d = n + 1 \/ d \in 1..n
  BY <1>1
<1>10. s \in [1..(n + 1) -> 0..Len(CallLayout(old))]
  BY <1>7, <1>8, <1>9 DEF n
<1>. HIDE DEF s
<1>11. ASSUME NEW d \in 1..(n + 1)
       PROVE  PlacedAt(CallLayout(new), new[d].fn, PathTo(new, d), s[d])
  <2>1. CASE d = n + 1
    BY <1>1, <1>6, <1>9, <2>1 DEF top
  <2>2. CASE d \in 1..n
    BY <1>1, <1>8, <2>2 DEF Starts, n
  <2>. QED BY <1>9, <2>1, <2>2
<1>12. ASSUME NEW d \in 2..(n + 1)
       PROVE  s[d] = s[d - 1] + new[d].offset
  <2>1. d - 1 \in 1..n /\ d \in 1..(n + 1)
    BY <1>1
  <2>2. CASE d = n + 1
    BY <1>1, <1>8, <1>9, <2>1, <2>2 DEF x
  <2>3. CASE d \in 1..n
    <3>1. d \in 2..Len(old)
      BY <2>1, <2>3 DEF n
    <3>2. start[d] = start[d - 1] + old[d].offset
      BY <3>1 DEF Starts
    <3>. QED BY <1>1, <1>8, <2>1, <2>3, <3>2
  <2>. QED BY <1>9, <2>1, <2>2, <2>3
<1>13. Starts(new, s)
  BY <1>1, <1>11, <1>12 DEF Starts
<1>. QED BY <1>1, <1>9, <1>10, <1>13 DEF new, n, s, x

\* Every function is entered once along each path, and provides nothing yet.
LEMMA EnterEntered ==
    ASSUME NEW old \in Seq(Frames), old # <<>>, NEW frame, Entering(old, frame),
           NEW paths \in SUBSET Paths, Entered(old, paths)
    PROVE  LET new == Append(old, frame)
               path == PathTo(new, Len(new))
           IN  /\ path \in Paths /\ Entered(new, paths \cup {path})
               /\ Filled(new, paths \cup {path}) = Filled(old, paths)
<1>. DEFINE new == Append(old, frame)
            n == Len(old)
            next == old[n].next
            under == PathTo(old, n)
            path == PathTo(new, n + 1)
<1>1. /\ new \in Seq(Frames) /\ Len(new) = n + 1 /\ n \in Nat \ {0}
      /\ \A d \in 1..n : new[d] = old[d]
      /\ new[n + 1] = frame
      /\ \A d \in 1..n : PathTo(new, d) = PathTo(old, d)
      /\ path = Append(under, next)
      /\ CallLayout(new) = CallLayout(old)
  BY EnteredPaths DEF Entering
<1>2. old[n].stage = "body" /\ frame.stage = "body" /\ frame.next = 1
  BY DEF Entering
<1>3. /\ \A d \in 1..n : PathTo(old, d) \in Paths /\ Len(PathTo(old, d)) = d - 1 /\ old[d].next \in Nat
      /\ next \in Nat
      /\ \A d \in 1..n : \A e \in 1..(d - 1) : PathTo(old, d)[e] = old[e].next
  <2>1. n \in 1..n
    BY <1>1
  <2>. QED BY <2>1, PathIs
<1>4. n \in 1..n /\ n + 1 \in 1..(n + 1) /\ \A d \in 1..(n + 1) : d = n + 1 \/ d \in 1..n
  BY <1>1
<1>5. \A d \in 1..n : \A p \in paths :
          (old[d].stage = "body" /\ Len(p) >= d /\ Begins(PathTo(old, d), p))
             => p[d] <= old[d].next /\ (d = n => p[d] # old[d].next)
  BY DEF Entered
<1>6. (\A d \in 1..n : PathTo(old, d) \in paths) /\ \A d \in 1..(n - 1) : old[d].stage = "body"
  BY DEF Entered
<1>7. \A d \in 1..n : old[d].stage = "body"
  <2>1. \A d \in 1..n : d = n \/ d \in 1..(n - 1)
    BY <1>1
  <2>. QED BY <1>2, <1>6, <2>1
<1>8. under \in Paths /\ Len(under) = n - 1 /\ \A e \in 1..(n - 1) : under[e] = old[e].next
  BY <1>3, <1>4
<1>. HIDE DEF new, n, next, under, path
<1>9. /\ path \in Paths /\ Len(path) = n /\ path[n] = next
      /\ \A e \in 1..(n - 1) : path[e] = under[e]
      /\ \A e \in 1..n : path[e] = old[e].next
  <2>1. under \in Seq(Nat) /\ Len(under) = n - 1 /\ next \in Nat
    BY <1>3, <1>8 DEF Paths
  <2>2. /\ Append(under, next) \in Seq(Nat) /\ Len(Append(under, next)) = n
        /\ Append(under, next)[n] = next
        /\ \A e \in 1..(n - 1) : Append(under, next)[e] = under[e]
    BY <1>1, <2>1
  <2>3. /\ path \in Paths /\ Len(path) = n /\ path[n] = next
        /\ \A e \in 1..(n - 1) : path[e] = under[e]
    BY <1>1, <2>2 DEF Paths
  <2>4. \A e \in 1..n : e = n \/ e \in 1..(n - 1)
    BY <1>1
  <2>. QED BY <1>8, <2>3, <2>4 DEF next
<1>10. \A p \in paths : Len(p) >= n /\ Begins(under, p) => p[n] # next
  BY <1>4, <1>5, <1>7 DEF under, next
<1>11. ASSUME NEW p \in paths, Len(p) >= n, Begins(path, p)
       PROVE  FALSE
  <2>1. \A e \in 1..n : p[e] = path[e]
    BY <1>9, <1>11 DEF Begins
  <2>2. n - 1 <= Len(p) /\ \A e \in 1..(n - 1) : p[e] = under[e]
    <3>1. Len(p) \in Nat
      BY <1>11 DEF Paths
    <3>2. \A e \in 1..(n - 1) : e \in 1..n
      BY <1>1
    <3>. QED BY <1>1, <1>9, <1>11, <2>1, <3>1, <3>2
  <2>3. Begins(under, p)
    BY <1>8, <2>2 DEF Begins
  <2>. QED BY <1>4, <1>9, <1>10, <1>11, <2>1, <2>3
<1>12. path \notin paths
  <2>1. Begins(path, path) /\ Len(path) >= n
    <3>1. Len(path) \in Nat
      BY <1>1, <1>9
    <3>. QED BY <1>9, <3>1 DEF Begins
  <2>. QED BY <1>11, <2>1
<1>13. \A d \in 1..(n + 1) : PathTo(new, d) \in paths \cup {path}
  BY <1>1, <1>4, <1>6 DEF path
<1>14. \A d \in 1..n : new[d].stage = "body"
  BY <1>1, <1>7
<1>15. ASSUME NEW d \in 1..(n + 1), NEW p \in paths \cup {path},
              Len(p) >= d, Begins(PathTo(new, d), p)
       PROVE  p[d] <= new[d].next /\ (d = n + 1 => p[d] # new[d].next)
  <2>1. CASE d = n + 1
    <3>1. p \in paths
      BY <1>1, <1>9, <1>15, <2>1
    <3>2. Len(p) >= n
      <4>1. Len(p) \in Nat
        BY <3>1 DEF Paths
      <4>. QED BY <1>1, <1>15, <2>1, <4>1
    <3>. QED BY <1>11, <1>15, <2>1, <3>1, <3>2 DEF path
  <2>2. CASE d \in 1..n /\ p \in paths
    <3>1. d # n + 1
      BY <1>1, <2>2
    <3>. QED BY <1>1, <1>5, <1>7, <1>15, <2>2, <3>1
  <2>3. CASE d \in 1..n /\ p = path
    <3>1. d # n + 1
      BY <1>1, <2>3
    <3>2. p[d] = old[d].next /\ old[d].next \in Nat
      BY <1>3, <1>9, <2>3
    <3>. QED BY <1>1, <2>3, <3>1, <3>2
  <2>. QED BY <1>4, <2>1, <2>2, <2>3
<1>16. Entered(new, paths \cup {path})
  <2>1. (n + 1) - 1 = n
    BY <1>1
  <2>. QED BY <1>1, <1>13, <1>14, <1>15, <2>1 DEF Entered
<1>17. Waiting(new) = Waiting(old) \cup {path}
  <2>1. ASSUME NEW p \in Waiting(new)
        PROVE  p \in Waiting(old) \cup {path}
    <3>1. PICK d \in 1..(n + 1) : p = PathTo(new, d)
      BY <1>1 DEF Waiting
    <3>2. CASE d = n + 1
      BY <3>1, <3>2 DEF path
    <3>3. CASE d \in 1..n
      BY <1>1, <1>7, <3>1, <3>3 DEF Waiting, n
    <3>. QED BY <1>4, <3>2, <3>3
  <2>2. ASSUME NEW p \in Waiting(old)
        PROVE  p \in Waiting(new)
    <3>1. PICK d \in 1..n : p = PathTo(old, d)
      BY DEF Waiting, n
    <3>2. d \in 1..(n + 1) /\ new[d].stage = "body" /\ p = PathTo(new, d)
      BY <1>1, <1>14, <3>1
    <3>. QED BY <1>1, <3>2 DEF Waiting
  <2>3. path \in Waiting(new)
    BY <1>1, <1>2, <1>4 DEF Waiting, path
  <2>. QED BY <2>1, <2>2, <2>3
<1>18. (paths \cup {path}) \ Waiting(new) = paths \ Waiting(old)
  BY <1>12, <1>17
<1>19. Filled(new, paths \cup {path}) = Filled(old, paths)
  BY <1>1, <1>18 DEF Filled
<1>20. path = PathTo(new, Len(new))
  BY <1>1 DEF path
<1>. QED BY <1>9, <1>16, <1>19, <1>20 DEF new

\* The first frames, with another one on top.
LEMMA Retopped ==
    ASSUME NEW frames \in Seq(Frames), NEW new \in Seq(Frames), NEW m \in 1..Len(frames),
           Len(new) = m, \A d \in 1..(m - 1) : new[d] = frames[d],
           new[m].fn = frames[m].fn, new[m].offset = frames[m].offset
    PROVE  LowerPart(new, frames)
<1>1. \A d \in 1..m : d = m \/ d \in 1..(m - 1)
  OBVIOUS
<1>. QED BY <1>1 DEF LowerPart

\* The function on top goes on to the next call of its body.
LEMMA NextTop ==
    ASSUME NEW frames \in Seq(Frames), NEW new \in Seq(Frames), NEW m \in 1..Len(frames),
           Len(new) = m, \A d \in 1..(m - 1) : new[d] = frames[d],
           new[m] = [frames[m] EXCEPT !.next = frames[m].next + 1]
    PROVE  /\ LowerPart(new, frames)
           /\ new[m].stage = frames[m].stage /\ new[m].next = frames[m].next + 1
<1>1. frames[m] \in Frames
  OBVIOUS
<1>2. /\ new[m].fn = frames[m].fn /\ new[m].offset = frames[m].offset
      /\ new[m].stage = frames[m].stage /\ new[m].next = frames[m].next + 1
  BY <1>1 DEF Frames
<1>3. LowerPart(new, frames)
  BY <1>2, Retopped
<1>. QED BY <1>2, <1>3

\* The function on top reaches another stage.
LEMMA StageTop ==
    ASSUME NEW frames \in Seq(Frames), frames # <<>>,
           NEW st \in {"body", "serialized", "sent"},
           NEW new, new = [frames EXCEPT ![Len(frames)].stage = st]
    PROVE  /\ LowerPart(new, frames) /\ Len(new) = Len(frames)
           /\ new[Len(frames)].stage = st
<1>. DEFINE m == Len(frames)
            fr == [frames[m] EXCEPT !.stage = st]
<1>1. m \in 1..Len(frames) /\ frames[m] \in Frames
  OBVIOUS
<1>2. fr \in Frames /\ fr.fn = frames[m].fn /\ fr.offset = frames[m].offset /\ fr.stage = st
  BY <1>1 DEF Frames
<1>3. new = [frames EXCEPT ![m] = fr]
  OBVIOUS
<1>. HIDE DEF fr
<1>4. /\ new \in Seq(Frames) /\ Len(new) = m /\ new[m] = fr
      /\ \A d \in 1..(m - 1) : new[d] = frames[d]
  BY <1>1, <1>2, <1>3
<1>. QED BY <1>1, <1>2, <1>4, Retopped

-----------------------------------------------------------------------------
(* The inputs of the call under way                                        *)

\* What all_priv_values holds.
Values == {Unset} \cup Paths

\* The types of the variables the contexts share.
DataInv ==
    /\ priv = NoList \/ priv \in Seq(Values)
    /\ index \in Nat
    /\ special \in BOOLEAN
    /\ cached \in BOOLEAN
    /\ raising \in {"no", "reported", "other"}
    /\ ran \in SUBSET Paths
    /\ proof = NoList \/ proof \in [fn: Fns, vals: Seq(Values), ran: SUBSET Paths]

\* The index is at the inputs of the function on top, every function on the stack
\* was entered for the first time on its path, and the list holds the inputs of
\* those that are done.
CallInv ==
    (stack # <<>> /\ raising = "no") =>
        /\ ~refused
        /\ \E start \in [1..Len(stack) -> 0..Len(CallLayout(stack))] :
              Starts(stack, start) /\ index = start[Len(stack)]
        /\ Entered(stack, ran)
        /\ priv = Filled(stack, ran)

\* After a refusal the simulator takes every call for an internal one, which fails.
RefusedInv ==
    refused =>
        IF stack = <<>> THEN isExternal # "none"
        ELSE Len(stack) = 1 /\ raising # "no" /\ stack[1].was # "none"

InputsInv == CtxInv /\ DataInv /\ RefusedInv /\ CallInv /\ ProofInputsInPlace

\* The list has one element for every input of the call.
LEMMA FilledIs ==
    ASSUME NEW frames \in Seq(Frames), frames # <<>>, NEW paths \in SUBSET Paths
    PROVE  /\ Filled(frames, paths) \in Seq(Values)
           /\ DOMAIN Filled(frames, paths) = 1..Len(CallLayout(frames))
<1>1. CallLayout(frames) \in Seq(Paths) /\ Len(CallLayout(frames)) \in Nat
  BY LayoutIs
<1>. DEFINE layout == CallLayout(frames)
<1>. HIDE DEF layout
<1>2. \A k \in 1..Len(layout) :
          (IF layout[k] \in paths \ Waiting(frames) THEN layout[k] ELSE Unset) \in Values
  BY DEF Values
<1>3. Filled(frames, paths) =
          [k \in 1..Len(layout) |-> IF layout[k] \in paths \ Waiting(frames) THEN layout[k] ELSE Unset]
  BY DEF Filled, layout
<1>. QED BY <1>1, <1>2, <1>3 DEF layout

\* Going on in a body, after a call that is skipped or returns.
LEMMA GoOn ==
    ASSUME InputsInv, CtxInv', stack # <<>>, raising = "no",
           LowerPart(stack', stack), stack'[Len(stack')].stage = stack[Len(stack')].stage,
           stack'[Len(stack')].next = stack[Len(stack')].next + 1,
           \A d \in 1..Len(stack) : d > Len(stack') => stack[d].stage # "body",
           \/ Len(stack') = Len(stack) /\ index' = index
           \/ Len(stack') = Len(stack) - 1 /\ index' = index - Top.offset,
           UNCHANGED <<priv, raising, ran, proof, refused>>,
           special' \in BOOLEAN, cached' \in BOOLEAN
    PROVE  InputsInv'
<1>1. /\ stack \in Seq(Frames) /\ ran \in SUBSET Paths /\ index \in Nat
      /\ DataInv /\ CallInv /\ ~refused
  BY DEF InputsInv, CtxInv, StackInv, DataInv, CallInv
<1>2. PICK start \in [1..Len(stack) -> 0..Len(CallLayout(stack))] :
          Starts(stack, start) /\ index = start[Len(stack)]
  BY <1>1 DEF CallInv
<1>. DEFINE s == [d \in 1..Len(stack') |-> start[d]]
<1>3. s \in [1..Len(stack') -> 0..Len(CallLayout(stack'))] /\ Starts(stack', s)
  BY <1>2, LowerStarts
<1>4. /\ stack' \in Seq(Frames) /\ stack' # <<>> /\ Len(stack') \in 1..Len(stack)
      /\ Len(stack) \in Nat /\ Len(stack') \in 1..Len(stack')
  BY <1>1, LowerPaths DEF LowerPart
<1>5. index' = s[Len(stack')]
  <2>1. s[Len(stack')] = start[Len(stack')]
    BY <1>4
  <2>2. CASE Len(stack') = Len(stack) /\ index' = index
    BY <1>2, <2>1, <2>2
  <2>3. CASE Len(stack') = Len(stack) - 1 /\ index' = index - Top.offset
    <3>1. Len(stack) \in 2..Len(stack)
      BY <1>4, <2>3
    <3>2. start[Len(stack)] = start[Len(stack) - 1] + stack[Len(stack)].offset
      BY <1>2, <3>1 DEF Starts
    <3>3. stack[Len(stack)].offset \in Nat
      BY <1>1, <3>1, PathIs
    <3>4. Len(stack) - 1 \in 1..Len(stack)
      BY <3>1
    <3>5. start[Len(stack) - 1] \in 0..Len(CallLayout(stack)) /\ Len(CallLayout(stack)) \in Nat
      BY <1>1, <1>2, <3>4, LayoutIs
    <3>. DEFINE x == start[Len(stack) - 1]  y == start[Len(stack)]  o == stack[Len(stack)].offset
    <3>6. x \in Nat /\ o \in Nat /\ y = x + o /\ index' = y - o
      BY <1>2, <2>3, <3>2, <3>3, <3>5 DEF Top
    <3>7. index' = x
      <4>. HIDE DEF x, y, o
      <4>. QED BY <3>6
    <3>. QED BY <2>1, <2>3, <3>7
  <2>. QED BY <2>2, <2>3
<1>6. index' \in Nat
  <2>1. Len(CallLayout(stack')) \in Nat
    BY <1>4, LayoutIs
  <2>2. s[Len(stack')] \in 0..Len(CallLayout(stack'))
    BY <1>3, <1>4
  <2>. QED BY <1>5, <2>1, <2>2
<1>. HIDE DEF s
<1>7. Entered(stack', ran)
  BY <1>1, AdvanceEntered DEF CallInv
<1>8. Filled(stack', ran) = Filled(stack, ran)
  BY LowerFilled
<1>9. CallInv'
  <2>1. Entered(stack', ran') /\ priv' = Filled(stack', ran') /\ ~refused'
    BY <1>1, <1>7, <1>8 DEF CallInv
  <2>2. \E st \in [1..Len(stack') -> 0..Len(CallLayout(stack'))] :
            Starts(stack', st) /\ index' = st[Len(stack')]
    BY <1>3, <1>5
  <2>. QED BY <2>1, <2>2 DEF CallInv
<1>10. DataInv'
  BY <1>1, <1>6 DEF DataInv
<1>11. RefusedInv' /\ ProofInputsInPlace'
  BY <1>1 DEF RefusedInv, ProofInputsInPlace, InputsInv
<1>. QED BY <1>9, <1>10, <1>11 DEF InputsInv

\* A step after which no call goes on undisturbed.
LEMMA NoCall ==
    ASSUME InputsInv, CtxInv', DataInv', RefusedInv', UNCHANGED proof,
           stack' = <<>> \/ raising' # "no"
    PROVE  InputsInv'
BY DEF InputsInv, CallInv, ProofInputsInPlace

-----------------------------------------------------------------------------
(* The invariant of the inputs is inductive                                *)

LEMMA InputsInit == Init => InputsInv
<1>. SUFFICES ASSUME Init
              PROVE  InputsInv
  OBVIOUS
<1>1. CtxInv
  BY CtxInit
<1>2. DataInv
  BY DEF Init, DataInv
<1>. QED BY <1>1, <1>2 DEF InputsInv, Init, RefusedInv, CallInv, ProofInputsInPlace

\* The user calls a function.
LEMMA StartOfCall ==
    ASSUME InputsInv, CtxInv', NEW f \in Fns, UserCall(f)
    PROVE  InputsInv'
<1>. DEFINE n == IF f \in Verified THEN Size[f] ELSE 0
            frame == [fn |-> f, next |-> 1, stage |-> "body", ext |-> isExternal = "none",
                      was |-> isExternal, prevLocals |-> locals, offset |-> 0,
                      callCtx |-> FALSE]
            layout == Layout[f]
<1>1. /\ stack = <<>> /\ isExternal = "none" /\ stack' = Append(stack, frame)
      /\ priv' = [k \in 1..n |-> Unset] /\ index' = 0 /\ special' = TRUE /\ cached' = FALSE
      /\ raising' \in {"no", "other"} /\ ran' = {<<>>}
      /\ proof' = proof /\ refused' = refused
  BY DEF UserCall, Push
<1>2. stack' = <<frame>> /\ stack' \in Seq(Frames)
  BY <1>1 DEF InputsInv, CtxInv, StackInv
<1>3. layout \in Seq(Paths) /\ Len(layout) = Size[f] /\ Size[f] \in Nat /\ n = Size[f]
  BY Segments, NoInputs
<1>4. /\ Len(stack') = 1 /\ stack'[1] = frame /\ CallLayout(stack') = layout
      /\ PathTo(stack', 1) = <<>>
  <2>1. stack'[1].fn = f
    BY <1>2
  <2>2. PathTo(stack', 1) = <<>>
    BY DEF PathTo
  <2>. QED BY <1>2, <2>1, <2>2 DEF CallLayout
<1>5. Starts(stack', [d \in 1..1 |-> 0])
  <2>1. PlacedAt(layout, f, <<>>, 0)
    BY AtTop
  <2>2. \A d \in 1..Len(stack') : d = 1 /\ stack'[d].fn = f
    BY <1>4
  <2>3. \A d \in 2..Len(stack') : FALSE
    BY <1>4
  <2>. QED BY <1>4, <2>1, <2>2, <2>3 DEF Starts
<1>6. Entered(stack', ran')
  <2>1. \A p \in ran' : ~(Len(p) >= 1)
    BY <1>1
  <2>2. \A d \in 1..Len(stack') : d = 1
    BY <1>4
  <2>. QED BY <1>1, <1>4, <2>1, <2>2 DEF Entered
<1>7. priv' = Filled(stack', ran')
  <2>1. <<>> \in Waiting(stack')
    <3>1. 1 \in 1..Len(stack') /\ stack'[1].stage = "body"
      BY <1>4
    <3>. QED BY <1>4, <3>1 DEF Waiting
  <2>2. ran' \ Waiting(stack') = {}
    BY <1>1, <2>1
  <2>3. Filled(stack', ran') = [k \in 1..Len(layout) |-> Unset]
    BY <1>4, <2>2 DEF Filled
  <2>. QED BY <1>1, <1>3, <2>3
<1>. HIDE DEF n, layout, frame
<1>8. ~refused
  BY <1>1 DEF InputsInv, RefusedInv
<1>9. DataInv'
  <2>1. ran' \in SUBSET Paths
    BY <1>1 DEF Paths
  <2>2. priv' \in Seq(Values)
    BY <1>1, <1>3 DEF Values
  <2>. QED BY <1>1, <2>1, <2>2 DEF InputsInv, DataInv
<1>10. CallInv'
  <2>. DEFINE s == [d \in 1..1 |-> 0]
  <2>1. Len(CallLayout(stack')) \in Nat
    BY <1>3, <1>4
  <2>2. s \in [1..Len(stack') -> 0..Len(CallLayout(stack'))] /\ index' = s[Len(stack')]
    BY <1>1, <1>4, <2>1
  <2>. QED BY <1>1, <1>5, <1>6, <1>7, <1>8, <2>2 DEF CallInv
<1>. QED BY <1>1, <1>8, <1>9, <1>10 DEF InputsInv, RefusedInv, ProofInputsInPlace

\* A function calls another one.
LEMMA EnterCall ==
    ASSUME InputsInv, CtxInv', InternalCall
    PROVE  InputsInv'
<1>. DEFINE g == Body[Top.fn][Top.next]
            offset == IF g \in Verified THEN Offset(Top.fn, Top.next) ELSE 0
            frame == [fn |-> g, next |-> 1, stage |-> "body", ext |-> isExternal = "none",
                      was |-> isExternal, prevLocals |-> locals, offset |-> offset,
                      callCtx |-> g \in Verified]
<1>1. /\ stack # <<>> /\ raising = "no" /\ Top.stage = "body" /\ Top.next <= Len(Body[Top.fn])
      /\ stack' = Append(stack, frame) /\ index' = index + offset /\ ran' = ran \cup {Path'}
      /\ UNCHANGED <<priv, special, cached, raising, proof, refused>>
  BY DEF InternalCall, InBody, CallsLeft, Push
<1>2. /\ stack \in Seq(Frames) /\ ran \in SUBSET Paths /\ index \in Nat /\ ~refused
      /\ stack' \in Seq(Frames) /\ DataInv
      /\ isExternal \in {"none", "yes", "no"} /\ locals \in Nat
  BY <1>1 DEF InputsInv, CtxInv, StackInv, DataInv, CallInv
<1>3. Top = stack[Len(stack)] /\ Len(stack) \in 1..Len(stack)
  BY <1>1, <1>2 DEF Top
<1>4. Top \in Frames /\ Top.fn \in Fns /\ Top.next \in Nat \ {0}
  BY <1>2, <1>3, PathIs
<1>5. Top.next \in 1..Len(Body[Top.fn]) /\ g \in Fns
  BY <1>1, <1>4, Calls
<1>6. offset \in Nat
  BY <1>4, <1>5, Segments
<1>7. frame \in Frames
  <2>1. 1 \in Nat \ {0} /\ (isExternal = "none") \in BOOLEAN /\ (g \in Verified) \in BOOLEAN
    OBVIOUS
  <2>. HIDE DEF g, offset
  <2>. QED BY <1>2, <1>5, <1>6, <2>1 DEF Frames
<1>8. Entering(stack, frame)
  <2>1. frame.fn = g /\ frame.next = 1 /\ frame.stage = "body" /\ frame.offset = offset
    OBVIOUS
  <2>. HIDE DEF frame
  <2>. QED BY <1>1, <1>3, <1>5, <1>7, <2>1 DEF Entering
<1>9. frame.offset = offset
  OBVIOUS
<1>. HIDE DEF g, offset, frame
<1>10. PICK start \in [1..Len(stack) -> 0..Len(CallLayout(stack))] :
           Starts(stack, start) /\ index = start[Len(stack)]
  BY <1>1 DEF InputsInv, CallInv
<1>11. \E s \in [1..Len(stack') -> 0..Len(CallLayout(stack'))] :
           Starts(stack', s) /\ s[Len(stack')] = start[Len(stack)] + frame.offset
  <2>. DEFINE s == [d \in 1..(Len(stack) + 1) |->
                      IF d = Len(stack) + 1 THEN start[Len(stack)] + frame.offset ELSE start[d]]
              new == Append(stack, frame)
  <2>1. /\ s \in [1..Len(new) -> 0..Len(CallLayout(new))] /\ Starts(new, s)
        /\ s[Len(new)] = start[Len(stack)] + frame.offset
    BY <1>1, <1>2, <1>8, <1>10, EnterStarts
  <2>2. stack' = new
    BY <1>1
  <2>. HIDE DEF s, new
  <2>. QED BY <2>1, <2>2
<1>12. Path' = PathTo(stack', Len(stack'))
  BY DEF Path, PathTo
<1>13. /\ Path' \in Paths /\ Entered(stack', ran') /\ Filled(stack', ran') = Filled(stack, ran)
  <2>1. Entered(stack, ran)
    BY <1>1 DEF InputsInv, CallInv
  <2>. DEFINE new == Append(stack, frame)
              path == PathTo(new, Len(new))
  <2>2. /\ path \in Paths /\ Entered(new, ran \cup {path})
        /\ Filled(new, ran \cup {path}) = Filled(stack, ran)
    BY <1>1, <1>2, <1>8, <2>1, EnterEntered
  <2>. HIDE DEF new
  <2>3. stack' = new
    BY <1>1 DEF new
  <2>4. Path' = path /\ ran' = ran \cup {path}
    BY <1>1, <1>12, <2>3
  <2>. HIDE DEF path
  <2>. QED BY <2>2, <2>3, <2>4
<1>14. priv = Filled(stack, ran)
  BY <1>1 DEF InputsInv, CallInv
<1>15. CallInv'
  BY <1>1, <1>2, <1>9, <1>10, <1>11, <1>13, <1>14 DEF CallInv
<1>16. DataInv'
  <2>1. ran' \in SUBSET Paths /\ index' \in Nat
    BY <1>1, <1>2, <1>6, <1>13
  <2>. QED BY <1>1, <1>2, <2>1 DEF DataInv
<1>. QED BY <1>1, <1>2, <1>15, <1>16 DEF InputsInv, RefusedInv, ProofInputsInPlace

\* The function on top is done with its body.
LEMMA BodyDone ==
    ASSUME InputsInv, CtxInv', stack # <<>>, raising = "no",
           LowerPart(stack', stack), Len(stack') = Len(stack), stack'[Len(stack)].stage # "body",
           UNCHANGED <<index, special, cached, raising, ran, refused>>,
           priv' = Filled(stack', ran),
           proof' = NoList \/ proof' \in [fn: Fns, vals: Seq(Values), ran: SUBSET Paths],
           ProofInputsInPlace'
    PROVE  InputsInv'
<1>1. /\ stack \in Seq(Frames) /\ ran \in SUBSET Paths /\ ~refused /\ DataInv
  BY DEF InputsInv, CtxInv, StackInv, DataInv, CallInv
<1>3. stack' \in Seq(Frames) /\ stack' # <<>>
  BY LowerPaths DEF LowerPart
<1>4. PICK start \in [1..Len(stack) -> 0..Len(CallLayout(stack))] :
          Starts(stack, start) /\ index = start[Len(stack)]
  BY DEF InputsInv, CallInv
<1>5. \E s \in [1..Len(stack') -> 0..Len(CallLayout(stack'))] :
          Starts(stack', s) /\ s[Len(stack')] = index
  <2>. DEFINE s == [d \in 1..Len(stack') |-> start[d]]
  <2>1. s \in [1..Len(stack') -> 0..Len(CallLayout(stack'))] /\ Starts(stack', s)
    BY <1>4, LowerStarts
  <2>2. Len(stack') \in 1..Len(stack')
    BY <1>3
  <2>3. s[Len(stack')] = index
    BY <1>4, <2>2
  <2>. HIDE DEF s
  <2>. QED BY <2>1, <2>3
<1>6. Entered(stack', ran)
  <2>1. Entered(stack, ran) /\ stack'[Len(stack')].stage # "body"
    BY DEF InputsInv, CallInv
  <2>. QED BY <1>1, <2>1, DoneEntered
<1>7. CallInv'
  BY <1>1, <1>5, <1>6 DEF CallInv
<1>8. DataInv'
  <2>1. priv' \in Seq(Values)
    BY <1>1, <1>3, FilledIs
  <2>. QED BY <1>1, <2>1 DEF DataInv
<1>. QED BY <1>1, <1>7, <1>8 DEF InputsInv, RefusedInv

\* The function on top provides its inputs.
LEMMA SerializeKeeps ==
    ASSUME InputsInv, CtxInv', Serialize
    PROVE  InputsInv'
<1>1. /\ stack # <<>> /\ raising = "no" /\ Top.stage = "body"
      /\ priv' = [k \in DOMAIN priv |->
                    IF k \in (index + 1)..(index + Own[Top.fn]) THEN Path ELSE priv[k]]
      /\ stack' = [stack EXCEPT ![Len(stack)].stage = "serialized"]
      /\ UNCHANGED <<index, special, cached, raising, ran, proof, refused>>
  BY DEF Serialize, InBody
<1>2. /\ stack \in Seq(Frames) /\ ran \in SUBSET Paths /\ DataInv
      /\ Entered(stack, ran) /\ priv = Filled(stack, ran)
  BY <1>1 DEF InputsInv, CtxInv, StackInv, DataInv, CallInv
<1>3. PICK start \in [1..Len(stack) -> 0..Len(CallLayout(stack))] :
          Starts(stack, start) /\ index = start[Len(stack)]
  BY <1>1 DEF InputsInv, CallInv
<1>4. LowerPart(stack', stack) /\ Len(stack') = Len(stack) /\ stack'[Len(stack)].stage = "serialized"
  <2>. DEFINE new == [stack EXCEPT ![Len(stack)].stage = "serialized"]
  <2>1. LowerPart(new, stack) /\ Len(new) = Len(stack) /\ new[Len(stack)].stage = "serialized"
    <3>1. stack \in Seq(Frames) /\ stack # <<>> /\ "serialized" \in {"body", "serialized", "sent"}
      BY <1>1, <1>2
    <3>. QED BY <3>1, StageTop
  <2>2. stack' = new
    BY <1>1
  <2>. HIDE DEF new
  <2>. QED BY <2>1, <2>2
<1>10. stack # <<>> /\ stack[Len(stack)].stage = "body"
  BY <1>1 DEF Top
<1>5. Filled(stack', ran) =
          [k \in 1..Len(CallLayout(stack)) |->
             IF k \in (start[Len(stack)] + 1)..(start[Len(stack)] + Own[stack[Len(stack)].fn])
             THEN PathTo(stack, Len(stack)) ELSE Filled(stack, ran)[k]]
  BY <1>2, <1>3, <1>4, <1>10, Provided
<1>6. DOMAIN priv = 1..Len(CallLayout(stack))
  BY <1>1, <1>2, FilledIs
<1>7. Path = PathTo(stack, Len(stack))
  BY DEF Path, PathTo
<1>8. priv' = Filled(stack', ran)
  BY <1>1, <1>2, <1>3, <1>5, <1>6, <1>7 DEF Top
<1>9. ProofInputsInPlace'
  BY <1>1 DEF InputsInv, ProofInputsInPlace
<1>11. /\ UNCHANGED <<index, special, cached, raising, ran, refused>>
       /\ stack # <<>> /\ raising = "no" /\ stack'[Len(stack)].stage # "body"
       /\ proof' = NoList \/ proof' \in [fn: Fns, vals: Seq(Values), ran: SUBSET Paths]
  BY <1>1, <1>2, <1>4 DEF DataInv
<1>. QED BY <1>4, <1>8, <1>9, <1>11, BodyDone

\* The proof is made from the list when every function is done.
LEMMA ProveKeeps ==
    ASSUME InputsInv, CtxInv', ProveAndTransact
    PROVE  InputsInv'
<1>1. /\ stack # <<>> /\ raising = "no" /\ Top.ext /\ Top.stage = "serialized"
      /\ proof' = IF Top.fn \in Verified THEN [fn |-> Top.fn, vals |-> priv, ran |-> ran] ELSE proof
      /\ stack' = [stack EXCEPT ![Len(stack)].stage = "sent"]
      /\ UNCHANGED <<priv, index, special, cached, raising, ran, refused>>
  BY DEF ProveAndTransact
<1>2. /\ stack \in Seq(Frames) /\ ran \in SUBSET Paths /\ DataInv /\ ~refused
      /\ priv = Filled(stack, ran) /\ Nested(stack)
  BY <1>1 DEF InputsInv, CtxInv, StackInv, ContextInv, DataInv, CallInv
<1>3. Len(stack) = 1 /\ Top = stack[1] /\ Top.fn \in Fns
  <2>1. Len(stack) = 1
    BY <1>1, <1>2, PopNests
  <2>. QED BY <1>2, <2>1, PathIs DEF Top
<1>4. Waiting(stack) = {}
  <2>1. \A d \in 1..Len(stack) : stack[d].stage # "body"
    BY <1>1, <1>3
  <2>. QED BY <2>1 DEF Waiting
<1>5. priv = [k \in 1..Len(Layout[Top.fn]) |->
                IF Layout[Top.fn][k] \in ran THEN Layout[Top.fn][k] ELSE Unset]
  BY <1>2, <1>3, <1>4 DEF Filled, CallLayout
<1>6. priv \in Seq(Values)
  BY <1>1, <1>2, FilledIs
<1>7. proof' = NoList \/ proof' \in [fn: Fns, vals: Seq(Values), ran: SUBSET Paths]
  BY <1>1, <1>2, <1>3, <1>6 DEF DataInv
<1>8. ProofInputsInPlace'
  <2>1. CASE Top.fn \in Verified
    <3>1. proof'.fn = Top.fn /\ proof'.vals = priv /\ proof'.ran = ran
      BY <1>1, <2>1
    <3>2. DOMAIN Layout[Top.fn] = 1..Len(Layout[Top.fn])
      BY <1>3, Segments
    <3>. QED BY <1>5, <3>1, <3>2 DEF ProofInputsInPlace
  <2>2. CASE Top.fn \notin Verified
    BY <1>1, <2>2 DEF InputsInv, ProofInputsInPlace
  <2>. QED BY <2>1, <2>2
<1>9. LowerPart(stack', stack) /\ Len(stack') = Len(stack) /\ stack'[Len(stack)].stage = "sent"
  <2>1. stack \in Seq(Frames) /\ stack # <<>> /\ stack' = [stack EXCEPT ![Len(stack)].stage = "sent"]
    BY <1>1, <1>2
  <2>. QED BY <2>1, StageTop
<1>10. priv' = Filled(stack', ran)
  <2>1. stack'[Len(stack')].stage # "body" /\ stack[Len(stack')].stage # "body"
    BY <1>1, <1>9 DEF Top
  <2>2. \A d \in 1..Len(stack) : ~(d > Len(stack'))
    BY <1>3, <1>9
  <2>3. Filled(stack', ran) = Filled(stack, ran)
    BY <1>9, <2>1, <2>2, LowerFilled
  <2>. QED BY <1>1, <1>2, <2>3
<1>11. /\ UNCHANGED <<index, special, cached, raising, ran, refused>>
       /\ stack # <<>> /\ raising = "no" /\ stack'[Len(stack)].stage # "body"
  BY <1>1, <1>9
<1>. QED BY <1>7, <1>8, <1>9, <1>10, <1>11, BodyDone

\* Control returns to the calling function.
LEMMA ReturnKeeps ==
    ASSUME InputsInv, CtxInv', Return
    PROVE  InputsInv'
<1>1. /\ Len(stack) > 1 /\ raising = "no" /\ Top.stage = "serialized" /\ Restore(Top)
      /\ index' = index - Top.offset
      /\ stack' = [Front(stack) EXCEPT ![Len(stack) - 1].next = @ + 1]
      /\ UNCHANGED <<raising, ran, proof, refused>>
  BY DEF Return
<1>2. stack \in Seq(Frames) /\ DataInv /\ ~refused /\ Nested(stack) /\ stack # <<>>
  BY <1>1 DEF InputsInv, CtxInv, StackInv, ContextInv, CallInv
<1>. DEFINE m == Len(stack) - 1
            fs == Front(stack)
<1>3. m \in 1..Len(stack) /\ m \in 0..Len(stack) /\ Len(stack) \in Nat /\ m + 1 = Len(stack)
  BY <1>1, <1>2
<1>4. fs \in Seq(Frames) /\ Len(fs) = m /\ \A d \in 1..m : fs[d] = stack[d]
  BY <1>2, <1>3, Prefix DEF Front
<1>5. stack' = [fs EXCEPT ![m].next = @ + 1] /\ stack' \in Seq(Frames)
  BY <1>1 DEF CtxInv, StackInv
<1>. HIDE DEF m, fs
<1>6. /\ LowerPart(stack', stack) /\ Len(stack') = m
      /\ stack'[m].stage = stack[m].stage /\ stack'[m].next = stack[m].next + 1
  <2>1. /\ Len(stack') = m /\ \A d \in 1..(m - 1) : stack'[d] = stack[d]
        /\ stack'[m] = [stack[m] EXCEPT !.next = stack[m].next + 1]
    BY <1>3, <1>4, <1>5
  <2>2. stack \in Seq(Frames) /\ stack' \in Seq(Frames) /\ m \in 1..Len(stack)
    BY <1>2, <1>3, <1>5
  <2>. DEFINE new == stack'
  <2>3. /\ new \in Seq(Frames) /\ Len(new) = m /\ \A d \in 1..(m - 1) : new[d] = stack[d]
        /\ new[m] = [stack[m] EXCEPT !.next = stack[m].next + 1]
    BY <2>1, <2>2
  <2>. HIDE DEF new
  <2>4. LowerPart(new, stack) /\ new[m].stage = stack[m].stage /\ new[m].next = stack[m].next + 1
    BY <2>2, <2>3, NextTop
  <2>. QED BY <2>1, <2>4 DEF new
<1>7. UNCHANGED <<priv, special, cached>>
  <2>1. ~Top.ext
    <3>1. Len(stack) # 1
      BY <1>1
    <3>2. Top.ext <=> Len(stack) = 1
      BY <1>2, PopNests, Zenon
    <3>. QED BY <3>1, <3>2, Zenon
  <2>. QED BY <1>1, <2>1 DEF Restore
<1>8. \A d \in 1..Len(stack) : d > Len(stack') => stack[d].stage # "body"
  BY <1>1, <1>3, <1>6 DEF Top
<1>9. /\ stack'[Len(stack')].stage = stack[Len(stack')].stage
      /\ stack'[Len(stack')].next = stack[Len(stack')].next + 1
      /\ Len(stack') = Len(stack) - 1
  BY <1>3, <1>6
<1>10. /\ UNCHANGED <<priv, raising, ran, proof, refused>>
       /\ special' \in BOOLEAN /\ cached' \in BOOLEAN
  BY <1>1, <1>2, <1>7 DEF DataInv
<1>11. raising = "no" /\ index' = index - Top.offset /\ LowerPart(stack', stack)
  BY <1>1, <1>6
<1>. QED BY <1>2, <1>8, <1>9, <1>10, <1>11, GoOn

\* A call is in a branch not taken.
LEMMA SkipKeeps ==
    ASSUME InputsInv, CtxInv', SkipCall
    PROVE  InputsInv'
<1>1. /\ stack # <<>> /\ raising = "no"
      /\ stack' = [stack EXCEPT ![Len(stack)].next = @ + 1]
      /\ UNCHANGED <<priv, index, special, cached, raising, ran, proof, refused>>
  BY DEF SkipCall, InBody
<1>2. stack \in Seq(Frames) /\ DataInv
  BY DEF InputsInv, CtxInv, StackInv
<1>3. /\ LowerPart(stack', stack) /\ Len(stack') = Len(stack)
      /\ stack'[Len(stack)].stage = stack[Len(stack)].stage
      /\ stack'[Len(stack)].next = stack[Len(stack)].next + 1
  <2>. DEFINE m == Len(stack)
  <2>1. m \in 1..Len(stack) /\ stack' \in Seq(Frames)
    BY <1>1, <1>2 DEF CtxInv, StackInv
  <2>2. /\ Len(stack') = m /\ \A d \in 1..(m - 1) : stack'[d] = stack[d]
        /\ stack'[m] = [stack[m] EXCEPT !.next = stack[m].next + 1]
    BY <1>1, <1>2, <2>1
  <2>. HIDE DEF m
  <2>3. /\ LowerPart(stack', stack)
        /\ stack'[m].stage = stack[m].stage /\ stack'[m].next = stack[m].next + 1
    BY <1>2, <2>1, <2>2, NextTop
  <2>. QED BY <2>2, <2>3 DEF m
<1>4. \A d \in 1..Len(stack) : d > Len(stack') => stack[d].stage # "body"
  BY <1>2, <1>3
<1>5. /\ UNCHANGED <<priv, raising, ran, proof, refused>> /\ index' = index
      /\ special' \in BOOLEAN /\ cached' \in BOOLEAN /\ stack # <<>> /\ raising = "no"
  BY <1>1, <1>2 DEF DataInv
<1>6. /\ stack'[Len(stack')].stage = stack[Len(stack')].stage
      /\ stack'[Len(stack')].next = stack[Len(stack')].next + 1
      /\ Len(stack') = Len(stack) /\ index' = index
  BY <1>3, <1>5
<1>. QED BY <1>3, <1>4, <1>5, <1>6, GoOn

\* The exception leaves the function on top.
LEMMA UnwindKeeps ==
    ASSUME InputsInv, CtxInv', Unwind
    PROVE  InputsInv'
<1>1. /\ raising # "no" /\ Restore(Top)
      /\ index' = IF Top.ext THEN 0 ELSE index
      /\ stack' = Front(stack)
      /\ raising' = IF Len(stack) = 1 THEN "no" ELSE raising
      /\ ran' = IF Len(stack) = 1 THEN {} ELSE ran
      /\ UNCHANGED <<proof, refused>>
  BY DEF Unwind
<1>2. stack \in Seq(Frames) /\ DataInv /\ RefusedInv /\ stack # <<>> /\ Len(stack) \in Nat
  BY <1>1 DEF InputsInv, CtxInv, StackInv
<1>3. /\ isExternal' = Top.was
      /\ priv' = NoList \/ priv' = priv
      /\ special' \in BOOLEAN /\ cached' \in BOOLEAN
  BY <1>1, <1>2 DEF Restore, DataInv
<1>4. DataInv'
  <2>1. ran' \in SUBSET Paths /\ index' \in Nat /\ raising' \in {"no", "reported", "other"}
    BY <1>1, <1>2 DEF DataInv
  <2>. QED BY <1>1, <1>2, <1>3, <2>1 DEF DataInv
<1>5. stack' = <<>> \/ raising' # "no"
  <2>1. Len(stack') = Len(stack) - 1 /\ stack' \in Seq(Frames)
    BY <1>1, <1>2, PopNests
  <2>. QED BY <1>1, <2>1
<1>6. RefusedInv'
  <2>1. refused => Len(stack) = 1 /\ stack[1].was # "none"
    BY <1>2 DEF RefusedInv
  <2>2. Len(stack) = 1 => stack' = <<>> /\ isExternal' = stack[1].was
    <3>1. Len(stack') = Len(stack) - 1 /\ stack' \in Seq(Frames)
      BY <1>1, <1>2, PopNests
    <3>. QED BY <1>3, <3>1 DEF Top
  <2>. QED BY <1>1, <2>1, <2>2 DEF RefusedInv
<1>. QED BY <1>1, <1>4, <1>5, <1>6, NoCall

LEMMA InputsStep == InputsInv /\ [Next]_vars => InputsInv'
<1>. SUFFICES ASSUME InputsInv, [Next]_vars
              PROVE  InputsInv'
  OBVIOUS
<1>1. CtxInv'
  BY CtxStep DEF InputsInv
<1>2. DataInv /\ RefusedInv /\ stack \in Seq(Frames)
  BY DEF InputsInv, CtxInv, StackInv
<1>3. stack # <<>> /\ raising = "no" => ~refused
  BY DEF InputsInv, CallInv
<1>4. ASSUME NEW f \in Fns, UserCall(f)
      PROVE  InputsInv'
  BY <1>1, <1>4, StartOfCall
<1>5. ASSUME NEW f \in Fns, SpecialVariablesFail(f)
      PROVE  InputsInv'
  <2>. DEFINE n == IF f \in Verified THEN Size[f] ELSE 0
  <2>1. /\ stack' = <<>> /\ isExternal' = "yes" /\ index' = 0
        /\ priv' = [k \in 1..n |-> Unset]
        /\ UNCHANGED <<special, cached, raising, ran, proof>>
    BY <1>5 DEF SpecialVariablesFail
  <2>2. n \in Nat
    BY Segments
  <2>. HIDE DEF n
  <2>3. priv' \in Seq(Values)
    BY <2>1, <2>2 DEF Values
  <2>4. DataInv' /\ RefusedInv'
    BY <1>2, <2>1, <2>3 DEF DataInv, RefusedInv
  <2>. QED BY <1>1, <2>1, <2>4, NoCall
<1>6. ASSUME NEW f \in Fns, UserCallTakenAsInternal(f)
      PROVE  InputsInv'
  <2>1. /\ stack = <<>> /\ isExternal # "none" /\ raising' = "other"
        /\ UNCHANGED <<priv, index, special, cached, ran, proof, refused>>
        /\ Len(stack') = 1 /\ stack'[1].was = isExternal
    BY <1>6 DEF UserCallTakenAsInternal, Push
  <2>2. stack' # <<>>
    BY <1>1, <2>1 DEF CtxInv, StackInv
  <2>3. DataInv' /\ RefusedInv'
    BY <1>2, <2>1, <2>2 DEF DataInv, RefusedInv
  <2>. QED BY <1>1, <2>1, <2>3, NoCall
<1>7. ASSUME InternalCall
      PROVE  InputsInv'
  BY <1>1, <1>7, EnterCall
<1>8. ASSUME SkipCall
      PROVE  InputsInv'
  BY <1>1, <1>8, SkipKeeps
<1>9. ASSUME UseState
      PROVE  InputsInv'
  <2>1. /\ stack # <<>> /\ raising = "no" /\ cached' = TRUE
        /\ UNCHANGED <<isExternal, priv, index, special, stack, raising, ran, proof, refused>>
    BY <1>9 DEF UseState, InBody
  <2>2. DataInv'
    BY <1>2, <2>1 DEF DataInv
  <2>3. RefusedInv' /\ CallInv' /\ ProofInputsInPlace'
    BY <2>1 DEF InputsInv, RefusedInv, CallInv, ProofInputsInPlace
  <2>. QED BY <1>1, <2>2, <2>3 DEF InputsInv
<1>10. ASSUME Serialize
       PROVE  InputsInv'
  BY <1>1, <1>10, SerializeKeeps
<1>11. ASSUME ProveAndTransact
       PROVE  InputsInv'
  BY <1>1, <1>11, ProveKeeps
<1>12. ASSUME Raise
       PROVE  InputsInv'
  <2>1. /\ stack # <<>> /\ raising = "no" /\ raising' \in {"reported", "other"}
        /\ UNCHANGED <<priv, index, special, cached, stack, ran, proof, refused>>
    BY <1>12 DEF Raise
  <2>2. DataInv' /\ RefusedInv'
    BY <1>2, <1>3, <2>1 DEF DataInv, RefusedInv
  <2>. QED BY <1>1, <2>1, <2>2, NoCall
<1>13. ASSUME Return
       PROVE  InputsInv'
  BY <1>1, <1>13, ReturnKeeps
<1>14. ASSUME ReturnToUser
       PROVE  InputsInv'
  <2>1. /\ Len(stack) = 1 /\ raising = "no" /\ Restore(Top) /\ index' = 0 /\ stack' = <<>>
        /\ ran' = {} /\ UNCHANGED <<raising, proof, refused>>
    BY <1>14 DEF ReturnToUser
  <2>2. priv' = NoList \/ priv' = priv
    BY <2>1 DEF Restore
  <2>3. special' \in BOOLEAN /\ cached' \in BOOLEAN
    BY <1>2, <2>1 DEF Restore, DataInv
  <2>4. ~refused
    BY <1>2, <1>3, <2>1
  <2>5. DataInv' /\ RefusedInv'
    BY <1>2, <2>1, <2>2, <2>3, <2>4 DEF DataInv, RefusedInv
  <2>. QED BY <1>1, <2>1, <2>5, NoCall
<1>15. ASSUME Unwind
       PROVE  InputsInv'
  BY <1>1, <1>15, UnwindKeeps
<1>16. ASSUME UNCHANGED vars
       PROVE  InputsInv'
  <2>1. DataInv' /\ RefusedInv' /\ CallInv' /\ ProofInputsInPlace'
    BY <1>16 DEF vars, InputsInv, DataInv, RefusedInv, CallInv, ProofInputsInPlace
  <2>. QED BY <1>1, <2>1 DEF InputsInv
<1>. QED BY <1>4, <1>5, <1>6, <1>7, <1>8, <1>9, <1>10, <1>11, <1>12, <1>13, <1>14,
            <1>15, <1>16 DEF Next

LEMMA InputsInvariant == Spec => []InputsInv
BY InputsInit, InputsStep, PTL DEF Spec

-----------------------------------------------------------------------------
(* The theorems                                                            *)

\* Whatever exception ended the last call, and at whatever depth, the next one
\* starts from a clean simulator, unless msg, block and tx were refused once.
THEOREM CleanBetweenCalls == Spec => []CleanWhenIdle
<1>1. CtxInv => CleanWhenIdle
  BY DEF CtxInv
<1> QED BY <1>1, CtxInvariant, PTL

\* Unless msg, block and tx were refused once, is_external is true in the
\* function the user called and false in all functions below it.
THEOREM ExternalIsDirect == Spec => []DirectMeansExternalUnlessRefused
<1>1. CtxInv => DirectMeansExternalUnlessRefused
  BY DEF CtxInv, StackInv, ContextInv, DirectMeansExternalUnlessRefused,
         DirectMeansExternal, Mark
<1> QED BY <1>1, CtxInvariant, PTL

\* For every program: serialize_private_inputs puts every secret input a proof is
\* made from where the circuit takes it, once, from the function it belongs to, and
\* leaves those of branches not taken unset.
THEOREM InputsInPlace == Spec => []ProofInputsInPlace
<1>1. InputsInv => ProofInputsInPlace
  BY DEF InputsInv
<1>. QED BY <1>1, InputsInvariant, PTL

\* For every program the variables of the contexts have their types: the index that
\* call_ctx moves never falls below zero, whatever calls were entered and left, and
\* all_priv_values is a list whenever a function puts its inputs there.
THEOREM ContextTypes == Spec => []TypeOK
<1>1. Frames \subseteq Frame
  BY DEF Frames, Frame
<1>2. InputsInv => TypeOK
  <2>. SUFFICES ASSUME InputsInv
                PROVE  TypeOK
    OBVIOUS
  <2>1. stack \in Seq(Frame)
    BY <1>1 DEF InputsInv, CtxInv, StackInv
  <2>. QED BY <2>1 DEF InputsInv, CtxInv, StackInv, DataInv, TypeOK, Values, Paths
<1>. QED BY <1>2, InputsInvariant, PTL
=============================================================================

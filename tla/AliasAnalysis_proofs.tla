------------------------ MODULE AliasAnalysis_proofs ------------------------
(***************************************************************************)
(* Proofs about the alias analysis, for any labels and every well-formed   *)
(* program: each operation on partitions returns a partition, tracks the   *)
(* labels it should, and claims no equality that the step of the program   *)
(* it stands for does not leave; so what the compiler knows at a statement *)
(* covers the labels in scope, and, in programs without the statements it  *)
(* misjudges, holds whenever the statement is reached.                     *)
(***************************************************************************)
EXTENDS AliasAnalysis, Recursion, SequenceTheorems

-----------------------------------------------------------------------------
(* Partitions.  vals maps labels to the addresses they stand for.          *)

\* Each label is in one part at most, the one PartOf returns.
LEMMA OnePart ==
    ASSUME NEW P, IsPartitionState(P), NEW x, NEW p \in P, x \in p
    PROVE  PartOf(P, x) = p
  <1>1. \A q \in P : x \in q => q = p
    BY DEF IsPartitionState
  <1>2. {q \in P : x \in q} = {p}
    BY <1>1
  <1>. QED BY <1>2 DEF PartOf

\* A label that is tracked has a part, another label has none.
LEMMA PartOfTracked ==
    ASSUME NEW P, IsPartitionState(P), NEW x
    PROVE  /\ Has(P, x) => PartOf(P, x) \in P /\ x \in PartOf(P, x)
           /\ ~Has(P, x) => PartOf(P, x) = {}
           /\ Has(P, x) <=> x \in Elements(P)
  <1>1. ASSUME Has(P, x) PROVE PartOf(P, x) \in P /\ x \in PartOf(P, x)
    BY <1>1, OnePart DEF Has
  <1>2. ASSUME ~Has(P, x) PROVE PartOf(P, x) = {}
    <2>1. {q \in P : x \in q} = {}
      BY <1>2 DEF Has
    <2>. QED BY <2>1 DEF PartOf
  <1>3. Has(P, x) <=> x \in Elements(P)
    BY DEF Has, Elements
  <1>. QED BY <1>1, <1>2, <1>3

-----------------------------------------------------------------------------
(* Insertion and removal                                                   *)

\* insert: a new label is known to be equal to itself only.
THEOREM InsertSound ==
    ASSUME NEW P, IsPartitionState(P), NEW x, x \notin Elements(P), NEW vals, Agrees(P, vals)
    PROVE  /\ IsPartitionState(Insert(P, x)) /\ Elements(Insert(P, x)) = Elements(P) \cup {x}
           /\ Agrees(Insert(P, x), vals)
  <1>1. \A p \in P : x \notin p
    BY DEF Elements
  <1>2. IsPartitionState(Insert(P, x))
    <2>1. {} \notin Insert(P, x)
      BY DEF Insert, IsPartitionState
    <2>2. ASSUME NEW p \in Insert(P, x), NEW q \in Insert(P, x), p # q PROVE p \cap q = {}
      <3>1. CASE p = {x} \/ q = {x}
        BY <1>1, <2>2, <3>1 DEF Insert
      <3>2. CASE p \in P /\ q \in P
        BY <2>2, <3>2 DEF IsPartitionState
      <3>. QED BY <3>1, <3>2 DEF Insert
    <2>. QED BY <2>1, <2>2 DEF IsPartitionState
  <1>3. Elements(Insert(P, x)) = Elements(P) \cup {x}
    BY DEF Elements, Insert
  <1>4. Agrees(Insert(P, x), vals)
    BY DEF Agrees, Insert
  <1>. QED BY <1>2, <1>3, <1>4

\* remove: the other labels keep their parts, whatever becomes of this one.
THEOREM RemoveSound ==
    ASSUME NEW P, IsPartitionState(P), NEW x, NEW vals, Agrees(P, vals), NEW v
    PROVE  /\ IsPartitionState(RemoveFrom(P, x)) /\ Elements(RemoveFrom(P, x)) = Elements(P) \ {x}
           /\ Agrees(RemoveFrom(P, x), [vals EXCEPT ![x] = v])
  <1>1. \A p \in RemoveFrom(P, x) : p # {} /\ \E q \in P : p = q \ {x}
    BY DEF RemoveFrom
  <1>2. IsPartitionState(RemoveFrom(P, x))
    <2>1. {} \notin RemoveFrom(P, x)
      BY <1>1
    <2>2. ASSUME NEW p \in RemoveFrom(P, x), NEW q \in RemoveFrom(P, x), p # q
          PROVE  p \cap q = {}
      <3>1. PICK r \in P, s \in P : p = r \ {x} /\ q = s \ {x}
        BY <1>1
      <3>2. r # s
        BY <2>2, <3>1
      <3>. QED BY <3>1, <3>2 DEF IsPartitionState
    <2>. QED BY <2>1, <2>2 DEF IsPartitionState
  <1>3. Elements(RemoveFrom(P, x)) = Elements(P) \ {x}
    <2>1. ASSUME NEW y \in Elements(P) \ {x} PROVE y \in Elements(RemoveFrom(P, x))
      <3>1. PICK p \in P : y \in p
        BY DEF Elements
      <3>2. p \ {x} \in RemoveFrom(P, x) /\ y \in p \ {x}
        BY <3>1, <2>1 DEF RemoveFrom
      <3>. QED BY <3>2 DEF Elements
    <2>. QED BY <1>1, <2>1 DEF Elements
  <1>4. Agrees(RemoveFrom(P, x), [vals EXCEPT ![x] = v])
    <2>1. SUFFICES ASSUME NEW p \in RemoveFrom(P, x), NEW y \in p, NEW z \in p
                   PROVE  [vals EXCEPT ![x] = v][y] = [vals EXCEPT ![x] = v][z]
      BY DEF Agrees
    <2>. QED BY <1>1 DEF Agrees
  <1>. QED BY <1>2, <1>3, <1>4

-----------------------------------------------------------------------------
(* Equalities that a step of the program establishes                       *)

\* merge, for a condition x == me that holds from here on: nothing is known
\* that was not known before or follows from the equality, and what follows
\* from it is known.
THEOREM MergeSound ==
    ASSUME NEW P, IsPartitionState(P), NEW x, NEW y, MayMerge(P, x, y),
           NEW vals, Agrees(P, vals), vals[x] = vals[y]
    PROVE  /\ IsPartitionState(Merge(P, x, y)) /\ Elements(Merge(P, x, y)) = Elements(P)
           /\ Agrees(Merge(P, x, y), vals)
           /\ Has(P, x) => \A a, b : SamePartition(P, a, x) /\ SamePartition(P, b, y)
                                         => SamePartition(Merge(P, x, y), a, b)
  <1>. DEFINE X == PartOf(P, x)
              Y == PartOf(P, y)
  <1>1. CASE X = Y
    <2>1. Merge(P, x, y) = P
      BY <1>1 DEF Merge
    <2>2. ASSUME Has(P, x), NEW a, NEW b, SamePartition(P, a, x), SamePartition(P, b, y)
          PROVE  SamePartition(P, a, b)
      <3>1. X \in P /\ x \in X /\ y \in X
        BY <1>1, <2>2, PartOfTracked DEF MayMerge
      <3>2. a \in X /\ b \in X
        BY <2>2, <3>1 DEF SamePartition, IsPartitionState
      <3>. QED BY <3>1, <3>2 DEF SamePartition
    <2>. QED BY <2>1, <2>2
  <1>2. CASE X # Y
    <2>1. /\ X \in P /\ Y \in P /\ x \in X /\ y \in Y
      BY <1>2, PartOfTracked DEF MayMerge
    <2>2. Merge(P, x, y) = (P \ {X, Y}) \cup {X \cup Y}
      BY <1>2 DEF Merge
    <2>3. \A p \in P \ {X, Y} : p \cap (X \cup Y) = {}
      BY <2>1 DEF IsPartitionState
    <2>. HIDE DEF X, Y
    <2>4. IsPartitionState(Merge(P, x, y))
      <3>1. {} \notin Merge(P, x, y)
        BY <2>1, <2>2 DEF IsPartitionState
      <3>2. ASSUME NEW p \in Merge(P, x, y), NEW q \in Merge(P, x, y), p # q PROVE p \cap q = {}
        <4>1. CASE p = X \cup Y \/ q = X \cup Y
          BY <2>2, <2>3, <3>2, <4>1
        <4>2. CASE p \in P /\ q \in P
          BY <3>2, <4>2 DEF IsPartitionState
        <4>. QED BY <2>2, <4>1, <4>2
      <3>. QED BY <3>1, <3>2 DEF IsPartitionState
    <2>5. Elements(Merge(P, x, y)) = Elements(P)
      <3>1. ASSUME NEW e \in Elements(Merge(P, x, y)) PROVE e \in Elements(P)
        BY <2>1, <2>2 DEF Elements
      <3>2. ASSUME NEW e \in Elements(P) PROVE e \in Elements(Merge(P, x, y))
        <4>1. PICK p \in P : e \in p
          BY DEF Elements
        <4>2. \E q \in Merge(P, x, y) : e \in q
          BY <2>2, <4>1
        <4>. QED BY <4>2 DEF Elements
      <3>. QED BY <3>1, <3>2
    <2>6. Agrees(Merge(P, x, y), vals)
      <3>1. \A a \in X \cup Y : vals[a] = vals[x]
        BY <2>1 DEF Agrees
      <3>2. ASSUME NEW p \in Merge(P, x, y), NEW a \in p, NEW b \in p PROVE vals[a] = vals[b]
        <4>1. CASE p = X \cup Y
          BY <3>1, <4>1
        <4>2. CASE p \in P
          BY <4>2 DEF Agrees
        <4>. QED BY <2>2, <4>1, <4>2
      <3>. QED BY <3>2 DEF Agrees
    <2>7. ASSUME NEW a, NEW b, SamePartition(P, a, x), SamePartition(P, b, y)
          PROVE  SamePartition(Merge(P, x, y), a, b)
      <3>1. a \in X /\ b \in Y
        BY <2>1, <2>7 DEF SamePartition, IsPartitionState
      <3>2. X \cup Y \in Merge(P, x, y) /\ a \in X \cup Y /\ b \in X \cup Y
        BY <2>2, <3>1
      <3>. QED BY <3>2 DEF SamePartition
    <2>. QED BY <2>4, <2>5, <2>6, <2>7
  <1>. QED BY <1>1, <1>2

\* move_to, for an assignment x := y of a tracked label: x leaves its old part
\* and is known to be equal to what y is equal to.
THEOREM MoveSound ==
    ASSUME NEW P, IsPartitionState(P), NEW x, NEW y, Has(P, x), Has(P, y),
           NEW vals, x \in DOMAIN vals, Agrees(P, vals)
    PROVE  /\ IsPartitionState(MoveTo(P, x, y)) /\ Elements(MoveTo(P, x, y)) = Elements(P)
           /\ Agrees(MoveTo(P, x, y), [vals EXCEPT ![x] = vals[y]])
           /\ SamePartition(MoveTo(P, x, y), x, y)
  <1>. DEFINE R == RemoveFrom(P, x)
              new == [vals EXCEPT ![x] = vals[y]]
  <1>1. CASE SamePartition(P, x, y)
    <2>1. MoveTo(P, x, y) = P /\ vals[x] = vals[y]
      BY <1>1 DEF MoveTo, SamePartition, Agrees
    <2>2. \A a : new[a] = vals[a]
      BY <2>1
    <2>3. Agrees(P, new)
      BY <2>2 DEF Agrees
    <2>. QED BY <1>1, <2>1, <2>3
  <1>2. CASE ~SamePartition(P, x, y)
    <2>1. MoveTo(P, x, y) = {IF y \in p THEN p \cup {x} ELSE p : p \in R}
      BY <1>2 DEF MoveTo
    <2>2. IsPartitionState(R) /\ Elements(R) = Elements(P) \ {x} /\ Agrees(R, new)
      BY RemoveSound
    <2>3. x # y /\ y \in Elements(R) /\ x \in Elements(P) /\ \A p \in R : x \notin p
      BY <1>2, <2>2, PartOfTracked DEF SamePartition, Elements
    <2>4. PICK Y \in R : y \in Y
      BY <2>3 DEF Elements
    <2>5. \A p \in R : p # Y => y \notin p
      BY <2>2, <2>4 DEF IsPartitionState
    <2>6. new[x] = vals[y] /\ new[y] = vals[y]
      BY <2>3
    <2>. HIDE DEF R, new
    <2>7. MoveTo(P, x, y) = (R \ {Y}) \cup {Y \cup {x}}
      BY <2>1, <2>4, <2>5
    <2>8. IsPartitionState(MoveTo(P, x, y))
      <3>1. {} \notin MoveTo(P, x, y)
        BY <2>2, <2>7 DEF IsPartitionState
      <3>2. \A p \in R \ {Y} : p \cap (Y \cup {x}) = {}
        BY <2>2, <2>3, <2>4 DEF IsPartitionState
      <3>3. ASSUME NEW p \in MoveTo(P, x, y), NEW q \in MoveTo(P, x, y), p # q
            PROVE  p \cap q = {}
        <4>1. CASE p = Y \cup {x} \/ q = Y \cup {x}
          BY <2>7, <3>2, <3>3, <4>1
        <4>2. CASE p \in R /\ q \in R
          BY <2>2, <3>3, <4>2 DEF IsPartitionState
        <4>. QED BY <2>7, <4>1, <4>2
      <3>. QED BY <3>1, <3>3 DEF IsPartitionState
    <2>9. Elements(MoveTo(P, x, y)) = Elements(P)
      <3>1. Elements(MoveTo(P, x, y)) = Elements(R) \cup {x}
        <4>1. ASSUME NEW e \in Elements(MoveTo(P, x, y)) PROVE e \in Elements(R) \cup {x}
          BY <2>4, <2>7 DEF Elements
        <4>2. ASSUME NEW e \in Elements(R) \cup {x} PROVE e \in Elements(MoveTo(P, x, y))
          <5>1. \E p \in MoveTo(P, x, y) : e \in p
            BY <2>7 DEF Elements
          <5>. QED BY <5>1 DEF Elements
        <4>. QED BY <4>1, <4>2
      <3>. QED BY <2>2, <2>3, <3>1
    <2>10. Agrees(MoveTo(P, x, y), new)
      <3>1. \A a \in Y \cup {x} : new[a] = new[y]
        BY <2>2, <2>4, <2>6 DEF Agrees
      <3>2. ASSUME NEW p \in MoveTo(P, x, y), NEW a \in p, NEW b \in p PROVE new[a] = new[b]
        <4>1. CASE p = Y \cup {x}
          BY <3>1, <4>1
        <4>2. CASE p \in R
          BY <2>2, <4>2 DEF Agrees
        <4>. QED BY <2>7, <4>1, <4>2
      <3>. QED BY <3>2 DEF Agrees
    <2>11. SamePartition(MoveTo(P, x, y), x, y)
      BY <2>4, <2>7 DEF SamePartition
    <2>. QED BY <2>8, <2>9, <2>10, <2>11 DEF new
  <1>. QED BY <1>1, <1>2

-----------------------------------------------------------------------------
(* Equalities that a step of the program may end                           *)

\* move_to_separate, for an assignment of a value that is not tracked: whatever
\* the new value is, the equalities that are left still hold.
THEOREM MoveToSeparateSound ==
    ASSUME NEW P, IsPartitionState(P), NEW x, Has(P, x), NEW vals, Agrees(P, vals), NEW v
    PROVE  /\ IsPartitionState(MoveToSeparate(P, x)) /\ Elements(MoveToSeparate(P, x)) = Elements(P)
           /\ Agrees(MoveToSeparate(P, x), [vals EXCEPT ![x] = v])
  <1>. DEFINE R == RemoveFrom(P, x)
              new == [vals EXCEPT ![x] = v]
  <1>1. IsPartitionState(R) /\ Elements(R) = Elements(P) \ {x} /\ Agrees(R, new)
    BY RemoveSound
  <1>2. x \in Elements(P) /\ MoveToSeparate(P, x) = Insert(R, x)
    BY PartOfTracked DEF MoveToSeparate
  <1>. HIDE DEF R, new
  <1>3. /\ IsPartitionState(Insert(R, x)) /\ Elements(Insert(R, x)) = Elements(R) \cup {x}
        /\ Agrees(Insert(R, x), new)
    BY <1>1, InsertSound
  <1>. QED BY <1>1, <1>2, <1>3 DEF new

\* separate_all, for a side effect: it may change every label except the
\* immutable ones, and what is kept holds for every outcome.
THEOREM SeparateSound ==
    ASSUME NEW P, IsPartitionState(P), NEW vals, Agrees(P, vals),
           NEW after, \A x \in Immutable : after[x] = vals[x]
    PROVE  /\ IsPartitionState(SeparateAll(P)) /\ Elements(SeparateAll(P)) = Elements(P)
           /\ Agrees(SeparateAll(P), after)
  <1>1. \A p \in SeparateAll(P) :
            \/ \E x \in Elements(P) \ Immutable : p = {x}
            \/ p # {} /\ \E q \in P : p = q \cap Immutable
    BY DEF SeparateAll
  <1>2. IsPartitionState(SeparateAll(P))
    <2>1. {} \notin SeparateAll(P)
      BY <1>1
    <2>2. ASSUME NEW p \in SeparateAll(P), NEW q \in SeparateAll(P), p # q PROVE p \cap q = {}
      <3>1. CASE \E x \in Elements(P) \ Immutable : p = {x} \/ q = {x}
        <4>1. PICK x \in Elements(P) \ Immutable : p = {x} \/ q = {x}
          BY <3>1
        <4>2. \A r \in SeparateAll(P) : x \in r => r = {x}
          BY <1>1
        <4>. QED BY <2>2, <4>1, <4>2
      <3>2. CASE (\E r \in P : p = r \cap Immutable) /\ (\E r \in P : q = r \cap Immutable)
        <4>1. PICK r \in P, s \in P : p = r \cap Immutable /\ q = s \cap Immutable
          BY <3>2
        <4>2. r # s
          BY <2>2, <4>1
        <4>. QED BY <4>1, <4>2 DEF IsPartitionState
      <3>. QED BY <1>1, <3>1, <3>2
    <2>. QED BY <2>1, <2>2 DEF IsPartitionState
  <1>3. Elements(SeparateAll(P)) = Elements(P)
    <2>1. ASSUME NEW e \in Elements(SeparateAll(P)) PROVE e \in Elements(P)
      <3>1. PICK p \in SeparateAll(P) : e \in p
        BY DEF Elements
      <3>. QED BY <1>1, <3>1 DEF Elements
    <2>2. ASSUME NEW e \in Elements(P) PROVE e \in Elements(SeparateAll(P))
      <3>1. PICK p \in P : e \in p
        BY DEF Elements
      <3>2. CASE e \in Immutable
        <4>1. p \cap Immutable \in SeparateAll(P) /\ e \in p \cap Immutable
          BY <3>1, <3>2 DEF SeparateAll
        <4>. QED BY <4>1 DEF Elements
      <3>3. CASE e \notin Immutable
        <4>1. {e} \in SeparateAll(P)
          BY <3>3 DEF SeparateAll
        <4>. QED BY <4>1 DEF Elements
      <3>. QED BY <3>2, <3>3
    <2>. QED BY <2>1, <2>2
  <1>4. Agrees(SeparateAll(P), after)
    <2>1. SUFFICES ASSUME NEW p \in SeparateAll(P), NEW a \in p, NEW b \in p
                   PROVE  after[a] = after[b]
      BY DEF Agrees
    <2>. QED BY <1>1 DEF Agrees
  <1>. QED BY <1>2, <1>3, <1>4

\* join, for the end of a branch: exactly the equalities both branches end with
\* are kept, so they hold whichever was taken.
THEOREM JoinSound ==
    ASSUME NEW P, NEW Q, IsPartitionState(P), IsPartitionState(Q), Elements(P) = Elements(Q)
    PROVE  /\ IsPartitionState(Join(P, Q)) /\ Elements(Join(P, Q)) = Elements(P)
           /\ \A vals : Agrees(P, vals) \/ Agrees(Q, vals) => Agrees(Join(P, Q), vals)
           /\ \A x, y : SamePartition(Join(P, Q), x, y)
                            <=> SamePartition(P, x, y) /\ SamePartition(Q, x, y)
  <1>1. \A j \in Join(P, Q) : j # {} /\ \E p \in P, q \in Q : j = p \cap q
    BY DEF Join
  <1>2. \A p \in P, q \in Q : p \cap q # {} => p \cap q \in Join(P, Q)
    BY DEF Join
  <1>3. IsPartitionState(Join(P, Q))
    <2>1. {} \notin Join(P, Q)
      BY <1>1
    <2>2. ASSUME NEW i \in Join(P, Q), NEW j \in Join(P, Q), i # j PROVE i \cap j = {}
      <3>1. PICK p \in P, q \in Q : i = p \cap q
        BY <1>1
      <3>2. PICK r \in P, s \in Q : j = r \cap s
        BY <1>1
      <3>3. p # r \/ q # s
        BY <2>2, <3>1, <3>2
      <3>. QED BY <3>1, <3>2, <3>3 DEF IsPartitionState
    <2>. QED BY <2>1, <2>2 DEF IsPartitionState
  <1>4. Elements(Join(P, Q)) = Elements(P)
    <2>1. ASSUME NEW e \in Elements(Join(P, Q)) PROVE e \in Elements(P)
      <3>1. PICK j \in Join(P, Q) : e \in j
        BY DEF Elements
      <3>. QED BY <1>1, <3>1 DEF Elements
    <2>2. ASSUME NEW e \in Elements(P) PROVE e \in Elements(Join(P, Q))
      <3>1. PICK p \in P, q \in Q : e \in p /\ e \in q
        BY DEF Elements
      <3>2. p \cap q \in Join(P, Q) /\ e \in p \cap q
        BY <1>2, <3>1
      <3>. QED BY <3>2 DEF Elements
    <2>. QED BY <2>1, <2>2
  <1>5. ASSUME NEW vals, Agrees(P, vals) \/ Agrees(Q, vals) PROVE Agrees(Join(P, Q), vals)
    BY <1>1, <1>5 DEF Agrees
  <1>6. ASSUME NEW x, NEW y
        PROVE  SamePartition(Join(P, Q), x, y) <=> SamePartition(P, x, y) /\ SamePartition(Q, x, y)
    <2>1. ASSUME NEW j \in Join(P, Q), x \in j, y \in j
          PROVE  SamePartition(P, x, y) /\ SamePartition(Q, x, y)
      BY <1>1, <2>1 DEF SamePartition
    <2>2. ASSUME NEW p \in P, x \in p, y \in p, NEW q \in Q, x \in q, y \in q
          PROVE  SamePartition(Join(P, Q), x, y)
      <3>1. p \cap q \in Join(P, Q) /\ x \in p \cap q /\ y \in p \cap q
        BY <1>2, <2>2
      <3>. QED BY <3>1 DEF SamePartition
    <2>. QED BY <2>1, <2>2 DEF SamePartition
  <1>. QED BY <1>3, <1>4, <1>5, <1>6

-----------------------------------------------------------------------------
(* The states of the analysis and the definitions by recursion             *)

\* The operations return states: sets of sets of labels.
LEMMA Closed ==
    ASSUME NEW P \in States
    PROVE  /\ SeparateAll(P) \in States
           /\ \A Q \in States : Join(P, Q) \in States
           /\ \A names \in SUBSET Labels : InsertAll(P, names) \in States /\ RemoveAll(P, names) \in States
           /\ \A x, y : Merge(P, x, y) \in States
           /\ \A x \in Labels : MoveToSeparate(P, x) \in States /\ \A y : MoveTo(P, x, y) \in States
<1>1. \A p \in P : p \in SUBSET Labels
  BY DEF States
<1>2. SeparateAll(P) \in States
  <2>1. \A p \in SeparateAll(P) : (\E x \in Elements(P) : p = {x}) \/ \E q \in P : p = q \cap Immutable
    BY DEF SeparateAll
  <2>. QED BY <1>1, <2>1 DEF States, Elements
<1>3. \A Q \in States : Join(P, Q) \in States
  BY <1>1 DEF States, Join
<1>4. \A names \in SUBSET Labels : InsertAll(P, names) \in States /\ RemoveAll(P, names) \in States
  BY <1>1 DEF States, InsertAll, RemoveAll
<1>5. ASSUME NEW x PROVE PartOf(P, x) \in SUBSET Labels
  BY <1>1 DEF PartOf
<1>6. \A x, y : Merge(P, x, y) \in States
  BY <1>1, <1>5 DEF States, Merge
<1>7. ASSUME NEW x \in Labels PROVE RemoveFrom(P, x) \in States
  BY <1>1 DEF States, RemoveFrom
<1>8. \A x \in Labels : MoveToSeparate(P, x) \in States
  BY <1>7 DEF States, MoveToSeparate, Insert
<1>9. ASSUME NEW x \in Labels, NEW y PROVE MoveTo(P, x, y) \in States
  <2>1. \A p \in RemoveFrom(P, x) : p \in SUBSET Labels
    BY <1>7 DEF States
  <2>. QED BY <2>1 DEF States, MoveTo
<1>. QED BY <1>2, <1>3, <1>4, <1>6, <1>8, <1>9

\* What is well formed about a condition.
LEMMA ConditionParts ==
    ASSUME NEW c \in Conditions
    PROVE  /\ c.depth \in 0..MaxDepth /\ c.labels \in SUBSET Labels
           /\ c.op \in {"opaque", "call", "eq", "ne", "not", "and", "or"}
           /\ c.op \in {"eq", "ne"} => {c.l, c.r} \subseteq c.labels \cup {Fresh}
           /\ c.op \in {"not", "and", "or"} =>
                 c.l \in Conditions /\ c.l.depth < c.depth /\ c.l.labels \subseteq c.labels
           /\ c.op \in {"and", "or"} =>
                 c.r \in Conditions /\ c.r.depth < c.depth /\ c.r.labels \subseteq c.labels
BY ProgramAssumption DEF WellFormedCondition

\* The depths of conditions, and of statements, are ranks.
LEMMA Depths ==
    /\ MaxDepth \in Nat
    /\ [c \in Conditions |-> c.depth] \in [Conditions -> 0..MaxDepth]
    /\ [s \in Statements |-> s.depth] \in [Statements -> 0..MaxDepth]
BY ProgramAssumption, LabelAssumption

\* has_side_effects of conditions is what its definition says.
LEMMA CondEffectsAre ==
    /\ CondEffects \in [Conditions -> BOOLEAN]
    /\ \A c \in Conditions :
          CondEffects[c] <=> \/ c.op = "call"
                             \/ c.op = "not" /\ CondEffects[c.l]
                             \/ c.op \in {"and", "or"} /\ (CondEffects[c.l] \/ CondEffects[c.r])
<1>. DEFINE H == [g \in [Conditions -> BOOLEAN] |-> [c \in Conditions |->
                     \/ c.op = "call"
                     \/ c.op = "not" /\ g[c.l]
                     \/ c.op \in {"and", "or"} /\ (g[c.l] \/ g[c.r])]]
            rank == [c \in Conditions |-> c.depth]
<1>1. H \in [[Conditions -> BOOLEAN] -> [Conditions -> BOOLEAN]]
  OBVIOUS
<1>2. ASSUME NEW g \in [Conditions -> BOOLEAN], NEW h \in [Conditions -> BOOLEAN],
             NEW c \in Conditions, \A d \in Conditions : rank[d] < rank[c] => g[d] = h[d]
      PROVE  H[g][c] = H[h][c]
  <2>1. /\ c.op \in {"not", "and", "or"} => g[c.l] = h[c.l]
        /\ c.op \in {"and", "or"} => g[c.r] = h[c.r]
    BY <1>2, ConditionParts
  <2>. QED BY <2>1
<1>3. \E g \in [Conditions -> BOOLEAN] : g = H[g]
  <2>1. \A g, h \in [Conditions -> BOOLEAN] : \A c \in Conditions :
            (\A d \in Conditions : rank[d] < rank[c] => g[d] = h[d]) => H[g][c] = H[h][c]
    <3>. HIDE DEF H, rank
    <3>. QED BY <1>2
  <2>2. rank \in [Conditions -> 0..MaxDepth] /\ MaxDepth \in Nat
    BY Depths
  <2>3. BOOLEAN # {}
    OBVIOUS
  <2>. HIDE DEF H, rank
  <2>4. Recursive(Conditions, BOOLEAN, MaxDepth, rank, H)
    BY <1>1, <2>1, <2>2, <2>3 DEF Recursive
  <2>. QED BY <2>4, Recursion
<1>4. PICK g \in [Conditions -> BOOLEAN] : g = H[g]
  BY <1>3
<1>5. CondEffects = [c \in Conditions |->
                     \/ c.op = "call"
                     \/ c.op = "not" /\ CondEffects[c.l]
                     \/ c.op \in {"and", "or"} /\ (CondEffects[c.l] \/ CondEffects[c.r])]
  BY <1>4 DEF CondEffects
<1>. QED BY <1>5

\* What is well formed about a statement, kind by kind.
LEMMA StatementKinds ==
    ASSUME NEW s \in Statements
    PROVE  /\ s.depth \in 0..MaxDepth /\ ScopeOK(s.scope)
           /\ s.k \in {"none", "call", "return", "break", "continue", "assign", "decl", "require",
                       "list", "block", "if", "while", "dowhile", "for"}
           /\ s.k \in {"break", "continue"} => s.scope.loop
           /\ s.k = "assign" =>
                 /\ s.lhs \in Seq(s.scope.visible \ Immutable)
                 /\ s.rhs \in Seq(s.scope.visible \cup {Fresh, Call}) /\ Len(s.lhs) = Len(s.rhs)
           /\ s.k = "decl" => s.var \in s.scope.pending /\ s.rhs \in s.scope.visible \cup {Fresh, Call}
           /\ s.k \in {"require", "if", "while", "dowhile"} => Guards(s.cond, s.scope)
           /\ s.k = "list" =>
                 /\ s.first.k # "list" /\ s.rest.k \in {"list", "none"}
                 /\ Under(s.first, s, IF s.first.k = "decl" THEN s.scope ELSE Inner(s.scope))
                 /\ Under(s.rest, s, Declaring(s.scope, s.first))
           /\ s.k = "block" =>
                 /\ s.body.k \in {"list", "none"} /\ s.names \cap Tracked(s.scope) = {}
                 /\ Under(s.body, s, Opened(s.scope, s.names))
           /\ s.k = "if" => Branch(s.then, s, Inner(s.scope)) /\ Branch(s.else, s, Inner(s.scope))
           /\ s.k \in {"while", "dowhile"} => Branch(s.body, s, Looped(s.scope, ExitsOf(s)))
<1>1. s.depth \in 0..MaxDepth /\ ScopeOK(s.scope) /\ WellFormed(s)
  BY ProgramAssumption
<1>. QED BY <1>1 DEF WellFormed

\* The scope of the condition, the body and the update of a for statement.
InFor(s) == Declaring(Opened(s.scope, s.names), s.init)

LEMMA ForKind ==
    ASSUME NEW s \in Statements, s.k = "for"
    PROVE  /\ s.names \cap Tracked(s.scope) = {} /\ Guards(s.cond, InFor(s))
           /\ s.init.k \in {"decl", "assign", "call"} /\ Under(s.init, s, Opened(s.scope, s.names))
           /\ s.update.k \in {"none", "assign", "call"} /\ Under(s.update, s, Inner(InFor(s)))
           /\ Branch(s.body, s, Looped(InFor(s), ExitsOf(s)))
<1>1. WellFormed(s)
  BY ProgramAssumption
<1>. QED BY <1>1 DEF WellFormed, InFor

\* The parts of a statement are statements, and lie deeper.
LEMMA Parts ==
    ASSUME NEW s \in Statements
    PROVE  /\ s.k = "list" => s.first \in Statements /\ s.first.depth < s.depth
                              /\ s.rest \in Statements /\ s.rest.depth < s.depth
           /\ s.k \in {"block", "while", "dowhile", "for"} =>
                 s.body \in Statements /\ s.body.depth < s.depth
           /\ s.k = "if" => s.then \in Statements /\ s.then.depth < s.depth
                            /\ s.else \in Statements /\ s.else.depth < s.depth
           /\ s.k = "for" => s.init \in Statements /\ s.init.depth < s.depth
                             /\ s.update \in Statements /\ s.update.depth < s.depth
           /\ s.k \in {"require", "if", "while", "dowhile", "for"} => s.cond \in Conditions
<1>1. s.k = "for" => /\ s.init \in Statements /\ s.init.depth < s.depth
                     /\ s.update \in Statements /\ s.update.depth < s.depth
                     /\ s.body \in Statements /\ s.body.depth < s.depth /\ s.cond \in Conditions
  BY ForKind DEF Under, Branch, Guards
<1>. QED BY <1>1, StatementKinds DEF Under, Branch, Guards

\* has_side_effects of statements is what its definition says.
LEMMA EffectsAre ==
    /\ Effects \in [Statements -> BOOLEAN]
    /\ \A s \in Statements :
          Effects[s] <=>
             \/ s.k \in {"assign", "call"}
             \/ s.k = "decl" /\ s.rhs = Call
             \/ s.k \in {"if", "require", "while", "dowhile", "for"} /\ CondEffects[s.cond]
             \/ s.k \in {"block", "while", "dowhile", "for"} /\ Effects[s.body]
             \/ s.k = "list" /\ (Effects[s.first] \/ Effects[s.rest])
             \/ s.k = "if" /\ (Effects[s.then] \/ Effects[s.else])
             \/ s.k = "for" /\ (Effects[s.init] \/ Effects[s.update])
<1>. DEFINE H == [g \in [Statements -> BOOLEAN] |-> [s \in Statements |->
                     \/ s.k \in {"assign", "call"}
                     \/ s.k = "decl" /\ s.rhs = Call
                     \/ s.k \in {"if", "require", "while", "dowhile", "for"} /\ CondEffects[s.cond]
                     \/ s.k \in {"block", "while", "dowhile", "for"} /\ g[s.body]
                     \/ s.k = "list" /\ (g[s.first] \/ g[s.rest])
                     \/ s.k = "if" /\ (g[s.then] \/ g[s.else])
                     \/ s.k = "for" /\ (g[s.init] \/ g[s.update])]]
            rank == [s \in Statements |-> s.depth]
<1>1. H \in [[Statements -> BOOLEAN] -> [Statements -> BOOLEAN]]
  OBVIOUS
<1>2. ASSUME NEW g \in [Statements -> BOOLEAN], NEW h \in [Statements -> BOOLEAN],
             NEW s \in Statements, \A t \in Statements : rank[t] < rank[s] => g[t] = h[t]
      PROVE  H[g][s] = H[h][s]
  <2>1. /\ s.k \in {"block", "while", "dowhile", "for"} => g[s.body] = h[s.body]
        /\ s.k = "list" => g[s.first] = h[s.first] /\ g[s.rest] = h[s.rest]
        /\ s.k = "if" => g[s.then] = h[s.then] /\ g[s.else] = h[s.else]
        /\ s.k = "for" => g[s.init] = h[s.init] /\ g[s.update] = h[s.update]
    BY <1>2, Parts
  <2>. QED BY <2>1
<1>3. \E g \in [Statements -> BOOLEAN] : g = H[g]
  <2>1. \A g, h \in [Statements -> BOOLEAN] : \A s \in Statements :
            (\A t \in Statements : rank[t] < rank[s] => g[t] = h[t]) => H[g][s] = H[h][s]
    <3>. HIDE DEF H, rank
    <3>. QED BY <1>2
  <2>2. rank \in [Statements -> 0..MaxDepth] /\ MaxDepth \in Nat
    BY Depths
  <2>3. BOOLEAN # {}
    OBVIOUS
  <2>. HIDE DEF H, rank
  <2>4. Recursive(Statements, BOOLEAN, MaxDepth, rank, H)
    BY <1>1, <2>1, <2>2, <2>3 DEF Recursive
  <2>. QED BY <2>4, Recursion
<1>4. PICK g \in [Statements -> BOOLEAN] : g = H[g]
  BY <1>3
<1>5. Effects = [s \in Statements |->
                     \/ s.k \in {"assign", "call"}
                     \/ s.k = "decl" /\ s.rhs = Call
                     \/ s.k \in {"if", "require", "while", "dowhile", "for"} /\ CondEffects[s.cond]
                     \/ s.k \in {"block", "while", "dowhile", "for"} /\ Effects[s.body]
                     \/ s.k = "list" /\ (Effects[s.first] \/ Effects[s.rest])
                     \/ s.k = "if" /\ (Effects[s.then] \/ Effects[s.else])
                     \/ s.k = "for" /\ (Effects[s.init] \/ Effects[s.update])]
  BY <1>4 DEF Effects
<1>. QED BY <1>5

\* What the analysis of a condition, or of its negation, makes of a state.
Judgements == [BOOLEAN -> [States -> States]]

\* One step of the analysis of a condition returns a state, and looks at the parts only.
LEMMA GuardedStep ==
    ASSUME NEW g \in [Conditions -> Judgements], NEW c \in Conditions
    PROVE  /\ \A neg \in BOOLEAN : \A P \in States : GuardedBy(g, c, neg, P) \in States
           /\ \A h :
                 (\A d \in Conditions : d.depth < c.depth => g[d] = h[d]) =>
                    \A neg \in BOOLEAN : \A P \in States : GuardedBy(g, c, neg, P) = GuardedBy(h, c, neg, P)
<1>1. \A d \in Conditions : \A neg \in BOOLEAN : \A P \in States : g[d][neg][P] \in States
  BY DEF Judgements
<1>2. /\ c.op \in {"not", "and", "or"} => c.l \in Conditions /\ c.l.depth < c.depth
      /\ c.op \in {"and", "or"} => c.r \in Conditions /\ c.r.depth < c.depth
      /\ c.op \in {"eq", "ne"} /\ c.l # Fresh => c.l \in Labels
  BY ConditionParts
<1>3. ASSUME NEW neg \in BOOLEAN, NEW P \in States PROVE GuardedBy(g, c, neg, P) \in States
  <2>1. CASE c.op = "not"
    <3>1. \A b \in BOOLEAN : g[c.l][~b][P] \in States
      <4>1. g[c.l][TRUE][P] \in States /\ g[c.l][FALSE][P] \in States
        BY <1>1, <1>2, <2>1
      <4>. QED BY <4>1
    <3>2. g[c.l][~neg][P] \in States
      BY <3>1
    <3>3. GuardedBy(g, c, neg, P) = g[c.l][~neg][P]
      BY <2>1 DEF GuardedBy
    <3>. QED BY <3>2, <3>3
  <2>2. CASE c.op = (IF neg THEN "or" ELSE "and")
    <3>1. g[c.l][neg][P] \in States
      BY <1>1, <1>2, <2>2
    <3>2. g[c.r][neg][g[c.l][neg][P]] \in States
      BY <1>1, <1>2, <2>2, <3>1
    <3>3. c.op # "not"
      BY <2>2
    <3>. QED BY <2>2, <3>2, <3>3 DEF GuardedBy
  <2>3. CASE c.op = (IF neg THEN "ne" ELSE "eq")
    <3>1. c.op \notin {"not", "and", "or"} /\ c.op \in {"eq", "ne"}
      BY <2>3
    <3>2. GuardedBy(g, c, neg, P) = IF c.l = Fresh THEN P
                                    ELSE IF Untracked(P, c.r) THEN MoveToSeparate(P, c.l)
                                    ELSE Merge(P, c.l, c.r)
      BY <2>3, <3>1 DEF GuardedBy
    <3>3. c.l # Fresh => MoveToSeparate(P, c.l) \in States
      BY <1>2, <3>1, Closed
    <3>4. Merge(P, c.l, c.r) \in States
      BY Closed
    <3>. QED BY <3>2, <3>3, <3>4
  <2>4. CASE /\ c.op # "not" /\ c.op # (IF neg THEN "or" ELSE "and")
             /\ c.op # (IF neg THEN "ne" ELSE "eq")
    BY <2>4 DEF GuardedBy
  <2>. QED BY <2>1, <2>2, <2>3, <2>4
<1>4. ASSUME NEW h, NEW neg \in BOOLEAN, NEW P \in States,
             \A d \in Conditions : d.depth < c.depth => g[d] = h[d]
      PROVE  GuardedBy(g, c, neg, P) = GuardedBy(h, c, neg, P)
  <2>1. /\ c.op \in {"not", "and", "or"} => g[c.l] = h[c.l]
        /\ c.op \in {"and", "or"} => g[c.r] = h[c.r]
    BY <1>2, <1>4
  <2>2. CASE c.op = "not"
    BY <2>1, <2>2 DEF GuardedBy
  <2>3. CASE c.op = (IF neg THEN "or" ELSE "and")
    BY <2>1, <2>3 DEF GuardedBy
  <2>4. CASE c.op # "not" /\ c.op # (IF neg THEN "or" ELSE "and")
    BY <2>4 DEF GuardedBy
  <2>. QED BY <2>2, <2>3, <2>4
<1>. QED BY <1>3, <1>4

\* The analysis of conditions is what its definition says.
LEMMA GuardedIs ==
    /\ Guarded \in [Conditions -> Judgements]
    /\ \A c \in Conditions : \A neg \in BOOLEAN : \A P \in States :
          Guarded[c][neg][P] = GuardedBy(Guarded, c, neg, P) /\ Guarded[c][neg][P] \in States
<1>. DEFINE H == [g \in [Conditions -> Judgements] |-> [c \in Conditions |->
                     [neg \in BOOLEAN |-> [P \in States |-> GuardedBy(g, c, neg, P)]]]]
            rank == [c \in Conditions |-> c.depth]
<1>1. H \in [[Conditions -> Judgements] -> [Conditions -> Judgements]]
  <2>1. ASSUME NEW g \in [Conditions -> Judgements], NEW c \in Conditions
        PROVE  [neg \in BOOLEAN |-> [P \in States |-> GuardedBy(g, c, neg, P)]] \in Judgements
    BY GuardedStep DEF Judgements
  <2>. QED BY <2>1
<1>2. ASSUME NEW g \in [Conditions -> Judgements], NEW h \in [Conditions -> Judgements],
             NEW c \in Conditions, \A d \in Conditions : rank[d] < rank[c] => g[d] = h[d]
      PROVE  H[g][c] = H[h][c]
  <2>1. \A d \in Conditions : d.depth < c.depth => g[d] = h[d]
    BY <1>2
  <2>2. \A neg \in BOOLEAN : \A P \in States : GuardedBy(g, c, neg, P) = GuardedBy(h, c, neg, P)
    BY <2>1, GuardedStep
  <2>. QED BY <2>2
<1>3. \E g \in [Conditions -> Judgements] : g = H[g]
  <2>1. \A g, h \in [Conditions -> Judgements] : \A c \in Conditions :
            (\A d \in Conditions : rank[d] < rank[c] => g[d] = h[d]) => H[g][c] = H[h][c]
    <3>. HIDE DEF H, rank
    <3>. QED BY <1>2
  <2>2. rank \in [Conditions -> 0..MaxDepth] /\ MaxDepth \in Nat
    BY Depths
  <2>3. Judgements # {}
    <3>1. [neg \in BOOLEAN |-> [P \in States |-> P]] \in Judgements
      BY DEF Judgements
    <3>. QED BY <3>1
  <2>. HIDE DEF H, rank
  <2>4. Recursive(Conditions, Judgements, MaxDepth, rank, H)
    BY <1>1, <2>1, <2>2, <2>3 DEF Recursive
  <2>. QED BY <2>4, Recursion
<1>4. PICK g \in [Conditions -> Judgements] : g = H[g]
  BY <1>3
<1>5. g = [c \in Conditions |-> [neg \in BOOLEAN |-> [P \in States |-> GuardedBy(g, c, neg, P)]]]
  BY <1>4
<1>6. Guarded = [c \in Conditions |->
                    [neg \in BOOLEAN |-> [P \in States |-> GuardedBy(Guarded, c, neg, P)]]]
  BY <1>5 DEF Guarded
<1>7. \A c \in Conditions : \A neg \in BOOLEAN : \A P \in States :
          Guarded[c][neg][P] = GuardedBy(Guarded, c, neg, P)
  BY <1>6
<1>8. Guarded \in [Conditions -> Judgements]
  <2>1. ASSUME NEW c \in Conditions, \A d \in Conditions : rank[d] < rank[c] => Guarded[d] = g[d]
        PROVE  Guarded[c] = g[c]
    <3>1. \A d \in Conditions : d.depth < c.depth => g[d] = Guarded[d]
      BY <2>1
    <3>2. \A neg \in BOOLEAN : \A P \in States : GuardedBy(g, c, neg, P) = GuardedBy(Guarded, c, neg, P)
      BY <3>1, GuardedStep
    <3>3. g[c] = [neg \in BOOLEAN |-> [P \in States |-> GuardedBy(g, c, neg, P)]]
      BY <1>5
    <3>4. Guarded[c] = [neg \in BOOLEAN |-> [P \in States |-> GuardedBy(Guarded, c, neg, P)]]
      BY <1>6
    <3>. QED BY <3>2, <3>3, <3>4
  <2>2. rank \in [Conditions -> 0..MaxDepth] /\ MaxDepth \in Nat
    BY Depths
  <2>3. \A c \in Conditions : (\A d \in Conditions : rank[d] < rank[c] => Guarded[d] = g[d]) => Guarded[c] = g[c]
    BY <2>1
  <2>4. \A c \in Conditions : Guarded[c] = g[c]
    <3>. HIDE DEF rank, H
    <3>1. Determined(Conditions, MaxDepth, rank, Guarded, g)
      BY <2>2, <2>3 DEF Determined
    <3>. QED BY <3>1, Unique
  <2>5. Guarded = [c \in Conditions |-> Guarded[c]]
    BY <1>6
  <2>. QED BY <2>4, <2>5
<1>9. \A c \in Conditions : \A neg \in BOOLEAN : \A P \in States : Guarded[c][neg][P] \in States
  BY <1>8 DEF Judgements
<1>. QED BY <1>7, <1>8, <1>9

\* Which values a condition may have, and which values of the labels it leaves.
Evaluations == [Envs -> SUBSET Outcomes]

\* What the labels are after a side effect.
LEMMA AfterCallIs ==
    ASSUME NEW e \in Envs, NEW f \in AfterCall(e)
    PROVE  /\ f \in Envs
           /\ \A x \in Labels \ Mutable : f[x] = e[x]
<1>1. PICK g \in [Mutable -> Addrs] : f = [x \in Labels |-> IF x \in Mutable THEN g[x] ELSE e[x]]
  BY DEF AfterCall
<1>2. \A x \in Labels : f[x] = IF x \in Mutable THEN g[x] ELSE e[x]
  BY <1>1
<1>3. \A x \in Labels : f[x] \in Addrs \cup {Everybody}
  BY <1>2 DEF Envs
<1>. QED BY <1>1, <1>2, <1>3 DEF Envs

\* One step of the evaluation returns outcomes, and looks at the parts only.
LEMMA ResultsStep ==
    ASSUME NEW g \in [Conditions -> Evaluations], NEW c \in Conditions
    PROVE  /\ \A e \in Envs : ResultsBy(g, c, e) \in SUBSET Outcomes
           /\ \A h :
                 (\A d \in Conditions : d.depth < c.depth => g[d] = h[d]) =>
                    \A e \in Envs : ResultsBy(g, c, e) = ResultsBy(h, c, e)
<1>1. \A d \in Conditions : \A e \in Envs : \A r \in g[d][e] : r \in Outcomes
  BY DEF Evaluations
<1>2. /\ c.op \in {"not", "and", "or"} => c.l \in Conditions /\ c.l.depth < c.depth
      /\ c.op \in {"and", "or"} => c.r \in Conditions /\ c.r.depth < c.depth
  BY ConditionParts
<1>3. \A b \in BOOLEAN : \A e \in Envs : Valued(b, e) \in Outcomes
  BY DEF Valued, Outcomes
<1>4. \A r \in Outcomes : r.val \in BOOLEAN /\ r.env \in Envs
  BY DEF Outcomes
<1>5. ASSUME NEW e \in Envs PROVE ResultsBy(g, c, e) \in SUBSET Outcomes
  <2>1. CASE c.op \in {"eq", "ne"}
    <3>1. ASSUME NEW r \in ResultsBy(g, c, e) PROVE \E b \in BOOLEAN : r = Valued(b, e)
      <4>. DEFINE equal == IF Fresh \in {c.l, c.r} THEN BOOLEAN ELSE {e[c.l] = e[c.r]}
      <4>0. equal \subseteq BOOLEAN
        OBVIOUS
      <4>1. CASE c.op = "eq"
        <5>1. ResultsBy(g, c, e) = {Valued(b, e) : b \in equal}
          BY <4>1 DEF ResultsBy
        <5>. HIDE DEF equal
        <5>. QED BY <4>0, <5>1
      <4>2. CASE c.op = "ne"
        <5>1. ResultsBy(g, c, e) = {Valued(~b, e) : b \in equal}
          BY <4>2 DEF ResultsBy
        <5>2. \A b \in equal : \E d \in BOOLEAN : ~b = d
          OBVIOUS
        <5>. HIDE DEF equal
        <5>. QED BY <5>1, <5>2
      <4>. QED BY <2>1, <4>1, <4>2
    <3>. QED BY <1>3, <3>1
  <2>2. CASE c.op = "not"
    <3>1. ASSUME NEW r \in ResultsBy(g, c, e) PROVE \E q \in g[c.l][e] : r = Valued(~q.val, q.env)
      BY <2>2 DEF ResultsBy
    <3>2. ASSUME NEW q \in g[c.l][e] PROVE Valued(~q.val, q.env) \in Outcomes
      BY <1>1, <1>2, <1>4, <2>2 DEF Valued, Outcomes
    <3>. QED BY <3>1, <3>2
  <2>3. CASE c.op \in {"and", "or"}
    <3>1. ASSUME NEW r \in ResultsBy(g, c, e)
          PROVE  \E q \in g[c.l][e] : r = q \/ r \in g[c.r][q.env]
      <4>1. CASE c.op = "and"
        BY <4>1 DEF ResultsBy
      <4>2. CASE c.op = "or"
        BY <4>2 DEF ResultsBy
      <4>. QED BY <2>3, <4>1, <4>2
    <3>. QED BY <1>1, <1>2, <1>4, <2>3, <3>1
  <2>4. CASE c.op = "opaque"
    BY <1>3, <2>4 DEF ResultsBy
  <2>5. CASE c.op = "call"
    <3>1. ResultsBy(g, c, e) = {Valued(b, f) : b \in BOOLEAN, f \in AfterCall(e)}
      BY <2>5 DEF ResultsBy
    <3>. QED BY <1>3, <3>1, AfterCallIs
  <2>. QED BY <2>1, <2>2, <2>3, <2>4, <2>5, ConditionParts
<1>6. ASSUME NEW h, NEW e \in Envs, \A d \in Conditions : d.depth < c.depth => g[d] = h[d]
      PROVE  ResultsBy(g, c, e) = ResultsBy(h, c, e)
  <2>1. /\ c.op \in {"not", "and", "or"} => g[c.l] = h[c.l]
        /\ c.op \in {"and", "or"} => g[c.r] = h[c.r]
    BY <1>2, <1>6
  <2>2. CASE c.op = "not"
    BY <2>1, <2>2 DEF ResultsBy
  <2>3. CASE c.op = "and"
    BY <2>1, <2>3 DEF ResultsBy
  <2>4. CASE c.op = "or"
    BY <2>1, <2>4 DEF ResultsBy
  <2>5. CASE c.op = "eq"
    BY <2>5 DEF ResultsBy
  <2>6. CASE c.op = "ne"
    BY <2>6 DEF ResultsBy
  <2>7. CASE c.op \in {"opaque", "call"}
    BY <2>7 DEF ResultsBy
  <2>. QED BY <2>2, <2>3, <2>4, <2>5, <2>6, <2>7, ConditionParts
<1>. QED BY <1>5, <1>6

\* The evaluation of conditions is what its definition says.
LEMMA ResultsAre ==
    /\ Results \in [Conditions -> Evaluations]
    /\ \A c \in Conditions : \A e \in Envs :
          Results[c][e] = ResultsBy(Results, c, e) /\ Results[c][e] \in SUBSET Outcomes
<1>. DEFINE H == [g \in [Conditions -> Evaluations] |-> [c \in Conditions |->
                     [e \in Envs |-> ResultsBy(g, c, e)]]]
            rank == [c \in Conditions |-> c.depth]
<1>1. H \in [[Conditions -> Evaluations] -> [Conditions -> Evaluations]]
  <2>1. ASSUME NEW g \in [Conditions -> Evaluations], NEW c \in Conditions
        PROVE  [e \in Envs |-> ResultsBy(g, c, e)] \in Evaluations
    BY ResultsStep DEF Evaluations
  <2>. QED BY <2>1
<1>2. ASSUME NEW g \in [Conditions -> Evaluations], NEW h \in [Conditions -> Evaluations],
             NEW c \in Conditions, \A d \in Conditions : rank[d] < rank[c] => g[d] = h[d]
      PROVE  H[g][c] = H[h][c]
  <2>1. \A d \in Conditions : d.depth < c.depth => g[d] = h[d]
    BY <1>2
  <2>2. \A e \in Envs : ResultsBy(g, c, e) = ResultsBy(h, c, e)
    BY <2>1, ResultsStep
  <2>. QED BY <2>2
<1>3. \E g \in [Conditions -> Evaluations] : g = H[g]
  <2>1. \A g, h \in [Conditions -> Evaluations] : \A c \in Conditions :
            (\A d \in Conditions : rank[d] < rank[c] => g[d] = h[d]) => H[g][c] = H[h][c]
    <3>. HIDE DEF H, rank
    <3>. QED BY <1>2
  <2>2. rank \in [Conditions -> 0..MaxDepth] /\ MaxDepth \in Nat
    BY Depths
  <2>3. Evaluations # {}
    <3>1. [e \in Envs |-> {}] \in Evaluations
      BY DEF Evaluations
    <3>. QED BY <3>1
  <2>. HIDE DEF H, rank
  <2>4. Recursive(Conditions, Evaluations, MaxDepth, rank, H)
    BY <1>1, <2>1, <2>2, <2>3 DEF Recursive
  <2>. QED BY <2>4, Recursion
<1>4. PICK g \in [Conditions -> Evaluations] : g = H[g]
  BY <1>3
<1>5. g = [c \in Conditions |-> [e \in Envs |-> ResultsBy(g, c, e)]]
  BY <1>4
<1>6. Results = [c \in Conditions |-> [e \in Envs |-> ResultsBy(Results, c, e)]]
  BY <1>5 DEF Results
<1>7. \A c \in Conditions : \A e \in Envs : Results[c][e] = ResultsBy(Results, c, e)
  BY <1>6
<1>8. Results \in [Conditions -> Evaluations]
  <2>1. ASSUME NEW c \in Conditions, \A d \in Conditions : rank[d] < rank[c] => Results[d] = g[d]
        PROVE  Results[c] = g[c]
    <3>1. \A d \in Conditions : d.depth < c.depth => g[d] = Results[d]
      BY <2>1
    <3>2. \A e \in Envs : ResultsBy(g, c, e) = ResultsBy(Results, c, e)
      BY <3>1, ResultsStep
    <3>3. g[c] = [e \in Envs |-> ResultsBy(g, c, e)]
      BY <1>5
    <3>4. Results[c] = [e \in Envs |-> ResultsBy(Results, c, e)]
      BY <1>6
    <3>. QED BY <3>2, <3>3, <3>4
  <2>2. rank \in [Conditions -> 0..MaxDepth] /\ MaxDepth \in Nat
    BY Depths
  <2>3. \A c \in Conditions : (\A d \in Conditions : rank[d] < rank[c] => Results[d] = g[d]) => Results[c] = g[c]
    BY <2>1
  <2>4. \A c \in Conditions : Results[c] = g[c]
    <3>. HIDE DEF rank, H
    <3>1. Determined(Conditions, MaxDepth, rank, Results, g)
      BY <2>2, <2>3 DEF Determined
    <3>. QED BY <3>1, Unique
  <2>5. Results = [c \in Conditions |-> Results[c]]
    BY <1>6
  <2>. QED BY <2>4, <2>5
<1>9. \A c \in Conditions : \A e \in Envs : Results[c][e] \in SUBSET Outcomes
  BY <1>8 DEF Evaluations
<1>. QED BY <1>7, <1>8, <1>9

\* What an assignment of rhs[i] to lhs[i] makes of state P.
MoveOne(lhs, rhs, i, P) ==
    IF Untracked(P, rhs[i]) THEN MoveToSeparate(P, lhs[i]) ELSE MoveTo(P, lhs[i], rhs[i])

\* The assignments of a tuple are analysed one after the other.
LEMMA MovesAre ==
    ASSUME NEW lhs \in Seq(Labels), NEW rhs, NEW P \in States
    PROVE  /\ \A i \in 0..Len(lhs) : Moves(lhs, rhs, P)[i] \in States
           /\ Moves(lhs, rhs, P)[0] = P
           /\ \A i \in 1..Len(lhs) :
                 Moves(lhs, rhs, P)[i] = MoveOne(lhs, rhs, i, Moves(lhs, rhs, P)[i - 1])
<1>. DEFINE S == 0..Len(lhs)
            F(g) == [i \in S |-> IF i = 0 THEN P
                                 ELSE IF Untracked(g[i - 1], rhs[i]) THEN MoveToSeparate(g[i - 1], lhs[i])
                                 ELSE MoveTo(g[i - 1], lhs[i], rhs[i])]
            H == [g \in [S -> States] |-> F(g)]
            rank == [i \in S |-> i]
            M == Moves(lhs, rhs, P)
<1>1. Len(lhs) \in Nat /\ \A i \in S : i # 0 => i - 1 \in S /\ i - 1 < i /\ lhs[i] \in Labels
  OBVIOUS
<1>2. ASSUME NEW g \in [S -> States] PROVE F(g) \in [S -> States]
  <2>1. ASSUME NEW i \in S, i # 0
        PROVE  /\ MoveToSeparate(g[i - 1], lhs[i]) \in States
               /\ MoveTo(g[i - 1], lhs[i], rhs[i]) \in States
    <3>1. g[i - 1] \in States /\ lhs[i] \in Labels
      BY <1>1, <2>1
    <3>. QED BY <3>1, Closed
  <2>. QED BY <2>1
<1>3. ASSUME NEW g \in [S -> States], NEW h \in [S -> States], NEW i \in S,
             \A j \in S : rank[j] < rank[i] => g[j] = h[j]
      PROVE  H[g][i] = H[h][i]
  <2>1. i # 0 => g[i - 1] = h[i - 1]
    BY <1>1, <1>3
  <2>. QED BY <2>1
<1>4. \E g \in [S -> States] : g = H[g]
  <2>1. \A g, h \in [S -> States] : \A i \in S :
            (\A j \in S : rank[j] < rank[i] => g[j] = h[j]) => H[g][i] = H[h][i]
    <3>. HIDE DEF H, rank, S
    <3>. QED BY <1>3
  <2>2. rank \in [S -> 0..Len(lhs)] /\ Len(lhs) \in Nat
    BY <1>1
  <2>3. States # {}
    OBVIOUS
  <2>4. H \in [[S -> States] -> [S -> States]]
    <3>. HIDE DEF F, S
    <3>. QED BY <1>2
  <2>. HIDE DEF H, rank, S
  <2>5. Recursive(S, States, Len(lhs), rank, H)
    BY <2>1, <2>2, <2>3, <2>4 DEF Recursive
  <2>. QED BY <2>5, Recursion
<1>5. PICK g \in [S -> States] : g = H[g]
  BY <1>4
<1>6. g = F(g)
  BY <1>5
<1>7. M = F(M)
  BY <1>6 DEF Moves
<1>8. \A i \in S : M[i] = IF i = 0 THEN P ELSE MoveOne(lhs, rhs, i, M[i - 1])
  <2>. HIDE DEF M
  <2>. QED BY <1>7 DEF MoveOne
<1>9. \A i \in S : g[i] = IF i = 0 THEN P ELSE MoveOne(lhs, rhs, i, g[i - 1])
  BY <1>6 DEF MoveOne
<1>10. \A i \in S : M[i] = g[i]
  <2>1. ASSUME NEW i \in S, \A j \in S : rank[j] < rank[i] => M[j] = g[j]
        PROVE  M[i] = g[i]
    <3>1. i # 0 => M[i - 1] = g[i - 1]
      <4>. HIDE DEF M
      <4>. QED BY <1>1, <2>1
    <3>. HIDE DEF M
    <3>. QED BY <1>8, <1>9, <3>1
  <2>2. rank \in [S -> 0..Len(lhs)] /\ Len(lhs) \in Nat
    BY <1>1
  <2>. HIDE DEF M, rank, S
  <2>3. Determined(S, Len(lhs), rank, M, g)
    BY <2>1, <2>2 DEF Determined
  <2>. QED BY <2>3, Unique
<1>11. \A i \in S : M[i] \in States
  <2>. HIDE DEF M
  <2>. QED BY <1>10
<1>12. \A i \in 1..Len(lhs) : i \in S /\ i # 0
  BY <1>1
<1>13. 0 \in S
  BY <1>1
<1>14. M[0] = P /\ \A i \in 1..Len(lhs) : M[i] = MoveOne(lhs, rhs, i, M[i - 1])
  <2>. HIDE DEF M, S
  <2>. QED BY <1>8, <1>12, <1>13
<1>. QED BY <1>11, <1>14

\* Their result is a state.
LEMMA MovedClosed ==
    ASSUME NEW lhs \in Seq(Labels), NEW rhs, NEW P \in States
    PROVE  Moved(lhs, rhs, P) \in States
<1>1. Len(lhs) \in 0..Len(lhs)
  OBVIOUS
<1>2. Moves(lhs, rhs, P)[Len(lhs)] \in States
  BY <1>1, MovesAre
<1>. QED BY <1>2 DEF Moved

\* Conditions and the heads of loops: their states.
LEMMA JudgedClosed ==
    ASSUME NEW P \in States
    PROVE  /\ \A b : Separated(b, P) \in States
           /\ \A c \in Conditions : Assume(c, P) \in States /\ Refute(c, P) \in States
           /\ \A s : LoopHead(s, P) \in States
<1>1. SeparateAll(P) \in States
  BY Closed
<1>2. \A b : Separated(b, P) \in States
  BY <1>1 DEF Separated
<1>3. ASSUME NEW c \in Conditions PROVE Assume(c, P) \in States /\ Refute(c, P) \in States
  <2>1. Guarded[c][TRUE][P] \in States /\ Guarded[c][FALSE][P] \in States
    BY GuardedIs
  <2>. QED BY <1>1, <2>1 DEF Assume, Refute
<1>. QED BY <1>2, <1>3 DEF LoopHead

\* The fields of a scope.
LEMMA ScopeIs ==
    ASSUME NEW sc, ScopeOK(sc)
    PROVE  /\ sc \in Scopes /\ Global \subseteq sc.visible
           /\ sc.visible \in SUBSET Labels /\ sc.pending \in SUBSET Labels /\ sc.hidden \in SUBSET Labels
           /\ sc.loop \in BOOLEAN /\ sc.exits \in SUBSET {"break", "continue"}
           /\ sc.visible \cap sc.pending = {} /\ (sc.visible \cup sc.pending) \cap sc.hidden = {}
BY DEF ScopeOK, Scopes

\* The scopes of the parts.
LEMMA InnerIs ==
    ASSUME NEW sc \in Scopes
    PROVE  /\ Inner(sc).visible = sc.visible /\ Inner(sc).pending = {}
           /\ Inner(sc).hidden = sc.hidden \cup sc.pending
           /\ Inner(sc).loop = sc.loop /\ Inner(sc).exits = sc.exits
BY DEF Inner, Scopes

LEMMA OpenedIs ==
    ASSUME NEW sc \in Scopes, NEW names
    PROVE  /\ Opened(sc, names).visible = sc.visible /\ Opened(sc, names).pending = names
           /\ Opened(sc, names).hidden = sc.hidden \cup sc.pending
           /\ Opened(sc, names).loop = sc.loop /\ Opened(sc, names).exits = sc.exits
BY DEF Opened, Inner, Scopes

LEMMA LoopedIs ==
    ASSUME NEW sc \in Scopes, NEW exits
    PROVE  /\ Looped(sc, exits).visible = sc.visible /\ Looped(sc, exits).pending = {}
           /\ Looped(sc, exits).hidden = sc.hidden \cup sc.pending
           /\ Looped(sc, exits).loop /\ Looped(sc, exits).exits = exits
BY DEF Looped, Inner, Scopes

LEMMA DeclaringIs ==
    ASSUME NEW sc \in Scopes, NEW s
    PROVE  /\ s.k # "decl" => Declaring(sc, s) = sc
           /\ s.k = "decl" =>
                 /\ Declaring(sc, s).visible = sc.visible \cup {s.var}
                 /\ Declaring(sc, s).pending = sc.pending \ {s.var}
                 /\ Declaring(sc, s).hidden = sc.hidden
                 /\ Declaring(sc, s).loop = sc.loop /\ Declaring(sc, s).exits = sc.exits
BY DEF Declaring, Scopes

\* The names of a block or a for statement are labels.
LEMMA Names ==
    ASSUME NEW s \in Statements, s.k \in {"block", "for"}
    PROVE  s.names \in SUBSET Labels
<1>. DEFINE t == IF s.k = "block" THEN s.body ELSE s.init
<1>1. t \in Statements /\ t.scope = Opened(s.scope, s.names)
  BY StatementKinds, ForKind DEF Under
<1>2. ScopeOK(t.scope) /\ ScopeOK(s.scope)
  BY <1>1, StatementKinds
<1>3. t.scope.pending = s.names
  <2>. HIDE DEF t
  <2>1. s.scope \in Scopes
    BY <1>2, ScopeIs
  <2>. QED BY <1>1, <2>1, OpenedIs
<1>4. t.scope.pending \in SUBSET Labels
  <2>. HIDE DEF t
  <2>. QED BY <1>2, ScopeIs
<1>. QED BY <1>3, <1>4

\* The sides of an assignment or declaration.
LEMMA Sides ==
    ASSUME NEW s \in Statements
    PROVE  /\ s.k = "assign" =>
                 /\ s.lhs \in Seq(Labels) /\ Len(s.lhs) \in Nat /\ Len(s.rhs) = Len(s.lhs)
                 /\ DOMAIN s.lhs = 1..Len(s.lhs) /\ DOMAIN s.rhs = 1..Len(s.lhs)
                 /\ \A i \in 1..Len(s.lhs) : /\ s.lhs[i] \in s.scope.visible \ Immutable
                                             /\ s.rhs[i] \in s.scope.visible \cup {Fresh, Call}
           /\ s.k = "decl" => s.var \in Labels
<1>1. s.scope.visible \in SUBSET Labels /\ s.scope.pending \in SUBSET Labels
  BY StatementKinds, ScopeIs
<1>2. CASE s.k = "assign"
  <2>1. /\ s.lhs \in Seq(s.scope.visible \ Immutable)
        /\ s.rhs \in Seq(s.scope.visible \cup {Fresh, Call}) /\ Len(s.lhs) = Len(s.rhs)
    BY <1>2, StatementKinds
  <2>2. \A i \in 1..Len(s.lhs) : s.lhs[i] \in s.scope.visible \ Immutable
    BY <2>1
  <2>3. \A i \in 1..Len(s.lhs) : s.rhs[i] \in s.scope.visible \cup {Fresh, Call}
    BY <2>1
  <2>4. s.lhs \in Seq(Labels)
    BY <1>1, <2>1
  <2>. QED BY <1>2, <2>1, <2>2, <2>3, <2>4
<1>. QED BY <1>1, <1>2, StatementKinds

\* What the analysis of a statement makes of a state.
Transformers == [States -> States]

\* The states of the parts of a statement.
LEMMA PartsClosed ==
    ASSUME NEW g \in [Statements -> Transformers], NEW s \in Statements, NEW P \in States
    PROVE  /\ s.k \in {"while", "dowhile", "block", "for"} =>
                 BeforeBody(g, s, P) \in States /\ AfterBody(g, s, P) \in States
           /\ s.k \in {"while", "for"} => BeforeCond(g, s, P) \in States
           /\ s.k = "for" => AfterInit(g, s, P) \in States /\ AfterUpdate(g, s, P) \in States
           /\ s.k \in {"block", "for"} => InsertAll(P, s.names) \in States
<1>1. \A t \in Statements : \A Q \in States : g[t][Q] \in States
  BY DEF Transformers
<1>2. s.k \in {"block", "for"} => InsertAll(P, s.names) \in States
  BY Names, Closed
<1>3. s.k = "for" => AfterInit(g, s, P) \in States
  BY <1>1, <1>2, Parts DEF AfterInit
<1>4. s.k = "for" => ForHead(g, s, P) \in States
  <2>1. s.k = "for" => SeparateAll(InsertAll(P, s.names)) \in States
    BY <1>2, Closed
  <2>. QED BY <1>3, <2>1 DEF ForHead
<1>5. LoopHead(s, P) \in States
  BY JudgedClosed
<1>6. s.k \in {"while", "for"} => BeforeCond(g, s, P) \in States
  BY <1>4, <1>5 DEF BeforeCond
<1>7. s.k \in {"while", "dowhile", "block", "for"} => BeforeBody(g, s, P) \in States
  <2>1. s.k \in {"while", "for"} => Assume(s.cond, BeforeCond(g, s, P)) \in States
    BY <1>6, JudgedClosed, Parts
  <2>. QED BY <1>2, <1>5, <2>1 DEF BeforeBody
<1>8. s.k \in {"while", "dowhile", "block", "for"} => AfterBody(g, s, P) \in States
  BY <1>1, <1>7, Parts DEF AfterBody
<1>9. s.k = "for" => AfterUpdate(g, s, P) \in States
  BY <1>1, <1>8, Parts DEF AfterUpdate
<1>. QED BY <1>2, <1>3, <1>6, <1>7, <1>8, <1>9

\* One step of the analysis returns a state.
LEMMA AfterClosed ==
    ASSUME NEW g \in [Statements -> Transformers], NEW s \in Statements, NEW P \in States
    PROVE  AfterBy(g, s, P) \in States
<1>1. \A t \in Statements : \A Q \in States : g[t][Q] \in States
  BY DEF Transformers
<1>2. CASE s.k = "assign"
  <2>1. Separated(\E i \in DOMAIN s.rhs : s.rhs[i] = Call, P) \in States
    BY JudgedClosed
  <2>2. s.lhs \in Seq(Labels)
    BY <1>2, Sides
  <2>3. Moved(s.lhs, s.rhs, Separated(\E i \in DOMAIN s.rhs : s.rhs[i] = Call, P)) \in States
    BY <2>1, <2>2, MovedClosed
  <2>. QED BY <1>2, <2>3 DEF AfterBy
<1>3. CASE s.k = "decl"
  <2>1. AfterDecl(s, P) \in States
    BY JudgedClosed, Closed DEF AfterDecl
  <2>. QED BY <1>3, <2>1 DEF AfterBy
<1>4. CASE s.k = "require"
  <2>1. Separated(CondEffects[s.cond], P) \in States
    BY JudgedClosed
  <2>2. AfterRequire(s.cond, Separated(CondEffects[s.cond], P)) \in States
    BY <2>1, Closed DEF AfterRequire
  <2>. QED BY <1>4, <2>2 DEF AfterBy
<1>5. CASE s.k = "call"
  BY <1>5, Closed DEF AfterBy
<1>6. CASE s.k = "list"
  BY <1>1, <1>6, Parts DEF AfterBy
<1>7. CASE s.k = "block"
  <2>1. RemoveAll(AfterBody(g, s, P), s.names) \in States
    BY <1>7, PartsClosed, Names, Closed
  <2>. QED BY <1>7, <2>1 DEF AfterBy
<1>8. CASE s.k = "if"
  <2>1. Assume(s.cond, P) \in States /\ Refute(s.cond, P) \in States
    BY <1>8, Parts, JudgedClosed
  <2>2. g[s.then][Assume(s.cond, P)] \in States /\ g[s.else][Refute(s.cond, P)] \in States
    BY <1>1, <1>8, <2>1, Parts
  <2>3. AfterIf(g, s, P) \in States
    BY <2>2, Closed DEF AfterIf
  <2>. QED BY <1>8, <2>3 DEF AfterBy
<1>9. CASE s.k \in {"while", "dowhile"}
  <2>1. AfterBody(g, s, P) \in States /\ LoopHead(s, P) \in States /\ s.cond \in Conditions
    BY <1>9, PartsClosed, JudgedClosed, Parts
  <2>2. Refute(s.cond, AfterBody(g, s, P)) \in States /\ Refute(s.cond, LoopHead(s, P)) \in States
    BY <2>1, JudgedClosed
  <2>3. AfterWhile(g, s, P) \in States
    BY <2>2, Closed DEF AfterWhile
  <2>. QED BY <1>9, <2>2, <2>3 DEF AfterBy
<1>10. CASE s.k = "for"
  <2>1. AfterInit(g, s, P) \in States /\ AfterUpdate(g, s, P) \in States /\ s.cond \in Conditions
        /\ s.names \in SUBSET Labels
    BY <1>10, PartsClosed, Parts, Names
  <2>2. /\ Refute(s.cond, AfterInit(g, s, P)) \in States
        /\ Refute(s.cond, AfterUpdate(g, s, P)) \in States
    BY <2>1, JudgedClosed
  <2>3. AfterFor(g, s, P) \in States
    BY <2>1, <2>2, Closed DEF AfterFor
  <2>. QED BY <1>10, <2>3 DEF AfterBy
<1>11. CASE s.k \in {"none", "return", "break", "continue"}
  BY <1>11 DEF AfterBy
<1>. QED BY <1>2, <1>3, <1>4, <1>5, <1>6, <1>7, <1>8, <1>9, <1>10, <1>11, StatementKinds

\* It looks at the parts of the statement only.
LEMMA AfterDetermined ==
    ASSUME NEW g, NEW h, NEW s \in Statements, NEW P,
           \A t \in Statements : t.depth < s.depth => g[t] = h[t]
    PROVE  AfterBy(g, s, P) = AfterBy(h, s, P)
<1>1. /\ s.k = "list" => g[s.first] = h[s.first] /\ g[s.rest] = h[s.rest]
      /\ s.k \in {"block", "while", "dowhile", "for"} => g[s.body] = h[s.body]
      /\ s.k = "if" => g[s.then] = h[s.then] /\ g[s.else] = h[s.else]
      /\ s.k = "for" => g[s.init] = h[s.init] /\ g[s.update] = h[s.update]
  BY Parts
<1>2. s.k = "for" => AfterInit(g, s, P) = AfterInit(h, s, P)
  BY <1>1 DEF AfterInit
<1>3. s.k = "for" => ForHead(g, s, P) = ForHead(h, s, P)
  BY <1>2 DEF ForHead
<1>4. BeforeCond(g, s, P) = BeforeCond(h, s, P)
  BY <1>3 DEF BeforeCond
<1>5. BeforeBody(g, s, P) = BeforeBody(h, s, P)
  BY <1>4 DEF BeforeBody
<1>6. s.k \in {"block", "while", "dowhile", "for"} => AfterBody(g, s, P) = AfterBody(h, s, P)
  BY <1>1, <1>5 DEF AfterBody
<1>7. s.k = "for" => AfterUpdate(g, s, P) = AfterUpdate(h, s, P)
  BY <1>1, <1>6 DEF AfterUpdate
<1>8. CASE s.k = "list"
  BY <1>1, <1>8 DEF AfterBy
<1>9. CASE s.k \in {"block", "dowhile"}
  BY <1>6, <1>9 DEF AfterBy
<1>10. CASE s.k = "while"
  <2>1. AfterWhile(g, s, P) = AfterWhile(h, s, P)
    BY <1>6, <1>10 DEF AfterWhile
  <2>. QED BY <1>10, <2>1 DEF AfterBy
<1>11. CASE s.k = "if"
  <2>1. AfterIf(g, s, P) = AfterIf(h, s, P)
    BY <1>1, <1>11 DEF AfterIf
  <2>. QED BY <1>11, <2>1 DEF AfterBy
<1>12. CASE s.k = "for"
  <2>1. AfterFor(g, s, P) = AfterFor(h, s, P)
    BY <1>2, <1>7, <1>12 DEF AfterFor
  <2>. QED BY <1>12, <2>1 DEF AfterBy
<1>13. CASE s.k \notin {"list", "block", "dowhile", "while", "if", "for"}
  BY <1>13 DEF AfterBy
<1>. QED BY <1>8, <1>9, <1>10, <1>11, <1>12, <1>13

\* The analysis of statements is what its definition says.
LEMMA AfterIs ==
    /\ AfterAnalysis \in [Statements -> Transformers]
    /\ \A s \in Statements : \A P \in States :
          AfterAnalysis[s][P] = AfterBy(AfterAnalysis, s, P) /\ AfterAnalysis[s][P] \in States
<1>. DEFINE H == [g \in [Statements -> Transformers] |-> [s \in Statements |->
                     [P \in States |-> AfterBy(g, s, P)]]]
            rank == [s \in Statements |-> s.depth]
<1>1. H \in [[Statements -> Transformers] -> [Statements -> Transformers]]
  <2>1. ASSUME NEW g \in [Statements -> Transformers], NEW s \in Statements
        PROVE  [P \in States |-> AfterBy(g, s, P)] \in Transformers
    BY AfterClosed DEF Transformers
  <2>. QED BY <2>1
<1>2. ASSUME NEW g \in [Statements -> Transformers], NEW h \in [Statements -> Transformers],
             NEW s \in Statements, \A t \in Statements : rank[t] < rank[s] => g[t] = h[t]
      PROVE  H[g][s] = H[h][s]
  <2>1. \A t \in Statements : t.depth < s.depth => g[t] = h[t]
    BY <1>2
  <2>2. \A P \in States : AfterBy(g, s, P) = AfterBy(h, s, P)
    BY <2>1, AfterDetermined
  <2>. QED BY <2>2
<1>3. \E g \in [Statements -> Transformers] : g = H[g]
  <2>1. \A g, h \in [Statements -> Transformers] : \A s \in Statements :
            (\A t \in Statements : rank[t] < rank[s] => g[t] = h[t]) => H[g][s] = H[h][s]
    <3>. HIDE DEF H, rank
    <3>. QED BY <1>2
  <2>2. rank \in [Statements -> 0..MaxDepth] /\ MaxDepth \in Nat
    BY Depths
  <2>3. Transformers # {}
    <3>1. [P \in States |-> P] \in Transformers
      BY DEF Transformers
    <3>. QED BY <3>1
  <2>. HIDE DEF H, rank
  <2>4. Recursive(Statements, Transformers, MaxDepth, rank, H)
    BY <1>1, <2>1, <2>2, <2>3 DEF Recursive
  <2>. QED BY <2>4, Recursion
<1>4. PICK g \in [Statements -> Transformers] : g = H[g]
  BY <1>3
<1>5. g = [s \in Statements |-> [P \in States |-> AfterBy(g, s, P)]]
  BY <1>4
<1>6. AfterAnalysis = [s \in Statements |-> [P \in States |-> AfterBy(AfterAnalysis, s, P)]]
  BY <1>5 DEF AfterAnalysis
<1>7. \A s \in Statements : \A P \in States : AfterAnalysis[s][P] = AfterBy(AfterAnalysis, s, P)
  BY <1>6
<1>8. AfterAnalysis \in [Statements -> Transformers]
  <2>1. ASSUME NEW s \in Statements,
               \A t \in Statements : rank[t] < rank[s] => AfterAnalysis[t] = g[t]
        PROVE  AfterAnalysis[s] = g[s]
    <3>1. \A t \in Statements : t.depth < s.depth => g[t] = AfterAnalysis[t]
      BY <2>1
    <3>2. \A P \in States : AfterBy(g, s, P) = AfterBy(AfterAnalysis, s, P)
      BY <3>1, AfterDetermined
    <3>3. g[s] = [P \in States |-> AfterBy(g, s, P)]
      BY <1>5
    <3>4. AfterAnalysis[s] = [P \in States |-> AfterBy(AfterAnalysis, s, P)]
      BY <1>6
    <3>. QED BY <3>2, <3>3, <3>4
  <2>2. rank \in [Statements -> 0..MaxDepth] /\ MaxDepth \in Nat
    BY Depths
  <2>3. \A s \in Statements :
           (\A t \in Statements : rank[t] < rank[s] => AfterAnalysis[t] = g[t]) => AfterAnalysis[s] = g[s]
    BY <2>1
  <2>4. \A s \in Statements : AfterAnalysis[s] = g[s]
    <3>. HIDE DEF rank, H
    <3>1. Determined(Statements, MaxDepth, rank, AfterAnalysis, g)
      BY <2>2, <2>3 DEF Determined
    <3>. QED BY <3>1, Unique
  <2>5. AfterAnalysis = [s \in Statements |-> AfterAnalysis[s]]
    BY <1>6
  <2>. QED BY <2>4, <2>5
<1>9. \A s \in Statements : \A P \in States : AfterAnalysis[s][P] \in States
  BY <1>8 DEF Transformers
<1>. QED BY <1>7, <1>8, <1>9

-----------------------------------------------------------------------------
(* What a state tracks                                                     *)

\* P tracks the labels in N, and knows nothing about those that are not in V yet.
Fits(P, V, N) ==
    /\ P \in States /\ IsPartitionState(P) /\ Elements(P) = N
    /\ \A p \in P : \A x \in p : x \notin V => p = {x}

\* Values with which every state is right.
LEMMA Alike ==
    ASSUME NEW P
    PROVE  \E vals : Agrees(P, vals) /\ DOMAIN vals = Elements(P)
                     /\ \A x, y \in Elements(P) : vals[x] = vals[y]
<1>. DEFINE vals == [x \in Elements(P) |-> 0]
<1>1. \A p \in P : \A x \in p : x \in Elements(P)
  BY DEF Elements
<1>2. \A x, y \in Elements(P) : vals[x] = vals[y]
  OBVIOUS
<1>3. Agrees(P, vals)
  <2>. HIDE DEF vals
  <2>. QED BY <1>1, <1>2 DEF Agrees
<1>4. DOMAIN vals = Elements(P)
  OBVIOUS
<1>. QED BY <1>2, <1>3, <1>4

LEMMA FitsMore ==
    ASSUME NEW P, NEW V, NEW W, NEW N, Fits(P, V, N), V \subseteq W
    PROVE  Fits(P, W, N)
BY DEF Fits

LEMMA FitsSeparate ==
    ASSUME NEW P, NEW V, NEW N, Fits(P, V, N)
    PROVE  /\ Fits(SeparateAll(P), V, N)
           /\ \A b : Fits(Separated(b, P), V, N)
<1>1. SeparateAll(P) \in States
  BY Closed DEF Fits
<1>2. IsPartitionState(SeparateAll(P)) /\ Elements(SeparateAll(P)) = N
  <2>1. PICK vals : Agrees(P, vals)
    BY Alike
  <2>2. \A x \in Immutable : vals[x] = vals[x]
    OBVIOUS
  <2>. QED BY <2>1, <2>2, SeparateSound DEF Fits
<1>3. ASSUME NEW p \in SeparateAll(P), NEW x \in p, x \notin V PROVE p = {x}
  <2>1. CASE \E y : p = {y}
    BY <1>3, <2>1
  <2>2. CASE \E q \in P : p = q \cap Immutable
    BY <1>3, <2>2 DEF Fits
  <2>. QED BY <2>1, <2>2 DEF SeparateAll
<1>4. Fits(SeparateAll(P), V, N)
  BY <1>1, <1>2, <1>3 DEF Fits
<1>. QED BY <1>4 DEF Separated

LEMMA FitsJoin ==
    ASSUME NEW P, NEW Q, NEW V, NEW N, Fits(P, V, N), Fits(Q, V, N)
    PROVE  Fits(Join(P, Q), V, N)
<1>1. Join(P, Q) \in States
  BY Closed DEF Fits
<1>2. IsPartitionState(Join(P, Q)) /\ Elements(Join(P, Q)) = N
  BY JoinSound DEF Fits
<1>3. ASSUME NEW j \in Join(P, Q), NEW x \in j, x \notin V PROVE j = {x}
  <2>1. PICK p \in P, q \in Q : j = p \cap q
    BY DEF Join
  <2>2. p = {x}
    BY <1>3, <2>1 DEF Fits
  <2>. QED BY <1>3, <2>1, <2>2
<1>. QED BY <1>1, <1>2, <1>3 DEF Fits

LEMMA FitsMerge ==
    ASSUME NEW P, NEW V, NEW N, Fits(P, V, N), NEW x \in V \cap N, NEW y \in V \cap N
    PROVE  Fits(Merge(P, x, y), V, N)
<1>1. Merge(P, x, y) \in States
  BY Closed DEF Fits
<1>2. IsPartitionState(P) /\ Elements(P) = N
  BY DEF Fits
<1>3. Has(P, x) /\ Has(P, y)
  BY <1>2, PartOfTracked
<1>4. IsPartitionState(Merge(P, x, y)) /\ Elements(Merge(P, x, y)) = N
  <2>1. PICK vals : Agrees(P, vals) /\ \A a, b \in Elements(P) : vals[a] = vals[b]
    BY Alike
  <2>2. vals[x] = vals[y] /\ MayMerge(P, x, y)
    BY <1>2, <1>3, <2>1 DEF MayMerge
  <2>. QED BY <1>2, <2>1, <2>2, MergeSound
<1>5. ASSUME NEW p \in Merge(P, x, y), NEW z \in p, z \notin V PROVE p = {z}
  <2>1. PartOf(P, x) \in P /\ x \in PartOf(P, x) /\ PartOf(P, y) \in P /\ y \in PartOf(P, y)
    BY <1>2, <1>3, PartOfTracked
  <2>2. z \notin PartOf(P, x) /\ z \notin PartOf(P, y)
    BY <1>5, <2>1 DEF Fits
  <2>3. p \in P
    BY <1>5, <2>2 DEF Merge
  <2>. QED BY <1>5, <2>3 DEF Fits
<1>. QED BY <1>1, <1>4, <1>5 DEF Fits

LEMMA FitsMove ==
    ASSUME NEW P, NEW V, NEW N, Fits(P, V, N), NEW x \in V \cap N
    PROVE  /\ Fits(MoveToSeparate(P, x), V, N)
           /\ \A y \in V \cap N : Fits(MoveTo(P, x, y), V, N)
<1>0. IsPartitionState(P) /\ Elements(P) = N /\ P \in States
  BY DEF Fits
<1>1. x \in Labels
  BY <1>0 DEF States, Elements
<1>2. \A z \in N : Has(P, z)
  BY <1>0, PartOfTracked
<1>3. PICK vals : Agrees(P, vals) /\ DOMAIN vals = Elements(P)
  BY Alike
<1>4. ASSUME NEW p \in RemoveFrom(P, x), NEW z \in p, z \notin V PROVE p = {z}
  <2>1. PICK q \in P : p = q \ {x}
    BY DEF RemoveFrom
  <2>2. q = {z}
    BY <1>4, <2>1 DEF Fits
  <2>. QED BY <1>4, <2>1, <2>2
<1>5. Fits(MoveToSeparate(P, x), V, N)
  <2>1. MoveToSeparate(P, x) \in States
    BY <1>0, <1>1, Closed
  <2>2. IsPartitionState(MoveToSeparate(P, x)) /\ Elements(MoveToSeparate(P, x)) = N
    BY <1>0, <1>2, <1>3, MoveToSeparateSound
  <2>3. \A p \in MoveToSeparate(P, x) : \A z \in p : z \notin V => p = {z}
    BY <1>4 DEF MoveToSeparate, Insert
  <2>. QED BY <2>1, <2>2, <2>3 DEF Fits
<1>6. ASSUME NEW y \in V \cap N PROVE Fits(MoveTo(P, x, y), V, N)
  <2>1. MoveTo(P, x, y) \in States
    BY <1>0, <1>1, Closed
  <2>2. IsPartitionState(MoveTo(P, x, y)) /\ Elements(MoveTo(P, x, y)) = N
    BY <1>0, <1>2, <1>3, MoveSound
  <2>3. ASSUME NEW p \in MoveTo(P, x, y), NEW z \in p, z \notin V PROVE p = {z}
    <3>1. CASE SamePartition(P, x, y)
      BY <2>3, <3>1 DEF MoveTo, Fits
    <3>2. CASE ~SamePartition(P, x, y)
      <4>1. PICK q \in RemoveFrom(P, x) : p = IF y \in q THEN q \cup {x} ELSE q
        BY <3>2 DEF MoveTo
      <4>2. z \in q /\ z # x /\ z # y
        BY <2>3, <4>1
      <4>3. q = {z}
        BY <1>4, <2>3, <4>2
      <4>. QED BY <4>1, <4>2, <4>3
    <3>. QED BY <3>1, <3>2
  <2>. QED BY <2>1, <2>2, <2>3 DEF Fits
<1>. QED BY <1>5, <1>6

LEMMA FitsInsert ==
    ASSUME NEW P, NEW V, NEW N, Fits(P, V, N), NEW names \in SUBSET Labels, names \cap N = {}
    PROVE  Fits(InsertAll(P, names), V, N \cup names)
<1>1. InsertAll(P, names) \in States
  BY Closed DEF Fits
<1>2. \A p \in P : p \subseteq N
  BY DEF Fits, Elements
<1>3. IsPartitionState(InsertAll(P, names))
  <2>1. {} \notin InsertAll(P, names)
    BY DEF Fits, IsPartitionState, InsertAll
  <2>2. ASSUME NEW p \in InsertAll(P, names), NEW q \in InsertAll(P, names), p # q PROVE p \cap q = {}
    <3>1. CASE p \in P /\ q \in P
      BY <2>2, <3>1 DEF Fits, IsPartitionState
    <3>2. CASE (\E x \in names : p = {x}) /\ q \in P
      BY <1>2, <3>2
    <3>3. CASE (\E x \in names : q = {x}) /\ p \in P
      BY <1>2, <3>3
    <3>4. CASE (\E x \in names : p = {x}) /\ (\E x \in names : q = {x})
      BY <2>2, <3>4
    <3>. QED BY <3>1, <3>2, <3>3, <3>4 DEF InsertAll
  <2>. QED BY <2>1, <2>2 DEF IsPartitionState
<1>4. Elements(InsertAll(P, names)) = N \cup names
  <2>1. ASSUME NEW x \in Elements(InsertAll(P, names)) PROVE x \in N \cup names
    <3>1. PICK p \in InsertAll(P, names) : x \in p
      BY DEF Elements
    <3>. QED BY <1>2, <3>1 DEF InsertAll
  <2>2. ASSUME NEW x \in N PROVE x \in Elements(InsertAll(P, names))
    <3>1. PICK p \in P : x \in p
      BY DEF Fits, Elements
    <3>2. p \in InsertAll(P, names)
      BY DEF InsertAll
    <3>. QED BY <3>1, <3>2 DEF Elements
  <2>3. ASSUME NEW x \in names PROVE x \in Elements(InsertAll(P, names))
    <3>1. {x} \in InsertAll(P, names)
      BY DEF InsertAll
    <3>. QED BY <3>1 DEF Elements
  <2>. QED BY <2>1, <2>2, <2>3
<1>5. \A p \in InsertAll(P, names) : \A x \in p : x \notin V => p = {x}
  BY DEF InsertAll, Fits
<1>. QED BY <1>1, <1>3, <1>4, <1>5 DEF Fits

LEMMA FitsRemove ==
    ASSUME NEW P, NEW V, NEW N, NEW names \in SUBSET Labels, names \cap N = {},
           Fits(P, V \cup names, N \cup names)
    PROVE  Fits(RemoveAll(P, names), V, N)
<1>1. RemoveAll(P, names) \in States
  BY Closed DEF Fits
<1>2. \A p \in RemoveAll(P, names) : p # {} /\ \E q \in P : p = q \ names
  BY DEF RemoveAll
<1>3. IsPartitionState(RemoveAll(P, names))
  <2>1. {} \notin RemoveAll(P, names)
    BY <1>2
  <2>2. ASSUME NEW p \in RemoveAll(P, names), NEW q \in RemoveAll(P, names), p # q PROVE p \cap q = {}
    <3>1. PICK r \in P, t \in P : p = r \ names /\ q = t \ names
      BY <1>2
    <3>2. r # t
      BY <2>2, <3>1
    <3>. QED BY <3>1, <3>2 DEF Fits, IsPartitionState
  <2>. QED BY <2>1, <2>2 DEF IsPartitionState
<1>4. Elements(RemoveAll(P, names)) = N
  <2>1. Elements(P) = N \cup names
    BY DEF Fits
  <2>2. ASSUME NEW x \in Elements(RemoveAll(P, names)) PROVE x \in N
    <3>1. PICK p \in RemoveAll(P, names) : x \in p
      BY DEF Elements
    <3>2. PICK q \in P : p = q \ names
      BY <1>2
    <3>3. x \in Elements(P) /\ x \notin names
      BY <3>1, <3>2 DEF Elements
    <3>. QED BY <2>1, <3>3
  <2>3. ASSUME NEW x \in N PROVE x \in Elements(RemoveAll(P, names))
    <3>1. PICK q \in P : x \in q
      BY <2>1 DEF Elements
    <3>2. q \ names \in RemoveAll(P, names) /\ x \in q \ names
      BY <2>3, <3>1 DEF RemoveAll
    <3>. QED BY <3>2 DEF Elements
  <2>. QED BY <2>2, <2>3
<1>5. ASSUME NEW p \in RemoveAll(P, names), NEW x \in p, x \notin V PROVE p = {x}
  <2>1. PICK q \in P : p = q \ names
    BY <1>2
  <2>2. q = {x}
    BY <1>5, <2>1 DEF Fits
  <2>. QED BY <1>5, <2>1, <2>2
<1>. QED BY <1>1, <1>3, <1>4, <1>5 DEF Fits

\* What is known still holds without some labels, and with labels nothing is known of.
LEMMA InsertRemoveSound ==
    ASSUME NEW P, NEW vals, Agrees(P, vals), NEW names
    PROVE  Agrees(InsertAll(P, names), vals) /\ Agrees(RemoveAll(P, names), vals)
BY DEF Agrees, InsertAll, RemoveAll

\* A label nothing is known of may be assigned.
LEMMA Unknown ==
    ASSUME NEW P, NEW V, NEW N, Fits(P, V, N), NEW vals, Agrees(P, vals), NEW after,
           \A x \in Labels : x \in V => after[x] = vals[x]
    PROVE  Agrees(P, after)
<1>1. ASSUME NEW p \in P, NEW x \in p, NEW y \in p PROVE after[x] = after[y]
  <2>1. x \in Labels /\ y \in Labels
    BY DEF Fits, States
  <2>2. CASE x \in V /\ y \in V
    BY <2>1, <2>2 DEF Agrees
  <2>3. CASE x \notin V \/ y \notin V
    BY <2>3 DEF Fits
  <2>. QED BY <2>2, <2>3
<1>. QED BY <1>1 DEF Agrees

-----------------------------------------------------------------------------
(* Conditions                                                              *)

\* Among some conditions, and among some statements, one has none of the others in it.
LEMMA ShallowestCondition ==
    ASSUME NEW B \in SUBSET Conditions, B # {}
    PROVE  \E c \in B : \A d \in Conditions : d.depth < c.depth => d \notin B
<1>. DEFINE depths == {c.depth : c \in B}
<1>1. \A c \in B : c.depth \in Nat
  BY ConditionParts, LabelAssumption
<1>2. PICK n \in depths : \A m \in depths : n <= m
  <2>1. depths \in SUBSET Nat /\ depths # {}
    BY <1>1
  <2>. HIDE DEF depths
  <2>. QED BY <2>1, Least
<1>3. PICK c \in B : c.depth = n
  BY <1>2
<1>4. \A d \in B : c.depth <= d.depth
  BY <1>2, <1>3
<1>. QED BY <1>1, <1>4

LEMMA ShallowestStatement ==
    ASSUME NEW B \in SUBSET Statements, B # {}
    PROVE  \E s \in B : \A t \in Statements : t.depth < s.depth => t \notin B
<1>. DEFINE depths == {s.depth : s \in B}
<1>1. \A s \in B : s.depth \in Nat
  BY ProgramAssumption, LabelAssumption
<1>2. PICK n \in depths : \A m \in depths : n <= m
  <2>1. depths \in SUBSET Nat /\ depths # {}
    BY <1>1
  <2>. HIDE DEF depths
  <2>. QED BY <2>1, Least
<1>3. PICK s \in B : s.depth = n
  BY <1>2
<1>4. \A t \in B : s.depth <= t.depth
  BY <1>2, <1>3
<1>. QED BY <1>1, <1>4

\* The values of c's outcome r agree with e on what no side effect changes, and
\* on all labels if c has none.
Keeping(c, e, r) ==
    /\ r.val \in BOOLEAN /\ r.env \in Envs
    /\ \A x \in Labels \ Mutable : r.env[x] = e[x]
    /\ ~CondEffects[c] => r.env = e

\* An evaluation changes nothing but what its side effects change.
LEMMA ResultsKeep ==
    \A c \in Conditions : \A e \in Envs : \A r \in Results[c][e] : Keeping(c, e, r)
<1>. DEFINE Bad == {c \in Conditions : ~ \A e \in Envs : \A r \in Results[c][e] : Keeping(c, e, r)}
<1>1. SUFFICES ASSUME Bad # {} PROVE FALSE
  OBVIOUS
<1>2. PICK c \in Bad : \A d \in Conditions : d.depth < c.depth => d \notin Bad
  <2>1. Bad \in SUBSET Conditions
    OBVIOUS
  <2>. HIDE DEF Bad
  <2>. QED BY <1>1, <2>1, ShallowestCondition
<1>3a. PICK e \in Envs : ~ \A r \in Results[c][e] : Keeping(c, e, r)
  BY <1>2
<1>3. PICK r \in Results[c][e] : ~Keeping(c, e, r)
  BY <1>3a
<1>4. c \in Conditions
  BY <1>2
<1>5. /\ c.op \in {"not", "and", "or"} => c.l \in Conditions /\ c.l.depth < c.depth
      /\ c.op \in {"and", "or"} => c.r \in Conditions /\ c.r.depth < c.depth
      /\ c.op \in {"opaque", "call", "eq", "ne", "not", "and", "or"}
  BY <1>4, ConditionParts
<1>6. \A d \in Conditions : d.depth < c.depth =>
          \A f \in Envs : \A q \in Results[d][f] : Keeping(d, f, q)
  BY <1>2
<1>7. r \in ResultsBy(Results, c, e) /\ r \in Outcomes
  BY <1>3, <1>4, ResultsAre
<1>8. r.val \in BOOLEAN /\ r.env \in Envs
  BY <1>7 DEF Outcomes
<1>9. CondEffects[c] <=> \/ c.op = "call"
                         \/ c.op = "not" /\ CondEffects[c.l]
                         \/ c.op \in {"and", "or"} /\ (CondEffects[c.l] \/ CondEffects[c.r])
  BY <1>4, CondEffectsAre
<1>. HIDE DEF Bad
<1>10. CASE c.op \in {"eq", "ne", "opaque"}
  <2>1. r.env = e
    <3>1. CASE c.op = "eq"
      BY <1>7, <3>1 DEF ResultsBy, Valued
    <3>2. CASE c.op = "ne"
      BY <1>7, <3>2 DEF ResultsBy, Valued
    <3>3. CASE c.op = "opaque"
      BY <1>7, <3>3 DEF ResultsBy, Valued
    <3>. QED BY <1>10, <3>1, <3>2, <3>3
  <2>. QED BY <1>3, <1>8, <2>1 DEF Keeping
<1>11. CASE c.op = "not"
  <2>1. PICK q \in Results[c.l][e] : r = Valued(~q.val, q.env)
    BY <1>7, <1>11 DEF ResultsBy
  <2>2. Keeping(c.l, e, q) /\ r.env = q.env
    BY <1>5, <1>6, <1>11, <2>1 DEF Valued
  <2>. QED BY <1>3, <1>8, <1>9, <1>11, <2>2 DEF Keeping
<1>12. CASE c.op \in {"and", "or"}
  <2>1. PICK q \in Results[c.l][e] : r = q \/ r \in Results[c.r][q.env]
    <3>1. CASE c.op = "and"
      BY <1>7, <3>1 DEF ResultsBy
    <3>2. CASE c.op = "or"
      BY <1>7, <3>2 DEF ResultsBy
    <3>. QED BY <1>12, <3>1, <3>2
  <2>2. Keeping(c.l, e, q)
    BY <1>5, <1>6, <1>12, <2>1
  <2>3. q.env \in Envs
    BY <2>2 DEF Keeping
  <2>4. CASE r = q
    BY <1>3, <1>9, <1>12, <2>2, <2>4 DEF Keeping
  <2>5. CASE r \in Results[c.r][q.env]
    <3>1. Keeping(c.r, q.env, r)
      BY <1>5, <1>6, <1>12, <2>3, <2>5
    <3>2. \A x \in Labels \ Mutable : r.env[x] = e[x]
      BY <2>2, <3>1 DEF Keeping
    <3>3. ~CondEffects[c] => r.env = e
      BY <1>9, <1>12, <2>2, <3>1 DEF Keeping
    <3>. QED BY <1>3, <1>8, <3>2, <3>3 DEF Keeping
  <2>. QED BY <2>1, <2>4, <2>5
<1>13. CASE c.op = "call"
  <2>1. r.env \in AfterCall(e)
    BY <1>7, <1>13 DEF ResultsBy, Valued
  <2>. QED BY <1>3, <1>8, <1>9, <1>13, <2>1, AfterCallIs DEF Keeping
<1>. QED BY <1>5, <1>10, <1>11, <1>12, <1>13

\* The analysis of a condition keeps track of the same labels.
LEMMA GuardedFits ==
    \A c \in Conditions : \A neg \in BOOLEAN : \A P, V, N :
        Fits(P, V, N) /\ c.labels \subseteq V \cap N => Fits(Guarded[c][neg][P], V, N)
<1>. DEFINE Good(c) == \A neg \in BOOLEAN : \A P, V, N :
                Fits(P, V, N) /\ c.labels \subseteq V \cap N => Fits(Guarded[c][neg][P], V, N)
            Bad == {c \in Conditions : ~Good(c)}
<1>1. SUFFICES ASSUME Bad # {} PROVE FALSE
  OBVIOUS
<1>2. PICK c \in Bad : \A d \in Conditions : d.depth < c.depth => d \notin Bad
  <2>1. Bad \in SUBSET Conditions
    OBVIOUS
  <2>. HIDE DEF Bad
  <2>. QED BY <1>1, <2>1, ShallowestCondition
<1>3. c \in Conditions /\ ~Good(c)
  BY <1>2
<1>3a. PICK neg \in BOOLEAN : \E P, V, N :
          Fits(P, V, N) /\ c.labels \subseteq V \cap N /\ ~Fits(Guarded[c][neg][P], V, N)
  BY <1>3
<1>4. PICK P, V, N : Fits(P, V, N) /\ c.labels \subseteq V \cap N /\ ~Fits(Guarded[c][neg][P], V, N)
  BY <1>3a
<1>5. \A d \in Conditions : d.depth < c.depth => Good(d)
  <2>. HIDE DEF Good
  <2>. QED BY <1>2
<1>6. /\ c.op \in {"not", "and", "or"} =>
            c.l \in Conditions /\ c.l.depth < c.depth /\ c.l.labels \subseteq V \cap N
      /\ c.op \in {"and", "or"} =>
            c.r \in Conditions /\ c.r.depth < c.depth /\ c.r.labels \subseteq V \cap N
      /\ c.op \in {"eq", "ne"} => {c.l, c.r} \subseteq (V \cap N) \cup {Fresh}
  BY <1>3, <1>4, ConditionParts
<1>7. Guarded[c][neg][P] = GuardedBy(Guarded, c, neg, P)
  BY <1>3, <1>4, GuardedIs DEF Fits
<1>8. CASE c.op = "not"
  <2>1. Good(c.l)
    BY <1>5, <1>6, <1>8
  <2>2. \A b \in BOOLEAN : Fits(Guarded[c.l][~b][P], V, N)
    <3>1. Fits(Guarded[c.l][TRUE][P], V, N) /\ Fits(Guarded[c.l][FALSE][P], V, N)
      BY <1>4, <1>6, <1>8, <2>1
    <3>. QED BY <3>1
  <2>3. GuardedBy(Guarded, c, neg, P) = Guarded[c.l][~neg][P]
    BY <1>8 DEF GuardedBy
  <2>4. Fits(Guarded[c.l][~neg][P], V, N)
    BY <2>2
  <2>. QED BY <1>4, <1>7, <2>3, <2>4
<1>9. CASE c.op = (IF neg THEN "or" ELSE "and")
  <2>1. Good(c.l) /\ Good(c.r)
    BY <1>5, <1>6, <1>9
  <2>2. Fits(Guarded[c.l][neg][P], V, N)
    BY <1>4, <1>6, <1>9, <2>1
  <2>3. Fits(Guarded[c.r][neg][Guarded[c.l][neg][P]], V, N)
    BY <1>4, <1>6, <1>9, <2>1, <2>2
  <2>4. GuardedBy(Guarded, c, neg, P) = Guarded[c.r][neg][Guarded[c.l][neg][P]]
    BY <1>9 DEF GuardedBy
  <2>. QED BY <1>4, <1>7, <2>3, <2>4
<1>10. CASE c.op = (IF neg THEN "ne" ELSE "eq")
  <2>1. c.op \notin {"not", "and", "or"} /\ c.op \in {"eq", "ne"}
    BY <1>10
  <2>2. GuardedBy(Guarded, c, neg, P) = IF c.l = Fresh THEN P
                                        ELSE IF Untracked(P, c.r) THEN MoveToSeparate(P, c.l)
                                        ELSE Merge(P, c.l, c.r)
    BY <1>10, <2>1 DEF GuardedBy
  <2>3. c.l # Fresh => Fits(MoveToSeparate(P, c.l), V, N)
    BY <1>4, <1>6, <2>1, FitsMove
  <2>4. c.l # Fresh /\ ~Untracked(P, c.r) => Fits(Merge(P, c.l, c.r), V, N)
    BY <1>4, <1>6, <2>1, FitsMerge DEF Untracked
  <2>. QED BY <1>4, <1>7, <2>2, <2>3, <2>4
<1>11. CASE /\ c.op # "not" /\ c.op # (IF neg THEN "or" ELSE "and")
            /\ c.op # (IF neg THEN "ne" ELSE "eq")
  <2>1. GuardedBy(Guarded, c, neg, P) = P
    BY <1>11 DEF GuardedBy
  <2>. QED BY <1>4, <1>7, <2>1
<1>. QED BY <1>8, <1>9, <1>10, <1>11

\* The state that the outcome r leaves is right for e.
Informed(c, e, r) ==
    \A P, V, N :
        Fits(P, V, N) /\ c.labels \subseteq V \cap N /\ Agrees(P, e) =>
            /\ r.val => Agrees(Guarded[c][FALSE][P], e)
            /\ ~r.val => Agrees(Guarded[c][TRUE][P], e)

\* Labels that are equal may be merged, those that are not tracked are separated.
LEMMA ComparedSound ==
    ASSUME NEW P, NEW V, NEW N, Fits(P, V, N), NEW e \in Envs, Agrees(P, e),
           NEW x, NEW y, {x, y} \subseteq (V \cap N) \cup {Fresh},
           x # Fresh, y # Fresh => e[x] = e[y]
    PROVE  Agrees(IF Untracked(P, y) THEN MoveToSeparate(P, x) ELSE Merge(P, x, y), e)
<1>1. x \in V \cap N /\ IsPartitionState(P) /\ Elements(P) = N
  BY DEF Fits
<1>2. Has(P, x)
  BY <1>1, PartOfTracked
<1>3. CASE Untracked(P, y)
  <2>1. [e EXCEPT ![x] = e[x]] = e
    BY DEF Envs
  <2>2. Agrees(MoveToSeparate(P, x), [e EXCEPT ![x] = e[x]])
    BY <1>1, <1>2, MoveToSeparateSound
  <2>. QED BY <1>3, <2>1, <2>2
<1>4. CASE ~Untracked(P, y)
  <2>1. y # Fresh /\ Has(P, y) /\ e[x] = e[y]
    BY <1>4 DEF Untracked
  <2>2. Agrees(Merge(P, x, y), e)
    BY <1>1, <1>2, <2>1, MergeSound DEF MayMerge
  <2>. QED BY <1>4, <2>2
<1>. QED BY <1>3, <1>4

\* What the analysis takes from a condition is true, and so is what it takes
\* from the negation of one that is false.
LEMMA GuardedSound ==
    \A c \in Conditions : ~CondEffects[c] =>
        \A e \in Envs : \A r \in Results[c][e] : Informed(c, e, r)
<1>. DEFINE Good(c) == ~CondEffects[c] => \A e \in Envs : \A r \in Results[c][e] : Informed(c, e, r)
            Bad == {c \in Conditions : ~Good(c)}
<1>1. SUFFICES ASSUME Bad # {} PROVE FALSE
  OBVIOUS
<1>2. PICK c \in Bad : \A d \in Conditions : d.depth < c.depth => d \notin Bad
  <2>1. Bad \in SUBSET Conditions
    OBVIOUS
  <2>. HIDE DEF Bad
  <2>. QED BY <1>1, <2>1, ShallowestCondition
<1>3. c \in Conditions /\ ~Good(c)
  BY <1>2
<1>4. \A d \in Conditions : d.depth < c.depth => Good(d)
  <2>. HIDE DEF Good
  <2>. QED BY <1>2
<1>5. ~CondEffects[c]
  BY <1>3
<1>6. PICK e \in Envs : ~ \A r \in Results[c][e] : Informed(c, e, r)
  BY <1>3
<1>7. PICK r \in Results[c][e] : ~Informed(c, e, r)
  BY <1>6
<1>8. PICK P, V, N : /\ Fits(P, V, N) /\ c.labels \subseteq V \cap N /\ Agrees(P, e)
                     /\ ~(/\ r.val => Agrees(Guarded[c][FALSE][P], e)
                          /\ ~r.val => Agrees(Guarded[c][TRUE][P], e))
  BY <1>7 DEF Informed
<1>9. /\ c.op \in {"not", "and", "or"} =>
            c.l \in Conditions /\ c.l.depth < c.depth /\ c.l.labels \subseteq V \cap N
      /\ c.op \in {"and", "or"} =>
            c.r \in Conditions /\ c.r.depth < c.depth /\ c.r.labels \subseteq V \cap N
      /\ c.op \in {"eq", "ne"} => {c.l, c.r} \subseteq (V \cap N) \cup {Fresh}
      /\ c.op \in {"opaque", "call", "eq", "ne", "not", "and", "or"}
  BY <1>3, <1>8, ConditionParts
<1>10. /\ c.op # "call"
       /\ c.op = "not" => ~CondEffects[c.l]
       /\ c.op \in {"and", "or"} => ~CondEffects[c.l] /\ ~CondEffects[c.r]
  BY <1>3, <1>5, CondEffectsAre
<1>11. r \in ResultsBy(Results, c, e)
  BY <1>3, <1>7, ResultsAre
<1>12. P \in States /\ \A b \in BOOLEAN : Guarded[c][b][P] = GuardedBy(Guarded, c, b, P)
  BY <1>3, <1>8, GuardedIs DEF Fits
<1>13. /\ Guarded[c][FALSE][P] = GuardedBy(Guarded, c, FALSE, P)
       /\ Guarded[c][TRUE][P] = GuardedBy(Guarded, c, TRUE, P)
  BY <1>12
<1>. HIDE DEF Bad, Good
<1>14. CASE c.op = "not"
  <2>1. PICK q \in Results[c.l][e] : r = Valued(~q.val, q.env)
    BY <1>11, <1>14 DEF ResultsBy
  <2>2. Informed(c.l, e, q)
    BY <1>4, <1>9, <1>10, <1>14 DEF Good
  <2>3. /\ q.val => Agrees(Guarded[c.l][FALSE][P], e)
        /\ ~q.val => Agrees(Guarded[c.l][TRUE][P], e)
    BY <1>8, <1>9, <1>14, <2>2 DEF Informed
  <2>4. /\ GuardedBy(Guarded, c, FALSE, P) = Guarded[c.l][TRUE][P]
        /\ GuardedBy(Guarded, c, TRUE, P) = Guarded[c.l][FALSE][P]
    BY <1>14 DEF GuardedBy
  <2>5. r.val <=> ~q.val
    BY <2>1 DEF Valued
  <2>. QED BY <1>8, <1>13, <2>3, <2>4, <2>5
<1>15. CASE c.op = "and"
  <2>1. PICK q \in Results[c.l][e] : IF q.val THEN r \in Results[c.r][q.env] ELSE r = q
    <3>1. \A q \in Results[c.l][e] : q.val \in BOOLEAN
      BY <1>9, <1>15, ResultsAre DEF Outcomes
    <3>2. PICK q \in Results[c.l][e] : r \in IF q.val = TRUE THEN Results[c.r][q.env] ELSE {q}
      BY <1>11, <1>15 DEF ResultsBy
    <3>. QED BY <3>1, <3>2
  <2>2. GuardedBy(Guarded, c, TRUE, P) = P
    BY <1>15 DEF GuardedBy
  <2>3. GuardedBy(Guarded, c, FALSE, P) = Guarded[c.r][FALSE][Guarded[c.l][FALSE][P]]
    BY <1>15 DEF GuardedBy
  <2>4. Informed(c.l, e, q) /\ Keeping(c.l, e, q)
    BY <1>4, <1>9, <1>10, <1>15, ResultsKeep DEF Good
  <2>5. ASSUME q.val PROVE r.val => Agrees(Guarded[c.r][FALSE][Guarded[c.l][FALSE][P]], e)
    <3>1. q.env = e /\ r \in Results[c.r][e]
      BY <1>10, <1>15, <2>1, <2>4, <2>5 DEF Keeping
    <3>2. Informed(c.r, e, r)
      BY <1>4, <1>9, <1>10, <1>15, <3>1 DEF Good
    <3>3. Agrees(Guarded[c.l][FALSE][P], e)
      BY <1>8, <1>9, <1>15, <2>4, <2>5 DEF Informed
    <3>4. Fits(Guarded[c.l][FALSE][P], V, N)
      BY <1>8, <1>9, <1>15, GuardedFits
    <3>. QED BY <1>9, <1>15, <3>2, <3>3, <3>4 DEF Informed
  <2>6. ASSUME ~q.val PROVE ~r.val
    BY <2>1, <2>6
  <2>. QED BY <1>8, <1>13, <2>2, <2>3, <2>5, <2>6
<1>16. CASE c.op = "or"
  <2>1. PICK q \in Results[c.l][e] : IF q.val THEN r = q ELSE r \in Results[c.r][q.env]
    <3>1. \A q \in Results[c.l][e] : q.val \in BOOLEAN
      BY <1>9, <1>16, ResultsAre DEF Outcomes
    <3>2. PICK q \in Results[c.l][e] : r \in IF q.val = FALSE THEN Results[c.r][q.env] ELSE {q}
      BY <1>11, <1>16 DEF ResultsBy
    <3>. QED BY <3>1, <3>2
  <2>2. GuardedBy(Guarded, c, FALSE, P) = P
    BY <1>16 DEF GuardedBy
  <2>3. GuardedBy(Guarded, c, TRUE, P) = Guarded[c.r][TRUE][Guarded[c.l][TRUE][P]]
    BY <1>16 DEF GuardedBy
  <2>4. Informed(c.l, e, q) /\ Keeping(c.l, e, q)
    BY <1>4, <1>9, <1>10, <1>16, ResultsKeep DEF Good
  <2>5. ASSUME ~q.val PROVE ~r.val => Agrees(Guarded[c.r][TRUE][Guarded[c.l][TRUE][P]], e)
    <3>1. q.env = e /\ r \in Results[c.r][e]
      BY <1>10, <1>16, <2>1, <2>4, <2>5 DEF Keeping
    <3>2. Informed(c.r, e, r)
      BY <1>4, <1>9, <1>10, <1>16, <3>1 DEF Good
    <3>3. Agrees(Guarded[c.l][TRUE][P], e)
      BY <1>8, <1>9, <1>16, <2>4, <2>5 DEF Informed
    <3>4. Fits(Guarded[c.l][TRUE][P], V, N)
      BY <1>8, <1>9, <1>16, GuardedFits
    <3>. QED BY <1>9, <1>16, <3>2, <3>3, <3>4 DEF Informed
  <2>6. ASSUME q.val PROVE r.val
    BY <2>1, <2>6
  <2>. QED BY <1>8, <1>13, <2>2, <2>3, <2>5, <2>6
<1>17. CASE c.op = "eq"
  <2>1. ASSUME r.val, c.l # Fresh, c.r # Fresh PROVE e[c.l] = e[c.r]
    <3>1. ResultsBy(Results, c, e) = {Valued(b, e) : b \in {e[c.l] = e[c.r]}}
      <4>1. Fresh \notin {c.l, c.r}
        BY <2>1
      <4>. QED BY <1>17, <4>1 DEF ResultsBy
    <3>2. r = Valued(e[c.l] = e[c.r], e)
      BY <1>11, <3>1
    <3>. QED BY <2>1, <3>2 DEF Valued
  <2>2. GuardedBy(Guarded, c, TRUE, P) = P
    BY <1>17 DEF GuardedBy
  <2>3. GuardedBy(Guarded, c, FALSE, P) = IF c.l = Fresh THEN P
                                          ELSE IF Untracked(P, c.r) THEN MoveToSeparate(P, c.l)
                                          ELSE Merge(P, c.l, c.r)
    BY <1>17 DEF GuardedBy
  <2>4. r.val /\ c.l # Fresh =>
            Agrees(IF Untracked(P, c.r) THEN MoveToSeparate(P, c.l) ELSE Merge(P, c.l, c.r), e)
    <3>1. {c.l, c.r} \subseteq (V \cap N) \cup {Fresh}
      BY <1>9, <1>17
    <3>. QED BY <1>8, <2>1, <3>1, ComparedSound
  <2>. QED BY <1>8, <1>13, <2>2, <2>3, <2>4
<1>18. CASE c.op = "ne"
  <2>1. ASSUME ~r.val, c.l # Fresh, c.r # Fresh PROVE e[c.l] = e[c.r]
    <3>1. ResultsBy(Results, c, e) = {Valued(~b, e) : b \in {e[c.l] = e[c.r]}}
      <4>1. Fresh \notin {c.l, c.r}
        BY <2>1
      <4>. QED BY <1>18, <4>1 DEF ResultsBy
    <3>2. r = Valued(~(e[c.l] = e[c.r]), e)
      BY <1>11, <3>1
    <3>. QED BY <2>1, <3>2 DEF Valued
  <2>2. GuardedBy(Guarded, c, FALSE, P) = P
    BY <1>18 DEF GuardedBy
  <2>3. GuardedBy(Guarded, c, TRUE, P) = IF c.l = Fresh THEN P
                                         ELSE IF Untracked(P, c.r) THEN MoveToSeparate(P, c.l)
                                         ELSE Merge(P, c.l, c.r)
    BY <1>18 DEF GuardedBy
  <2>4. ~r.val /\ c.l # Fresh =>
            Agrees(IF Untracked(P, c.r) THEN MoveToSeparate(P, c.l) ELSE Merge(P, c.l, c.r), e)
    <3>1. {c.l, c.r} \subseteq (V \cap N) \cup {Fresh}
      BY <1>9, <1>18
    <3>. QED BY <1>8, <2>1, <3>1, ComparedSound
  <2>. QED BY <1>8, <1>13, <2>2, <2>3, <2>4
<1>19. CASE c.op = "opaque"
  <2>1. GuardedBy(Guarded, c, TRUE, P) = P /\ GuardedBy(Guarded, c, FALSE, P) = P
    BY <1>19 DEF GuardedBy
  <2>. QED BY <1>8, <1>13, <2>1
<1>. QED BY <1>9, <1>10, <1>14, <1>15, <1>16, <1>17, <1>18, <1>19

-----------------------------------------------------------------------------
(* Scopes                                                                  *)

FitsScope(P, sc) == Fits(P, sc.visible, Tracked(sc))

\* The labels that have been declared when s has been executed.
Grown(s) ==
    s.scope.visible \cup
        (IF s.k = "decl" THEN {s.var} ELSE IF s.k = "list" THEN s.scope.pending ELSE {})

LEMMA TrackedIs ==
    ASSUME NEW sc \in Scopes
    PROVE  /\ Tracked(Inner(sc)) = Tracked(sc)
           /\ \A names : Tracked(Opened(sc, names)) = Tracked(sc) \cup names
           /\ \A exits : Tracked(Looped(sc, exits)) = Tracked(sc)
           /\ \A s : (s.k = "decl" => s.var \in sc.pending) => Tracked(Declaring(sc, s)) = Tracked(sc)
           /\ sc.visible \subseteq Tracked(sc) /\ Tracked(sc) \in SUBSET Labels
<1>1. Tracked(Inner(sc)) = Tracked(sc)
  BY InnerIs DEF Tracked
<1>2. ASSUME NEW names PROVE Tracked(Opened(sc, names)) = Tracked(sc) \cup names
  BY OpenedIs DEF Tracked
<1>3. ASSUME NEW exits PROVE Tracked(Looped(sc, exits)) = Tracked(sc)
  BY LoopedIs DEF Tracked
<1>4. ASSUME NEW s, s.k = "decl" => s.var \in sc.pending
      PROVE  Tracked(Declaring(sc, s)) = Tracked(sc)
  BY <1>4, DeclaringIs DEF Tracked
<1>5. sc.visible \subseteq Tracked(sc) /\ Tracked(sc) \in SUBSET Labels
  BY DEF Tracked, Scopes
<1>. QED BY <1>1, <1>2, <1>3, <1>4, <1>5

\* The scopes of the parts of each kind of statement.
LEMMA ListScopes ==
    ASSUME NEW s \in Statements, s.k = "list"
    PROVE  /\ s.first.scope.visible = s.scope.visible /\ Tracked(s.first.scope) = Tracked(s.scope)
           /\ s.rest.scope.visible = Grown(s.first) /\ Tracked(s.rest.scope) = Tracked(s.scope)
           /\ Grown(s.rest) \subseteq Grown(s)
<1>1. /\ s.scope \in Scopes /\ s.first \in Statements /\ s.rest \in Statements
      /\ s.first.scope = IF s.first.k = "decl" THEN s.scope ELSE Inner(s.scope)
      /\ s.rest.scope = Declaring(s.scope, s.first)
      /\ s.first.k # "list" /\ s.rest.k \in {"list", "none"}
  BY StatementKinds, ScopeIs DEF Under
<1>2. s.first.k = "decl" => s.first.var \in s.scope.pending
  BY <1>1, StatementKinds
<1>3. s.first.scope.visible = s.scope.visible /\ Tracked(s.first.scope) = Tracked(s.scope)
  BY <1>1, InnerIs, TrackedIs
<1>4. Tracked(s.rest.scope) = Tracked(s.scope)
  BY <1>1, <1>2, TrackedIs
<1>5. s.rest.scope.visible = Grown(s.first)
  BY <1>1, <1>3, DeclaringIs DEF Grown
<1>6. Grown(s.rest) \subseteq Grown(s)
  <2>1. s.rest.scope.pending \subseteq s.scope.pending
    BY <1>1, DeclaringIs
  <2>2. s.rest.scope.visible \subseteq s.scope.visible \cup s.scope.pending
    BY <1>1, <1>2, DeclaringIs
  <2>. QED BY <1>1, <2>1, <2>2 DEF Grown
<1>. QED BY <1>3, <1>4, <1>5, <1>6

LEMMA BlockScopes ==
    ASSUME NEW s \in Statements, s.k = "block"
    PROVE  /\ s.body.scope.visible = s.scope.visible
           /\ Tracked(s.body.scope) = Tracked(s.scope) \cup s.names
           /\ Grown(s.body) \subseteq s.scope.visible \cup s.names
           /\ s.names \in SUBSET Labels /\ s.names \cap Tracked(s.scope) = {}
<1>1. /\ s.scope \in Scopes /\ s.body.scope = Opened(s.scope, s.names)
      /\ s.body.k \in {"list", "none"} /\ s.names \cap Tracked(s.scope) = {}
  BY StatementKinds, ScopeIs DEF Under
<1>2. s.body.scope.visible = s.scope.visible /\ s.body.scope.pending = s.names
  BY <1>1, OpenedIs
<1>3. Tracked(s.body.scope) = Tracked(s.scope) \cup s.names
  BY <1>1, TrackedIs
<1>4. Grown(s.body) \subseteq s.scope.visible \cup s.names
  BY <1>1, <1>2 DEF Grown
<1>. QED BY <1>1, <1>2, <1>3, <1>4, Names

LEMMA IfScopes ==
    ASSUME NEW s \in Statements, s.k = "if"
    PROVE  /\ s.then.scope.visible = s.scope.visible /\ Tracked(s.then.scope) = Tracked(s.scope)
           /\ s.else.scope.visible = s.scope.visible /\ Tracked(s.else.scope) = Tracked(s.scope)
           /\ Grown(s.then) = s.scope.visible /\ Grown(s.else) = s.scope.visible
<1>1. /\ s.scope \in Scopes /\ s.then.scope = Inner(s.scope) /\ s.else.scope = Inner(s.scope)
      /\ s.then.k \notin {"decl", "list"} /\ s.else.k \notin {"decl", "list"}
  BY StatementKinds, ScopeIs DEF Under, Branch
<1>. QED BY <1>1, InnerIs, TrackedIs DEF Grown

LEMMA WhileScopes ==
    ASSUME NEW s \in Statements, s.k \in {"while", "dowhile"}
    PROVE  /\ s.body.scope.visible = s.scope.visible /\ Tracked(s.body.scope) = Tracked(s.scope)
           /\ Grown(s.body) = s.scope.visible
<1>1. /\ s.scope \in Scopes /\ s.body.scope = Looped(s.scope, ExitsOf(s))
      /\ s.body.k \notin {"decl", "list"}
  BY StatementKinds, ScopeIs DEF Under, Branch
<1>2. s.body.scope.visible = s.scope.visible
  BY <1>1, LoopedIs
<1>. QED BY <1>1, <1>2, TrackedIs DEF Grown

LEMMA ForScopes ==
    ASSUME NEW s \in Statements, s.k = "for"
    PROVE  /\ s.names \in SUBSET Labels /\ s.names \cap Tracked(s.scope) = {}
           /\ s.scope.visible \subseteq InFor(s).visible
           /\ InFor(s).visible \subseteq s.scope.visible \cup s.names
           /\ s.init.scope.visible = s.scope.visible
           /\ Tracked(s.init.scope) = Tracked(s.scope) \cup s.names /\ Grown(s.init) = InFor(s).visible
           /\ s.update.scope.visible = InFor(s).visible
           /\ Tracked(s.update.scope) = Tracked(s.scope) \cup s.names
           /\ Grown(s.update) = InFor(s).visible
           /\ s.body.scope.visible = InFor(s).visible
           /\ Tracked(s.body.scope) = Tracked(s.scope) \cup s.names
           /\ Grown(s.body) = InFor(s).visible
           /\ InFor(s) \in Scopes /\ Tracked(InFor(s)) = Tracked(s.scope) \cup s.names
<1>. DEFINE sc == Opened(s.scope, s.names)
<1>1. /\ s.names \cap Tracked(s.scope) = {} /\ s.init.k \in {"decl", "assign", "call"}
      /\ s.init \in Statements /\ s.init.scope = sc
      /\ s.update.k \in {"none", "assign", "call"} /\ s.update.scope = Inner(InFor(s))
      /\ s.body.k \notin {"decl", "list"} /\ s.body.scope = Looped(InFor(s), ExitsOf(s))
      /\ InFor(s) = Declaring(sc, s.init)
  BY ForKind DEF Under, Branch, InFor
<1>2. s.scope \in Scopes /\ sc \in Scopes
  <2>. HIDE DEF sc
  <2>1. ScopeOK(s.scope) /\ ScopeOK(s.init.scope)
    BY <1>1, StatementKinds
  <2>. QED BY <1>1, <2>1, ScopeIs
<1>3. sc.visible = s.scope.visible /\ sc.pending = s.names
  BY <1>2, OpenedIs
<1>4. Tracked(sc) = Tracked(s.scope) \cup s.names
  BY <1>2, TrackedIs
<1>. HIDE DEF sc
<1>5. s.init.k = "decl" => s.init.var \in sc.pending
  BY <1>1, StatementKinds
<1>6. InFor(s).visible = sc.visible \cup (IF s.init.k = "decl" THEN {s.init.var} ELSE {})
  BY <1>1, <1>2, DeclaringIs
<1>7. Tracked(InFor(s)) = Tracked(sc)
  BY <1>1, <1>2, <1>5, TrackedIs
<1>8. InFor(s) \in Scopes
  <2>1. sc.pending \in SUBSET Labels /\ sc.visible \in SUBSET Labels
    BY <1>2 DEF Scopes
  <2>2. CASE s.init.k = "decl"
    <3>1. sc.visible \cup {s.init.var} \in SUBSET Labels /\ sc.pending \ {s.init.var} \in SUBSET Labels
      BY <1>5, <2>1, <2>2
    <3>2. InFor(s) = [sc EXCEPT !.visible = sc.visible \cup {s.init.var},
                                !.pending = sc.pending \ {s.init.var}]
      BY <1>1, <2>2 DEF Declaring
    <3>. QED BY <1>2, <3>1, <3>2 DEF Scopes
  <2>3. CASE s.init.k # "decl"
    BY <1>1, <1>2, <2>3, DeclaringIs
  <2>. QED BY <2>2, <2>3
<1>9. Grown(s.init) = InFor(s).visible
  BY <1>1, <1>6 DEF Grown
<1>10. s.update.scope.visible = InFor(s).visible /\ Tracked(s.update.scope) = Tracked(InFor(s))
  BY <1>1, <1>8, InnerIs, TrackedIs
<1>11. s.body.scope.visible = InFor(s).visible /\ Tracked(s.body.scope) = Tracked(InFor(s))
  <2>1. s.body.scope.visible = InFor(s).visible
    BY <1>1, <1>8, LoopedIs
  <2>. QED BY <1>1, <1>8, <2>1, TrackedIs
<1>12. Grown(s.update) = InFor(s).visible /\ Grown(s.body) = InFor(s).visible
  BY <1>1, <1>10, <1>11 DEF Grown
<1>13. s.names \in SUBSET Labels
  BY Names
<1>. QED BY <1>1, <1>3, <1>4, <1>5, <1>6, <1>7, <1>8, <1>9, <1>10, <1>11, <1>12, <1>13

-----------------------------------------------------------------------------
(* The analysis keeps track of the labels in scope                         *)

\* What has been declared by s may be known after it; the same labels are tracked.
TracksScope(s) ==
    \A P : FitsScope(P, s.scope) => Fits(AfterAnalysis[s][P], Grown(s), Tracked(s.scope))

LEMMA JudgedFit ==
    ASSUME NEW c \in Conditions, NEW P, NEW V, NEW N, Fits(P, V, N), c.labels \subseteq V \cap N
    PROVE  Fits(Assume(c, P), V, N) /\ Fits(Refute(c, P), V, N)
<1>1. Fits(SeparateAll(P), V, N)
  BY FitsSeparate
<1>2. Fits(Guarded[c][TRUE][P], V, N) /\ Fits(Guarded[c][FALSE][P], V, N)
  BY GuardedFits
<1>. QED BY <1>1, <1>2 DEF Assume, Refute

\* The states of the parts of each kind of statement.
LEMMA ListFits ==
    ASSUME NEW s \in Statements, s.k = "list", NEW P, FitsScope(P, s.scope),
           TracksScope(s.first), TracksScope(s.rest)
    PROVE  /\ FitsScope(P, s.first.scope)
           /\ FitsScope(AfterAnalysis[s.first][P], s.rest.scope)
           /\ Fits(AfterAnalysis[s.rest][AfterAnalysis[s.first][P]], Grown(s), Tracked(s.scope))
<1>1. FitsScope(P, s.first.scope)
  BY ListScopes DEF FitsScope
<1>2. FitsScope(AfterAnalysis[s.first][P], s.rest.scope)
  BY <1>1, ListScopes DEF TracksScope, FitsScope
<1>3. Fits(AfterAnalysis[s.rest][AfterAnalysis[s.first][P]], Grown(s.rest), Tracked(s.scope))
  BY <1>2, ListScopes DEF TracksScope
<1>4. Grown(s.rest) \subseteq Grown(s)
  BY ListScopes
<1>. QED BY <1>1, <1>2, <1>3, <1>4, FitsMore

LEMMA BlockFits ==
    ASSUME NEW s \in Statements, s.k = "block", NEW P, FitsScope(P, s.scope), TracksScope(s.body)
    PROVE  /\ FitsScope(BeforeBody(AfterAnalysis, s, P), s.body.scope)
           /\ Fits(RemoveAll(AfterBody(AfterAnalysis, s, P), s.names), Grown(s), Tracked(s.scope))
<1>. DEFINE Q == BeforeBody(AfterAnalysis, s, P)
            N == Tracked(s.scope)
            V == s.scope.visible
<1>1. Q = InsertAll(P, s.names)
  BY DEF BeforeBody
<1>2. Fits(P, V, N)
  BY DEF FitsScope
<1>3. /\ s.body.scope.visible = V /\ Tracked(s.body.scope) = N \cup s.names
      /\ Grown(s.body) \subseteq V \cup s.names
      /\ s.names \in SUBSET Labels /\ s.names \cap N = {}
  BY BlockScopes
<1>. HIDE DEF N, V, Q
<1>4. Fits(Q, V, N \cup s.names)
  BY <1>1, <1>2, <1>3, FitsInsert
<1>5. FitsScope(Q, s.body.scope)
  BY <1>3, <1>4 DEF FitsScope
<1>6. Fits(AfterAnalysis[s.body][Q], Grown(s.body), N \cup s.names)
  BY <1>3, <1>5 DEF TracksScope
<1>7. Fits(AfterAnalysis[s.body][Q], V \cup s.names, N \cup s.names)
  BY <1>3, <1>6, FitsMore
<1>8. Fits(RemoveAll(AfterAnalysis[s.body][Q], s.names), V, N)
  BY <1>3, <1>7, FitsRemove
<1>9. Grown(s) = V /\ AfterBody(AfterAnalysis, s, P) = AfterAnalysis[s.body][Q]
  BY DEF Grown, V, AfterBody, Q
<1>. QED BY <1>5, <1>8, <1>9 DEF Q, N

LEMMA IfFits ==
    ASSUME NEW s \in Statements, s.k = "if", NEW P, FitsScope(P, s.scope),
           TracksScope(s.then), TracksScope(s.else)
    PROVE  /\ FitsScope(Assume(s.cond, P), s.then.scope) /\ FitsScope(Refute(s.cond, P), s.else.scope)
           /\ Fits(AfterAnalysis[s.then][Assume(s.cond, P)], s.scope.visible, Tracked(s.scope))
           /\ Fits(AfterAnalysis[s.else][Refute(s.cond, P)], s.scope.visible, Tracked(s.scope))
           /\ Fits(AfterIf(AfterAnalysis, s, P), Grown(s), Tracked(s.scope))
<1>1. s.cond \in Conditions /\ s.cond.labels \subseteq s.scope.visible \cap Tracked(s.scope)
  <2>1. s.scope \in Scopes
    BY StatementKinds, ScopeIs
  <2>. QED BY <2>1, StatementKinds, TrackedIs DEF Guards
<1>2. /\ Fits(Assume(s.cond, P), s.scope.visible, Tracked(s.scope))
      /\ Fits(Refute(s.cond, P), s.scope.visible, Tracked(s.scope))
  BY <1>1, JudgedFit DEF FitsScope
<1>3. FitsScope(Assume(s.cond, P), s.then.scope) /\ FitsScope(Refute(s.cond, P), s.else.scope)
  BY <1>2, IfScopes DEF FitsScope
<1>4. /\ Fits(AfterAnalysis[s.then][Assume(s.cond, P)], s.scope.visible, Tracked(s.scope))
      /\ Fits(AfterAnalysis[s.else][Refute(s.cond, P)], s.scope.visible, Tracked(s.scope))
  BY <1>3, IfScopes DEF TracksScope
<1>5. Fits(AfterIf(AfterAnalysis, s, P), s.scope.visible, Tracked(s.scope))
  BY <1>4, FitsJoin DEF AfterIf, FitsScope
<1>6. Grown(s) = s.scope.visible
  BY DEF Grown
<1>. QED BY <1>3, <1>4, <1>5, <1>6

LEMMA WhileFits ==
    ASSUME NEW s \in Statements, s.k \in {"while", "dowhile"}, NEW P, FitsScope(P, s.scope),
           TracksScope(s.body)
    PROVE  /\ s.cond \in Conditions /\ s.cond.labels \subseteq s.scope.visible \cap Tracked(s.scope)
           /\ Fits(LoopHead(s, P), s.scope.visible, Tracked(s.scope))
           /\ FitsScope(BeforeBody(AfterAnalysis, s, P), s.body.scope)
           /\ Fits(AfterBody(AfterAnalysis, s, P), s.scope.visible, Tracked(s.scope))
           /\ Fits(Refute(s.cond, LoopHead(s, P)), s.scope.visible, Tracked(s.scope))
           /\ Fits(Refute(s.cond, AfterBody(AfterAnalysis, s, P)), s.scope.visible, Tracked(s.scope))
           /\ Fits(AfterWhile(AfterAnalysis, s, P), s.scope.visible, Tracked(s.scope))
           /\ Grown(s) = s.scope.visible
<1>1. s.cond \in Conditions /\ s.cond.labels \subseteq s.scope.visible \cap Tracked(s.scope)
  <2>1. s.scope \in Scopes
    BY StatementKinds, ScopeIs
  <2>. QED BY <2>1, StatementKinds, TrackedIs DEF Guards
<1>2. Fits(LoopHead(s, P), s.scope.visible, Tracked(s.scope))
  BY FitsSeparate DEF LoopHead, FitsScope
<1>3. /\ Fits(Refute(s.cond, LoopHead(s, P)), s.scope.visible, Tracked(s.scope))
      /\ Fits(Assume(s.cond, LoopHead(s, P)), s.scope.visible, Tracked(s.scope))
  BY <1>1, <1>2, JudgedFit
<1>4. Fits(BeforeBody(AfterAnalysis, s, P), s.scope.visible, Tracked(s.scope))
  BY <1>2, <1>3 DEF BeforeBody, BeforeCond
<1>5. FitsScope(BeforeBody(AfterAnalysis, s, P), s.body.scope)
  BY <1>4, WhileScopes DEF FitsScope
<1>6. Fits(AfterBody(AfterAnalysis, s, P), s.scope.visible, Tracked(s.scope))
  BY <1>5, WhileScopes DEF TracksScope, AfterBody
<1>7. Fits(Refute(s.cond, AfterBody(AfterAnalysis, s, P)), s.scope.visible, Tracked(s.scope))
  BY <1>1, <1>6, JudgedFit
<1>8. Fits(AfterWhile(AfterAnalysis, s, P), s.scope.visible, Tracked(s.scope))
  BY <1>3, <1>7, FitsJoin DEF AfterWhile
<1>9. Grown(s) = s.scope.visible
  BY DEF Grown
<1>. QED BY <1>1, <1>2, <1>3, <1>5, <1>6, <1>7, <1>8, <1>9

LEMMA ForFits ==
    ASSUME NEW s \in Statements, s.k = "for", NEW P, FitsScope(P, s.scope),
           TracksScope(s.init), TracksScope(s.update), TracksScope(s.body),
           NEW V, V = InFor(s).visible, NEW N, N = Tracked(s.scope) \cup s.names
    PROVE  /\ s.cond \in Conditions /\ s.cond.labels \subseteq V \cap N
           /\ FitsScope(InsertAll(P, s.names), s.init.scope)
           /\ Fits(AfterInit(AfterAnalysis, s, P), V, N) /\ Fits(ForHead(AfterAnalysis, s, P), V, N)
           /\ FitsScope(BeforeBody(AfterAnalysis, s, P), s.body.scope)
           /\ Fits(AfterBody(AfterAnalysis, s, P), V, N)
           /\ FitsScope(AfterBody(AfterAnalysis, s, P), s.update.scope)
           /\ Fits(AfterUpdate(AfterAnalysis, s, P), V, N)
           /\ Fits(Refute(s.cond, AfterInit(AfterAnalysis, s, P)), V, N)
           /\ Fits(Refute(s.cond, AfterUpdate(AfterAnalysis, s, P)), V, N)
           /\ Fits(AfterFor(AfterAnalysis, s, P), Grown(s), Tracked(s.scope))
<1>1. s.cond \in Conditions /\ s.cond.labels \subseteq V \cap N
  <2>1. Guards(s.cond, InFor(s)) /\ InFor(s) \in Scopes /\ Tracked(InFor(s)) = N
    BY ForKind, ForScopes
  <2>2. InFor(s).visible \subseteq Tracked(InFor(s))
    BY <2>1, TrackedIs
  <2>. QED BY <2>1, <2>2 DEF Guards
<1>2. /\ s.names \in SUBSET Labels /\ s.names \cap Tracked(s.scope) = {}
      /\ s.scope.visible \subseteq V /\ V \subseteq s.scope.visible \cup s.names
      /\ s.init.scope.visible = s.scope.visible /\ Tracked(s.init.scope) = N /\ Grown(s.init) = V
      /\ s.update.scope.visible = V /\ Tracked(s.update.scope) = N /\ Grown(s.update) = V
      /\ s.body.scope.visible = V /\ Tracked(s.body.scope) = N /\ Grown(s.body) = V
  BY ForScopes
<1>3. Fits(InsertAll(P, s.names), s.scope.visible, N)
  BY <1>2, FitsInsert DEF FitsScope
<1>4. FitsScope(InsertAll(P, s.names), s.init.scope)
  BY <1>2, <1>3 DEF FitsScope
<1>5. Fits(AfterInit(AfterAnalysis, s, P), V, N)
  BY <1>2, <1>4 DEF TracksScope, AfterInit
<1>6. Fits(ForHead(AfterAnalysis, s, P), V, N)
  <2>1. Fits(SeparateAll(InsertAll(P, s.names)), V, N)
    BY <1>2, <1>3, FitsMore, FitsSeparate
  <2>. QED BY <1>5, <2>1 DEF ForHead
<1>7. BeforeBody(AfterAnalysis, s, P) = Assume(s.cond, ForHead(AfterAnalysis, s, P))
  BY DEF BeforeBody, BeforeCond
<1>8. FitsScope(BeforeBody(AfterAnalysis, s, P), s.body.scope)
  BY <1>1, <1>2, <1>6, <1>7, JudgedFit DEF FitsScope
<1>9. Fits(AfterBody(AfterAnalysis, s, P), V, N)
  BY <1>2, <1>8 DEF TracksScope, AfterBody
<1>10. FitsScope(AfterBody(AfterAnalysis, s, P), s.update.scope)
  BY <1>2, <1>9 DEF FitsScope
<1>11. Fits(AfterUpdate(AfterAnalysis, s, P), V, N)
  BY <1>2, <1>10 DEF TracksScope, AfterUpdate
<1>12. /\ Fits(Refute(s.cond, AfterInit(AfterAnalysis, s, P)), V, N)
       /\ Fits(Refute(s.cond, AfterUpdate(AfterAnalysis, s, P)), V, N)
  BY <1>1, <1>5, <1>11, JudgedFit
<1>13. Fits(AfterFor(AfterAnalysis, s, P), s.scope.visible, Tracked(s.scope))
  <2>. DEFINE J == Join(Refute(s.cond, AfterInit(AfterAnalysis, s, P)),
                        Refute(s.cond, AfterUpdate(AfterAnalysis, s, P)))
  <2>1. Fits(J, V, N)
    BY <1>12, FitsJoin
  <2>2. AfterFor(AfterAnalysis, s, P) = RemoveAll(J, s.names)
    BY DEF AfterFor
  <2>. HIDE DEF J
  <2>3. Fits(J, s.scope.visible \cup s.names, Tracked(s.scope) \cup s.names)
    BY <1>2, <2>1, FitsMore
  <2>. QED BY <1>2, <2>2, <2>3, FitsRemove
<1>14. Grown(s) = s.scope.visible
  BY DEF Grown
<1>. QED BY <1>1, <1>4, <1>5, <1>6, <1>8, <1>9, <1>10, <1>11, <1>12, <1>13, <1>14

\* The targets of a tuple are in scope, and so are its sources.
LEMMA MovesFit ==
    ASSUME NEW s \in Statements, s.k = "assign", NEW P, FitsScope(P, s.scope)
    PROVE  \A i \in 0..Len(s.lhs) : FitsScope(Moves(s.lhs, s.rhs, P)[i], s.scope)
<1>. DEFINE M == Moves(s.lhs, s.rhs, P)
            Bad == {i \in 0..Len(s.lhs) : ~FitsScope(M[i], s.scope)}
<1>1. SUFFICES ASSUME Bad # {} PROVE FALSE
  OBVIOUS
<1>2. s.lhs \in Seq(Labels) /\ P \in States /\ Len(s.lhs) \in Nat
  BY Sides DEF FitsScope, Fits
<1>3. /\ M[0] = P
      /\ \A i \in 1..Len(s.lhs) : M[i] = MoveOne(s.lhs, s.rhs, i, M[i - 1])
  BY <1>2, MovesAre
<1>. HIDE DEF M
<1>4. PICK i \in Bad : \A j \in Bad : i <= j
  <2>1. Bad \in SUBSET Nat
    OBVIOUS
  <2>. HIDE DEF Bad
  <2>. QED BY <1>1, <2>1, Least
<1>5. i \in 1..Len(s.lhs) /\ i - 1 \in 0..Len(s.lhs) /\ i - 1 \notin Bad
  <2>1. i \in 0..Len(s.lhs) /\ i # 0
    BY <1>3, <1>4
  <2>2. i - 1 \notin Bad
    <3>. HIDE DEF Bad
    <3>. QED BY <1>4, <2>1
  <2>. QED BY <1>2, <2>1, <2>2
<1>6. FitsScope(M[i - 1], s.scope)
  BY <1>5
<1>7. /\ s.lhs[i] \in s.scope.visible \cap Tracked(s.scope)
      /\ s.rhs[i] \in (s.scope.visible \cap Tracked(s.scope)) \cup {Fresh, Call}
  <2>1. s.scope \in Scopes
    BY StatementKinds, ScopeIs
  <2>2. s.scope.visible \subseteq Tracked(s.scope)
    BY <2>1, TrackedIs
  <2>. QED BY <1>5, <2>2, Sides
<1>8. FitsScope(MoveOne(s.lhs, s.rhs, i, M[i - 1]), s.scope)
  BY <1>6, <1>7, FitsMove DEF MoveOne, Untracked, FitsScope
<1>. QED BY <1>3, <1>4, <1>5, <1>8

\* after_analysis tracks the labels in scope.
LEMMA AfterFits ==
    \A s \in Statements : TracksScope(s)
<1>. DEFINE Bad == {s \in Statements : ~TracksScope(s)}
<1>1. SUFFICES ASSUME Bad # {} PROVE FALSE
  OBVIOUS
<1>2. PICK s \in Bad : \A t \in Statements : t.depth < s.depth => t \notin Bad
  <2>1. Bad \in SUBSET Statements
    OBVIOUS
  <2>. HIDE DEF Bad
  <2>. QED BY <1>1, <2>1, ShallowestStatement
<1>3. s \in Statements /\ ~TracksScope(s)
  BY <1>2
<1>4. \A t \in Statements : t.depth < s.depth => TracksScope(t)
  BY <1>2
<1>. HIDE DEF Bad
<1>5. PICK P : FitsScope(P, s.scope) /\ ~Fits(AfterAnalysis[s][P], Grown(s), Tracked(s.scope))
  BY <1>3 DEF TracksScope
<1>6. AfterAnalysis[s][P] = AfterBy(AfterAnalysis, s, P)
  BY <1>3, <1>5, AfterIs DEF FitsScope, Fits
<1>7. /\ s.k = "list" => TracksScope(s.first) /\ TracksScope(s.rest)
      /\ s.k \in {"block", "while", "dowhile", "for"} => TracksScope(s.body)
      /\ s.k = "if" => TracksScope(s.then) /\ TracksScope(s.else)
      /\ s.k = "for" => TracksScope(s.init) /\ TracksScope(s.update)
  BY <1>3, <1>4, Parts
<1>8. s.scope \in Scopes /\ s.scope.visible \subseteq Tracked(s.scope)
  <2>1. s.scope \in Scopes
    BY <1>3, StatementKinds, ScopeIs
  <2>. QED BY <2>1, TrackedIs
<1>9. CASE s.k = "assign"
  <2>. DEFINE Q == Separated(\E i \in DOMAIN s.rhs : s.rhs[i] = Call, P)
  <2>1. FitsScope(Q, s.scope)
    BY <1>5, FitsSeparate DEF FitsScope
  <2>2. AfterBy(AfterAnalysis, s, P) = Moved(s.lhs, s.rhs, Q)
    BY <1>9 DEF AfterBy
  <2>. HIDE DEF Q
  <2>3. Len(s.lhs) \in 0..Len(s.lhs)
    BY <1>3, <1>9, Sides
  <2>4. FitsScope(Moves(s.lhs, s.rhs, Q)[Len(s.lhs)], s.scope)
    BY <1>3, <1>9, <2>1, <2>3, MovesFit
  <2>5. Grown(s) = s.scope.visible
    BY <1>9 DEF Grown
  <2>. QED BY <1>5, <1>6, <2>2, <2>4, <2>5 DEF Moved, FitsScope
<1>10. CASE s.k = "decl"
  <2>1. /\ s.var \in s.scope.pending /\ s.rhs \in s.scope.visible \cup {Fresh, Call}
        /\ Grown(s) = s.scope.visible \cup {s.var}
    BY <1>3, <1>10, StatementKinds DEF Grown
  <2>2. Fits(P, Grown(s), Tracked(s.scope))
    BY <1>5, <2>1, FitsMore DEF FitsScope
  <2>3. s.var \in Grown(s) \cap Tracked(s.scope)
    BY <2>1 DEF Tracked
  <2>4. CASE s.rhs \in {Fresh, Call}
    <3>1. AfterBy(AfterAnalysis, s, P) = Separated(s.rhs = Call, P)
      BY <1>10, <2>4 DEF AfterBy, AfterDecl
    <3>. QED BY <1>5, <1>6, <2>2, <3>1, FitsSeparate
  <2>5. CASE s.rhs \notin {Fresh, Call}
    <3>1. AfterBy(AfterAnalysis, s, P) = Merge(P, s.var, s.rhs)
      BY <1>10, <2>5 DEF AfterBy, AfterDecl
    <3>2. s.rhs \in Grown(s) \cap Tracked(s.scope)
      BY <1>8, <2>1, <2>5
    <3>. QED BY <1>5, <1>6, <2>2, <2>3, <3>1, <3>2, FitsMerge
  <2>. QED BY <2>4, <2>5
<1>11. CASE s.k = "require"
  <2>. DEFINE Q == Separated(CondEffects[s.cond], P)
  <2>1. Fits(Q, s.scope.visible, Tracked(s.scope)) /\ Grown(s) = s.scope.visible
    BY <1>5, <1>11, FitsSeparate DEF FitsScope, Grown
  <2>2. AfterBy(AfterAnalysis, s, P) = AfterRequire(s.cond, Q)
    BY <1>11 DEF AfterBy
  <2>. HIDE DEF Q
  <2>3. s.cond \in Conditions /\ s.cond.labels \subseteq s.scope.visible
    BY <1>3, <1>11, StatementKinds DEF Guards
  <2>4. ASSUME s.cond.op = "eq", {s.cond.l, s.cond.r} \cap {Fresh, Call} = {}
        PROVE  Fits(Merge(Q, s.cond.l, s.cond.r), s.scope.visible, Tracked(s.scope))
    <3>0. {s.cond.l, s.cond.r} \subseteq s.cond.labels \cup {Fresh}
      BY <2>3, <2>4, ConditionParts
    <3>1. {s.cond.l, s.cond.r} \subseteq s.scope.visible
      BY <2>3, <2>4, <3>0
    <3>. QED BY <1>8, <2>1, <3>1, FitsMerge
  <2>. QED BY <1>5, <1>6, <2>1, <2>2, <2>4 DEF AfterRequire
<1>12. CASE s.k = "call"
  <2>1. AfterBy(AfterAnalysis, s, P) = SeparateAll(P) /\ Grown(s) = s.scope.visible
    BY <1>12 DEF AfterBy, Grown
  <2>. QED BY <1>5, <1>6, <2>1, FitsSeparate DEF FitsScope
<1>13. CASE s.k = "list"
  <2>1. AfterBy(AfterAnalysis, s, P) = AfterAnalysis[s.rest][AfterAnalysis[s.first][P]]
    BY <1>13 DEF AfterBy
  <2>. QED BY <1>3, <1>5, <1>6, <1>7, <1>13, <2>1, ListFits
<1>14. CASE s.k = "block"
  <2>1. AfterBy(AfterAnalysis, s, P) = RemoveAll(AfterBody(AfterAnalysis, s, P), s.names)
    BY <1>14 DEF AfterBy
  <2>. QED BY <1>3, <1>5, <1>6, <1>7, <1>14, <2>1, BlockFits
<1>15. CASE s.k = "if"
  <2>1. AfterBy(AfterAnalysis, s, P) = AfterIf(AfterAnalysis, s, P)
    BY <1>15 DEF AfterBy
  <2>. QED BY <1>3, <1>5, <1>6, <1>7, <1>15, <2>1, IfFits
<1>16. CASE s.k = "while"
  <2>1. AfterBy(AfterAnalysis, s, P) = AfterWhile(AfterAnalysis, s, P)
    BY <1>16 DEF AfterBy
  <2>. QED BY <1>3, <1>5, <1>6, <1>7, <1>16, <2>1, WhileFits
<1>17. CASE s.k = "dowhile"
  <2>1. AfterBy(AfterAnalysis, s, P) = Refute(s.cond, AfterBody(AfterAnalysis, s, P))
    BY <1>17 DEF AfterBy
  <2>. QED BY <1>3, <1>5, <1>6, <1>7, <1>17, <2>1, WhileFits
<1>18. CASE s.k = "for"
  <2>1. AfterBy(AfterAnalysis, s, P) = AfterFor(AfterAnalysis, s, P)
    BY <1>18 DEF AfterBy
  <2>2. Fits(AfterFor(AfterAnalysis, s, P), Grown(s), Tracked(s.scope))
    <3>1. PICK V, N : V = InFor(s).visible /\ N = Tracked(s.scope) \cup s.names
      OBVIOUS
    <3>. QED BY <1>3, <1>5, <1>7, <1>18, <3>1, ForFits
  <2>. QED BY <1>5, <1>6, <2>1, <2>2
<1>19. CASE s.k \in {"none", "return", "break", "continue"}
  <2>1. AfterBy(AfterAnalysis, s, P) = P /\ Grown(s) = s.scope.visible
    BY <1>19 DEF AfterBy, Grown
  <2>. QED BY <1>5, <1>6, <2>1 DEF FitsScope
<1>. QED BY <1>3, <1>9, <1>10, <1>11, <1>12, <1>13, <1>14, <1>15, <1>16, <1>17, <1>18, <1>19, StatementKinds

-----------------------------------------------------------------------------
(* The tasks that are left                                                 *)

\* The statements next to the condition of a for statement.
SimpleKinds == {"none", "decl", "assign", "call"}
Compounds == {"block", "if", "while", "dowhile", "for"}

Tasks == [s : Statements, before : States, at : {"start", "cond", "next", "end"}]

TaskOK(t) ==
    /\ FitsScope(t.before, t.s.scope)
    /\ t.at \in {"cond", "next"} => t.s.k \in Loops
    /\ t.at = "end" => t.s.k \in Compounds

\* In the middle of a loop.
Inside(t) == t.at \in {"next", "cond"}

\* t comes after u: below the body of a loop is the place where it is continued,
\* and below that the end of the loop.
Linked(u, t) ==
    /\ u.s.scope.loop =>
          IF t.at = "next" THEN u.s.scope.exits = ExitsOf(t.s)
          ELSE t.s.scope.loop /\ t.s.scope.exits = u.s.scope.exits
    /\ Inside(u) => t = Task(u.s, u.before, "end")
    /\ t.at = "end" /\ t.s.k \in Loops => Inside(u) /\ u.s = t.s
    /\ t.at = "cond" => u.at = "start" /\ u.s.k \in SimpleKinds

Shape(td) ==
    /\ td \in Seq(Tasks)
    /\ \A i \in 1..Len(td) : TaskOK(td[i]) /\ (i > 2 => td[i].at # "cond")
    /\ \A i \in 1..Len(td) : i < Len(td) => Linked(td[i], td[i + 1])
    /\ \A i \in 1..Len(td) : i = Len(td) => ~td[i].s.scope.loop /\ ~Inside(td[i])

\* The last of the tasks that replace t is where t was.
Replaces(u, t) ==
    /\ u.s.scope.loop = t.s.scope.loop /\ u.s.scope.exits = t.s.scope.exits
    /\ Inside(u) <=> Inside(t)
    /\ Inside(t) => u.s = t.s /\ u.before = t.before

\* The tasks new replace t.
Piece(new, t) ==
    /\ new \in Seq(Tasks) /\ new # <<>>
    /\ \A i \in 1..Len(new) : TaskOK(new[i]) /\ (i > 2 => new[i].at # "cond")
    /\ \A i \in 1..Len(new) : i < Len(new) => Linked(new[i], new[i + 1])
    /\ Replaces(new[Len(new)], t)

\* X is what is left when new has replaced the first task of td.
Spliced(td, new, X) ==
    /\ X \in Seq(Tasks) /\ Len(new) \in Nat \ {0} /\ Len(td) \in Nat \ {0}
    /\ Len(X) = Len(new) + Len(td) - 1
    /\ \A i \in 1..Len(new) : X[i] = new[i]
    /\ \A i \in 1..Len(X) : i > Len(new) =>
          i - Len(new) + 1 \in 2..Len(td) /\ X[i] = td[i - Len(new) + 1]

LEMMA SplicedIs ==
    ASSUME NEW td \in Seq(Tasks), td # <<>>, NEW new \in Seq(Tasks), new # <<>>
    PROVE  Spliced(td, new, new \o Tail(td))
<1>. DEFINE X == new \o Tail(td)
<1>1. Tail(td) \in Seq(Tasks) /\ Len(Tail(td)) = Len(td) - 1 /\ Len(td) \in Nat \ {0} /\ Len(new) \in Nat \ {0}
  OBVIOUS
<1>2. \A i \in 1..(Len(td) - 1) : Tail(td)[i] = td[i + 1]
  OBVIOUS
<1>3. X \in Seq(Tasks) /\ Len(X) = Len(new) + Len(Tail(td))
  BY <1>1
<1>4. \A i \in 1..Len(new) : X[i] = new[i]
  BY <1>1
<1>5. ASSUME NEW i \in 1..Len(X), i > Len(new)
      PROVE  i - Len(new) + 1 \in 2..Len(td) /\ X[i] = td[i - Len(new) + 1]
  <2>1. X[i] = Tail(td)[i - Len(new)]
    BY <1>1, <1>3, <1>5
  <2>2. i - Len(new) \in 1..(Len(td) - 1)
    BY <1>1, <1>3, <1>5
  <2>. QED BY <1>1, <1>2, <2>1, <2>2
<1>. QED BY <1>1, <1>3, <1>4, <1>5 DEF Spliced

\* The first task may be replaced.
LEMMA ShapePush ==
    ASSUME NEW td, Shape(td), td # <<>>, Len(td) >= 2 => td[2].at # "cond",
           NEW new, Piece(new, td[1]), NEW X, Spliced(td, new, X)
    PROVE  Shape(X)
<1>. DEFINE M == Len(new)
<1>2. /\ X \in Seq(Tasks) /\ M \in Nat \ {0} /\ Len(td) \in Nat \ {0}
      /\ Len(X) = M + Len(td) - 1
      /\ \A i \in 1..M : X[i] = new[i]
      /\ \A i \in 1..Len(X) : i > M => i - M + 1 \in 2..Len(td) /\ X[i] = td[i - M + 1]
  BY DEF Spliced
<1>2a. M \in Nat \ {0} /\ Len(td) \in Nat \ {0} /\ Len(X) = M + Len(td) - 1
  BY <1>2
<1>. HIDE DEF M
<1>3. ASSUME NEW i \in 1..Len(X) PROVE TaskOK(X[i]) /\ (i > 2 => X[i].at # "cond")
  <2>1. CASE i <= M
    <3>1. i \in 1..M /\ X[i] = new[i]
      BY <1>2, <2>1
    <3>. QED BY <3>1 DEF Piece, M
  <2>2. CASE i > M
    <3>. DEFINE j == i - M + 1
    <3>1. j \in 2..Len(td) /\ X[i] = td[j] /\ j \in 1..Len(td)
      BY <1>2, <2>2
    <3>2. j = 2 \/ j > 2
      BY <3>1
    <3>. HIDE DEF j
    <3>. QED BY <3>1, <3>2 DEF Shape
  <2>. QED BY <1>2, <2>1, <2>2
<1>4. ASSUME NEW i \in 1..Len(X), i < Len(X) PROVE Linked(X[i], X[i + 1])
  <2>1. CASE i < M
    <3>1. i \in 1..M /\ i + 1 \in 1..M /\ X[i] = new[i] /\ X[i + 1] = new[i + 1]
      BY <1>2, <2>1
    <3>. QED BY <2>1, <3>1 DEF Piece, M
  <2>2. CASE i = M
    <3>1. M \in 1..M /\ M + 1 \in 1..Len(X) /\ M + 1 > M /\ M + 1 - M + 1 = 2
      BY <1>2, <1>4, <2>2
    <3>2. X[i] = new[M] /\ X[i + 1] = td[2] /\ 2 <= Len(td)
      BY <1>2, <2>2, <3>1
    <3>3. Linked(td[1], td[2])
      <4>1. 1 \in 1..Len(td) /\ 1 < Len(td) /\ 1 + 1 = 2
        BY <1>2, <3>2
      <4>. QED BY <4>1 DEF Shape
    <3>4. td[2].at # "cond"
      BY <1>2, <3>2
    <3>5. Replaces(new[M], td[1])
      BY DEF Piece, M
    <3>6. Linked(new[M], td[2])
      BY <3>3, <3>4, <3>5 DEF Linked, Replaces
    <3>. QED BY <3>2, <3>6
  <2>3. CASE i > M
    <3>. DEFINE j == i - M + 1
    <3>1. j \in 2..Len(td) /\ X[i] = td[j] /\ j \in 1..Len(td)
      BY <1>2, <2>3
    <3>2. X[i + 1] = td[j + 1] /\ j < Len(td)
      <4>1. i + 1 \in 1..Len(X) /\ i + 1 > M /\ (i + 1) - M + 1 = j + 1
        BY <1>2, <1>4, <2>3
      <4>2. j + 1 \in 2..Len(td) /\ X[i + 1] = td[j + 1]
        BY <1>2, <4>1
      <4>3. i - M + 1 < Len(td)
        BY <1>2a, <1>4
      <4>. QED BY <4>2, <4>3
    <3>. HIDE DEF j
    <3>. QED BY <3>1, <3>2 DEF Shape
  <2>. QED BY <1>2a, <2>1, <2>2, <2>3
<1>5. ASSUME NEW i \in 1..Len(X), i = Len(X) PROVE ~X[i].s.scope.loop /\ ~Inside(X[i])
  <2>1. CASE Len(td) = 1
    <3>1. i = M /\ X[i] = new[M]
      BY <1>2, <1>5, <2>1
    <3>2. ~td[1].s.scope.loop /\ ~Inside(td[1])
      BY <2>1 DEF Shape
    <3>3. Replaces(new[M], td[1])
      BY DEF Piece, M
    <3>. QED BY <3>1, <3>2, <3>3 DEF Replaces
  <2>2. CASE Len(td) # 1
    <3>1. i > M /\ i - M + 1 = Len(td)
      BY <1>2a, <1>5, <2>2
    <3>2. X[i] = td[Len(td)] /\ Len(td) \in 1..Len(td)
      BY <1>2, <3>1
    <3>. QED BY <3>2 DEF Shape
  <2>. QED BY <2>1, <2>2
<1>. QED BY <1>2, <1>3, <1>4, <1>5 DEF Shape

\* X is what is left of td when the tasks before the m-th have been left.
Left(td, m, X) ==
    /\ X \in Seq(Tasks) /\ Len(X) = Len(td) - m + 1
    /\ \A i \in 1..Len(X) : i + m - 1 \in 1..Len(td) /\ X[i] = td[i + m - 1]

LEMMA LeftIs ==
    ASSUME NEW td \in Seq(Tasks), td # <<>>
    PROVE  /\ Left(td, 2, Tail(td))
           /\ \A m \in 1..Len(td) : Left(td, m, SubSeq(td, m, Len(td)))
<1>1. Len(td) \in Nat \ {0}
  OBVIOUS
<1>2. Left(td, 2, Tail(td))
  <2>1. Tail(td) \in Seq(Tasks) /\ Len(Tail(td)) = Len(td) - 1
    BY <1>1
  <2>2. ASSUME NEW i \in 1..Len(Tail(td))
        PROVE  i + 2 - 1 \in 1..Len(td) /\ Tail(td)[i] = td[i + 2 - 1]
    <3>1. i + 1 = i + 2 - 1 /\ i \in 1..(Len(td) - 1)
      BY <1>1, <2>1
    <3>2. Tail(td)[i] = td[i + 1]
      BY <1>1, <3>1
    <3>. QED BY <1>1, <3>1, <3>2
  <2>. QED BY <1>1, <2>1, <2>2 DEF Left
<1>3. ASSUME NEW m \in 1..Len(td) PROVE Left(td, m, SubSeq(td, m, Len(td)))
  <2>. DEFINE X == SubSeq(td, m, Len(td))
  <2>1. X \in Seq(Tasks) /\ Len(X) = Len(td) - m + 1
    BY <1>1
  <2>2. \A i \in 1..Len(X) : i + m - 1 \in 1..Len(td)
    BY <1>1, <2>1
  <2>3. ASSUME NEW i \in 1..Len(X) PROVE X[i] = td[i + m - 1]
    BY <1>1, <2>1
  <2>. QED BY <2>1, <2>2, <2>3 DEF Left
<1>. QED BY <1>2, <1>3

LEMMA ShapeLeft ==
    ASSUME NEW td, Shape(td), NEW m \in Nat \ {0}, NEW X, Left(td, m, X)
    PROVE  Shape(X)
<1>1. /\ X \in Seq(Tasks) /\ Len(td) \in Nat /\ Len(X) = Len(td) - m + 1
      /\ \A i \in 1..Len(X) : i + m - 1 \in 1..Len(td) /\ X[i] = td[i + m - 1]
  BY DEF Left, Shape
<1>2. Len(td) \in Nat /\ Len(X) = Len(td) - m + 1
  BY <1>1
<1>3. ASSUME NEW i \in 1..Len(X)
      PROVE  /\ TaskOK(X[i]) /\ (i > 2 => X[i].at # "cond")
             /\ i < Len(X) => Linked(X[i], X[i + 1])
             /\ i = Len(X) => ~X[i].s.scope.loop /\ ~Inside(X[i])
  <2>. DEFINE j == i + m - 1
  <2>1. j \in 1..Len(td) /\ X[i] = td[j]
    BY <1>1
  <2>2. i < Len(X) => j < Len(td) /\ X[i + 1] = td[j + 1]
    <3>1. ASSUME i < Len(X) PROVE i + 1 \in 1..Len(X) /\ (i + 1) + m - 1 = j + 1 /\ j < Len(td)
      BY <1>2, <3>1
    <3>2. ASSUME i < Len(X) PROVE X[i + 1] = td[j + 1] /\ j < Len(td)
      BY <1>1, <3>1, <3>2
    <3>. QED BY <3>2
  <2>3. i = Len(X) => j = Len(td)
    BY <1>2
  <2>4. i > 2 => j > 2
    BY <1>2
  <2>. HIDE DEF j
  <2>. QED BY <2>1, <2>2, <2>3, <2>4 DEF Shape
<1>. QED BY <1>1, <1>3 DEF Shape

\* What is known of the first task.
LEMMA FirstTask ==
    ASSUME NEW td, Shape(td), td # <<>>, NEW t, t = Head(td)
    PROVE  /\ td \in Seq(Tasks) /\ Len(td) \in Nat \ {0} /\ t = td[1]
           /\ t \in Tasks /\ t.s \in Statements /\ t.before \in States /\ TaskOK(t)
           /\ t = Task(t.s, t.before, t.at)
           /\ (t.at # "start" \/ t.s.k \notin SimpleKinds) /\ Len(td) >= 2 => td[2].at # "cond"
<1>1. td \in Seq(Tasks) /\ Len(td) \in Nat \ {0} /\ t = td[1] /\ 1 \in 1..Len(td)
  BY DEF Shape
<1>2. t \in Tasks /\ TaskOK(t)
  BY <1>1 DEF Shape
<1>3. t.s \in Statements /\ t.before \in States /\ t = Task(t.s, t.before, t.at)
  BY <1>2 DEF Tasks, Task
<1>4. Len(td) >= 2 => Linked(t, td[2])
  <2>1. Len(td) >= 2 => 1 < Len(td) /\ 1 + 1 = 2
    BY <1>1
  <2>. QED BY <1>1, <2>1 DEF Shape
<1>. QED BY <1>1, <1>2, <1>3, <1>4 DEF Linked

\* Parts other than the body of a loop are in the same loop.
LEMMA PartLoops ==
    ASSUME NEW s \in Statements
    PROVE  /\ s.scope.loop \in BOOLEAN
           /\ s.k = "list" => /\ s.first.scope.loop = s.scope.loop /\ s.first.scope.exits = s.scope.exits
                              /\ s.rest.scope.loop = s.scope.loop /\ s.rest.scope.exits = s.scope.exits
           /\ s.k = "block" => s.body.scope.loop = s.scope.loop /\ s.body.scope.exits = s.scope.exits
           /\ s.k = "if" => /\ s.then.scope.loop = s.scope.loop /\ s.then.scope.exits = s.scope.exits
                            /\ s.else.scope.loop = s.scope.loop /\ s.else.scope.exits = s.scope.exits
           /\ s.k = "for" => /\ s.init.scope.loop = s.scope.loop /\ s.init.scope.exits = s.scope.exits
                             /\ s.update.scope.loop = s.scope.loop
                             /\ s.update.scope.exits = s.scope.exits
           /\ s.k \in Loops => s.body.scope.loop /\ s.body.scope.exits = ExitsOf(s)
<1>1. s.scope \in Scopes /\ s.scope.loop \in BOOLEAN
  BY StatementKinds, ScopeIs
<1>2. CASE s.k = "list"
  <2>1. /\ s.first.scope = IF s.first.k = "decl" THEN s.scope ELSE Inner(s.scope)
        /\ s.rest.scope = Declaring(s.scope, s.first)
    BY <1>2, StatementKinds DEF Under
  <2>2. s.first.scope.loop = s.scope.loop /\ s.first.scope.exits = s.scope.exits
    BY <1>1, <2>1, InnerIs
  <2>3. s.rest.scope.loop = s.scope.loop /\ s.rest.scope.exits = s.scope.exits
    BY <1>1, <2>1, DeclaringIs
  <2>. QED BY <1>1, <1>2, <2>2, <2>3 DEF Loops
<1>3. CASE s.k = "block"
  <2>1. s.body.scope = Opened(s.scope, s.names)
    BY <1>3, StatementKinds DEF Under
  <2>. QED BY <1>1, <1>3, <2>1, OpenedIs DEF Loops
<1>4. CASE s.k = "if"
  <2>1. s.then.scope = Inner(s.scope) /\ s.else.scope = Inner(s.scope)
    BY <1>4, StatementKinds DEF Under, Branch
  <2>. QED BY <1>1, <1>4, <2>1, InnerIs DEF Loops
<1>5. CASE s.k = "for"
  <2>1. /\ s.init.scope = Opened(s.scope, s.names) /\ s.update.scope = Inner(InFor(s))
        /\ s.body.scope = Looped(InFor(s), ExitsOf(s))
        /\ InFor(s) = Declaring(s.init.scope, s.init)
    BY <1>5, ForKind DEF Under, Branch, InFor
  <2>2. InFor(s) \in Scopes /\ s.init.scope \in Scopes
    BY <1>5, ForScopes, ForKind, StatementKinds, ScopeIs DEF Under
  <2>3. s.init.scope.loop = s.scope.loop /\ s.init.scope.exits = s.scope.exits
    BY <1>1, <2>1, OpenedIs
  <2>4. InFor(s).loop = s.scope.loop /\ InFor(s).exits = s.scope.exits
    BY <2>1, <2>2, <2>3, DeclaringIs
  <2>5. s.update.scope.loop = s.scope.loop /\ s.update.scope.exits = s.scope.exits
    BY <2>1, <2>2, <2>4, InnerIs
  <2>6. s.body.scope.loop /\ s.body.scope.exits = ExitsOf(s)
    BY <2>1, <2>2, LoopedIs
  <2>. QED BY <1>1, <1>5, <2>3, <2>5, <2>6
<1>6. CASE s.k \in {"while", "dowhile"}
  <2>1. s.body.scope = Looped(s.scope, ExitsOf(s))
    BY <1>6, StatementKinds DEF Under, Branch
  <2>2. s.body.scope.loop /\ s.body.scope.exits = ExitsOf(s)
    BY <1>1, <2>1, LoopedIs
  <2>. QED BY <1>1, <1>6, <2>2 DEF Loops
<1>7. CASE s.k \notin {"list", "block", "if", "for", "while", "dowhile"}
  BY <1>1, <1>7 DEF Loops
<1>. QED BY <1>2, <1>3, <1>4, <1>5, <1>6, <1>7

\* One, two or three tasks replace a task.
LEMMA Pieces1 ==
    ASSUME NEW t, NEW u \in Tasks, TaskOK(u), Replaces(u, t)
    PROVE  Piece(<<u>>, t)
<1>. DEFINE X == <<u>>
<1>1. X \in Seq(Tasks) /\ Len(X) = 1 /\ X # <<>> /\ X[1] = u
  OBVIOUS
<1>2. \A i \in 1..Len(X) : i = 1
  BY <1>1
<1>. HIDE DEF X
<1>3. Piece(X, t)
  BY <1>1, <1>2 DEF Piece
<1>. QED BY <1>3 DEF X

LEMMA Pieces2 ==
    ASSUME NEW t, NEW u \in Tasks, NEW v \in Tasks, TaskOK(u), TaskOK(v), Linked(u, v), Replaces(v, t)
    PROVE  Piece(<<u, v>>, t)
<1>. DEFINE X == <<u, v>>
<1>1. X \in Seq(Tasks) /\ Len(X) = 2 /\ X # <<>> /\ X[1] = u /\ X[2] = v
  OBVIOUS
<1>2. \A i \in 1..Len(X) : i = 1 \/ i = 2
  BY <1>1
<1>. HIDE DEF X
<1>3. \A i \in 1..Len(X) : TaskOK(X[i]) /\ (i > 2 => X[i].at # "cond")
  BY <1>1, <1>2
<1>4. \A i \in 1..Len(X) : i < Len(X) => Linked(X[i], X[i + 1])
  BY <1>1, <1>2
<1>5. Piece(X, t)
  BY <1>1, <1>3, <1>4 DEF Piece
<1>. QED BY <1>5 DEF X

LEMMA Pieces3 ==
    ASSUME NEW t, NEW u \in Tasks, NEW v \in Tasks, NEW w \in Tasks,
           TaskOK(u), TaskOK(v), TaskOK(w), Linked(u, v), Linked(v, w), w.at # "cond", Replaces(w, t)
    PROVE  Piece(<<u, v, w>>, t)
<1>. DEFINE X == <<u, v, w>>
<1>1. X \in Seq(Tasks) /\ Len(X) = 3 /\ X # <<>> /\ X[1] = u /\ X[2] = v /\ X[3] = w
  OBVIOUS
<1>2. \A i \in 1..Len(X) : i = 1 \/ i = 2 \/ i = 3
  BY <1>1
<1>. HIDE DEF X
<1>3. \A i \in 1..Len(X) : TaskOK(X[i]) /\ (i > 2 => X[i].at # "cond")
  BY <1>1, <1>2
<1>4. \A i \in 1..Len(X) : i < Len(X) => Linked(X[i], X[i + 1])
  BY <1>1, <1>2
<1>5. Piece(X, t)
  BY <1>1, <1>3, <1>4 DEF Piece
<1>. QED BY <1>5 DEF X

\* What tasks consist of.
LEMMA TaskIs ==
    ASSUME NEW s, NEW P
    PROVE  /\ \A at : Task(s, P, at).s = s /\ Task(s, P, at).before = P /\ Task(s, P, at).at = at
           /\ Start(s, P).s = s /\ Start(s, P).before = P /\ Start(s, P).at = "start"
           /\ ~Inside(Start(s, P)) /\ ~Inside(Task(s, P, "end"))
           /\ Inside(Task(s, P, "next")) /\ Inside(Task(s, P, "cond"))
           /\ s \in Statements /\ P \in States =>
                 /\ Start(s, P) \in Tasks
                 /\ \A at \in {"start", "cond", "next", "end"} : Task(s, P, at) \in Tasks
BY DEF Task, Start, Inside, Tasks

\* The tasks that replace a compound statement at its start.
LEMMA ListPiece ==
    ASSUME NEW t \in Tasks, TaskOK(t), t.at = "start", t.s.k = "list"
    PROVE  Piece(<<Start(t.s.first, t.before), Start(t.s.rest, AfterAnalysis[t.s.first][t.before])>>, t)
<1>. DEFINE u == Start(t.s.first, t.before)
            v == Start(t.s.rest, AfterAnalysis[t.s.first][t.before])
<1>1. t.s \in Statements /\ t.before \in States /\ FitsScope(t.before, t.s.scope)
  BY DEF Tasks, TaskOK
<1>2. t.s.first \in Statements /\ t.s.rest \in Statements
  BY <1>1, Parts
<1>3. /\ FitsScope(t.before, t.s.first.scope)
      /\ FitsScope(AfterAnalysis[t.s.first][t.before], t.s.rest.scope)
  BY <1>1, <1>2, ListFits, AfterFits
<1>4. AfterAnalysis[t.s.first][t.before] \in States
  BY <1>3 DEF FitsScope, Fits
<1>5. /\ u \in Tasks /\ u.s = t.s.first /\ u.before = t.before /\ u.at = "start" /\ ~Inside(u)
      /\ v \in Tasks /\ v.s = t.s.rest /\ v.before = AfterAnalysis[t.s.first][t.before]
      /\ v.at = "start" /\ ~Inside(v)
  BY <1>1, <1>2, <1>4, TaskIs
<1>6. TaskOK(u) /\ TaskOK(v)
  <2>. HIDE DEF u, v
  <2>. QED BY <1>3, <1>5 DEF TaskOK
<1>7. /\ t.s.first.scope.loop = t.s.scope.loop /\ t.s.first.scope.exits = t.s.scope.exits
      /\ t.s.rest.scope.loop = t.s.scope.loop /\ t.s.rest.scope.exits = t.s.scope.exits
  BY <1>1, PartLoops
<1>. HIDE DEF u, v
<1>8. Linked(u, v)
  BY <1>5, <1>7 DEF Linked
<1>9. Replaces(v, t)
  BY <1>5, <1>7 DEF Replaces, Inside
<1>10. Piece(<<u, v>>, t)
  BY <1>5, <1>6, <1>8, <1>9, Pieces2
<1>. QED BY <1>10 DEF u, v

LEMMA BlockPiece ==
    ASSUME NEW t \in Tasks, TaskOK(t), t.at = "start", t.s.k = "block"
    PROVE  Piece(<<Start(t.s.body, BeforeBody(AfterAnalysis, t.s, t.before)),
                   Task(t.s, t.before, "end")>>, t)
<1>. DEFINE u == Start(t.s.body, BeforeBody(AfterAnalysis, t.s, t.before))
            v == Task(t.s, t.before, "end")
<1>1. t.s \in Statements /\ t.before \in States /\ FitsScope(t.before, t.s.scope)
  BY DEF Tasks, TaskOK
<1>2. t.s.body \in Statements
  BY <1>1, Parts
<1>3. FitsScope(BeforeBody(AfterAnalysis, t.s, t.before), t.s.body.scope)
  BY <1>1, <1>2, BlockFits, AfterFits
<1>4. BeforeBody(AfterAnalysis, t.s, t.before) \in States
  BY <1>3 DEF FitsScope, Fits
<1>5. /\ u \in Tasks /\ u.s = t.s.body /\ u.before = BeforeBody(AfterAnalysis, t.s, t.before)
      /\ u.at = "start" /\ ~Inside(u)
      /\ v \in Tasks /\ v.s = t.s /\ v.before = t.before /\ v.at = "end" /\ ~Inside(v)
  BY <1>1, <1>2, <1>4, TaskIs
<1>6. TaskOK(u) /\ TaskOK(v)
  <2>. HIDE DEF u, v
  <2>. QED BY <1>1, <1>3, <1>5 DEF TaskOK, Compounds
<1>7. t.s.body.scope.loop = t.s.scope.loop /\ t.s.body.scope.exits = t.s.scope.exits
  BY <1>1, PartLoops
<1>. HIDE DEF u, v
<1>8. Linked(u, v)
  BY <1>5, <1>7 DEF Linked, Loops
<1>9. Replaces(v, t)
  BY <1>5 DEF Replaces, Inside
<1>10. Piece(<<u, v>>, t)
  BY <1>5, <1>6, <1>8, <1>9, Pieces2
<1>. QED BY <1>10 DEF u, v

LEMMA IfPieces ==
    ASSUME NEW t \in Tasks, TaskOK(t), t.at = "start", t.s.k = "if"
    PROVE  /\ Piece(<<Start(t.s.then, Assume(t.s.cond, t.before)), Task(t.s, t.before, "end")>>, t)
           /\ Piece(<<Task(t.s, t.before, "end")>>, t)
           /\ Piece(<<Start(t.s.else, Refute(t.s.cond, t.before)), Task(t.s, t.before, "end")>>, t)
<1>. DEFINE u == Start(t.s.then, Assume(t.s.cond, t.before))
            v == Start(t.s.else, Refute(t.s.cond, t.before))
            w == Task(t.s, t.before, "end")
<1>1. t.s \in Statements /\ t.before \in States /\ FitsScope(t.before, t.s.scope)
  BY DEF Tasks, TaskOK
<1>2. t.s.then \in Statements /\ t.s.else \in Statements
  BY <1>1, Parts
<1>3. /\ FitsScope(Assume(t.s.cond, t.before), t.s.then.scope)
      /\ FitsScope(Refute(t.s.cond, t.before), t.s.else.scope)
  BY <1>1, <1>2, IfFits, AfterFits
<1>4. Assume(t.s.cond, t.before) \in States /\ Refute(t.s.cond, t.before) \in States
  BY <1>3 DEF FitsScope, Fits
<1>5. /\ u \in Tasks /\ u.s = t.s.then /\ u.before = Assume(t.s.cond, t.before)
      /\ u.at = "start" /\ ~Inside(u)
      /\ v \in Tasks /\ v.s = t.s.else /\ v.before = Refute(t.s.cond, t.before)
      /\ v.at = "start" /\ ~Inside(v)
      /\ w \in Tasks /\ w.s = t.s /\ w.before = t.before /\ w.at = "end" /\ ~Inside(w)
  BY <1>1, <1>2, <1>4, TaskIs
<1>6. TaskOK(u) /\ TaskOK(v) /\ TaskOK(w)
  <2>. HIDE DEF u, v, w
  <2>. QED BY <1>1, <1>3, <1>5 DEF TaskOK, Compounds
<1>7. /\ t.s.then.scope.loop = t.s.scope.loop /\ t.s.then.scope.exits = t.s.scope.exits
      /\ t.s.else.scope.loop = t.s.scope.loop /\ t.s.else.scope.exits = t.s.scope.exits
  BY <1>1, PartLoops
<1>. HIDE DEF u, v, w
<1>8. Linked(u, w) /\ Linked(v, w)
  BY <1>5, <1>7 DEF Linked, Loops
<1>9. Replaces(w, t)
  BY <1>5 DEF Replaces, Inside
<1>10. Piece(<<u, w>>, t) /\ Piece(<<v, w>>, t) /\ Piece(<<w>>, t)
  BY <1>5, <1>6, <1>8, <1>9, Pieces1, Pieces2
<1>. QED BY <1>10 DEF u, v, w

\* The body of a loop and the places after it.
LEMMA LoopTasks ==
    ASSUME NEW s \in Statements, s.k \in Loops, NEW P, FitsScope(P, s.scope),
           NEW b, b = Start(s.body, BeforeBody(AfterAnalysis, s, P)),
           NEW c, c = Task(s, P, "cond"), NEW n, n = Task(s, P, "next"), NEW e, e = Task(s, P, "end")
    PROVE  /\ b \in Tasks /\ b.s = s.body /\ b.before = BeforeBody(AfterAnalysis, s, P)
           /\ b.at = "start" /\ TaskOK(b) /\ ~Inside(b)
           /\ c \in Tasks /\ c.s = s /\ c.before = P /\ c.at = "cond" /\ TaskOK(c) /\ Inside(c)
           /\ n \in Tasks /\ n.s = s /\ n.before = P /\ n.at = "next" /\ TaskOK(n) /\ Inside(n)
           /\ e \in Tasks /\ e.s = s /\ e.before = P /\ e.at = "end" /\ TaskOK(e) /\ ~Inside(e)
           /\ Linked(b, n) /\ Linked(n, e) /\ Linked(c, e)
<1>1. s.body \in Statements /\ P \in States
  BY Parts DEF Loops, FitsScope, Fits
<1>2. FitsScope(BeforeBody(AfterAnalysis, s, P), s.body.scope)
  <2>1. CASE s.k = "for"
    <3>1. PICK V, N : V = InFor(s).visible /\ N = Tracked(s.scope) \cup s.names
      OBVIOUS
    <3>. QED BY <2>1, <3>1, ForFits, AfterFits, Parts
  <2>2. CASE s.k \in {"while", "dowhile"}
    BY <1>1, <2>2, WhileFits, AfterFits
  <2>. QED BY <2>1, <2>2 DEF Loops
<1>3. BeforeBody(AfterAnalysis, s, P) \in States
  BY <1>2 DEF FitsScope, Fits
<1>4. /\ b \in Tasks /\ b.s = s.body /\ b.before = BeforeBody(AfterAnalysis, s, P)
      /\ b.at = "start" /\ ~Inside(b)
      /\ c \in Tasks /\ c.s = s /\ c.before = P /\ c.at = "cond" /\ Inside(c)
      /\ n \in Tasks /\ n.s = s /\ n.before = P /\ n.at = "next" /\ Inside(n)
      /\ e \in Tasks /\ e.s = s /\ e.before = P /\ e.at = "end" /\ ~Inside(e)
  BY <1>1, <1>3, TaskIs
<1>5. TaskOK(b) /\ TaskOK(c) /\ TaskOK(n) /\ TaskOK(e)
  BY <1>2, <1>4 DEF TaskOK, Loops, Compounds
<1>6. s.body.scope.loop /\ s.body.scope.exits = ExitsOf(s)
  BY PartLoops
<1>7. Linked(b, n)
  BY <1>4, <1>6 DEF Linked
<1>8. Linked(n, e) /\ Linked(c, e)
  BY <1>4 DEF Linked
<1>. QED BY <1>4, <1>5, <1>7, <1>8

\* The tasks that replace a loop at its start, condition or end of the body.
LEMMA WhilePieces ==
    ASSUME NEW t \in Tasks, TaskOK(t), t.at = "start"
    PROVE  /\ t.s.k = "while" =>
                 Piece(<<Task(t.s, t.before, "cond"), Task(t.s, t.before, "end")>>, t)
           /\ t.s.k = "dowhile" =>
                 Piece(<<Start(t.s.body, BeforeBody(AfterAnalysis, t.s, t.before)),
                         Task(t.s, t.before, "next"), Task(t.s, t.before, "end")>>, t)
<1>1. SUFFICES ASSUME t.s.k \in {"while", "dowhile"}
               PROVE  /\ Piece(<<Task(t.s, t.before, "cond"), Task(t.s, t.before, "end")>>, t)
                      /\ Piece(<<Start(t.s.body, BeforeBody(AfterAnalysis, t.s, t.before)),
                                 Task(t.s, t.before, "next"), Task(t.s, t.before, "end")>>, t)
  OBVIOUS
<1>2. t.s \in Statements /\ t.s.k \in Loops /\ FitsScope(t.before, t.s.scope)
  BY <1>1 DEF Tasks, TaskOK, Loops
<1>3. PICK b, c, n, e : /\ b = Start(t.s.body, BeforeBody(AfterAnalysis, t.s, t.before))
                        /\ c = Task(t.s, t.before, "cond") /\ n = Task(t.s, t.before, "next")
                        /\ e = Task(t.s, t.before, "end")
  OBVIOUS
<1>4. /\ b \in Tasks /\ TaskOK(b) /\ c \in Tasks /\ TaskOK(c) /\ n \in Tasks /\ TaskOK(n)
      /\ e \in Tasks /\ TaskOK(e) /\ e.s = t.s /\ e.at = "end" /\ ~Inside(e)
      /\ Linked(b, n) /\ Linked(n, e) /\ Linked(c, e)
  BY <1>2, <1>3, LoopTasks
<1>5. Replaces(e, t)
  BY <1>4 DEF Replaces, Inside
<1>6. Piece(<<c, e>>, t)
  BY <1>4, <1>5, Pieces2
<1>7. Piece(<<b, n, e>>, t)
  BY <1>4, <1>5, Pieces3
<1>. QED BY <1>3, <1>6, <1>7

LEMMA ForPiece ==
    ASSUME NEW t \in Tasks, TaskOK(t), t.at = "start", t.s.k = "for"
    PROVE  Piece(<<Start(t.s.init, InsertAll(t.before, t.s.names)), Task(t.s, t.before, "cond"),
                   Task(t.s, t.before, "end")>>, t)
<1>. DEFINE u == Start(t.s.init, InsertAll(t.before, t.s.names))
<1>1. t.s \in Statements /\ t.s.k \in Loops /\ FitsScope(t.before, t.s.scope)
  BY DEF Tasks, TaskOK, Loops
<1>2. PICK b, c, n, e : /\ b = Start(t.s.body, BeforeBody(AfterAnalysis, t.s, t.before))
                        /\ c = Task(t.s, t.before, "cond") /\ n = Task(t.s, t.before, "next")
                        /\ e = Task(t.s, t.before, "end")
  OBVIOUS
<1>3. /\ c \in Tasks /\ c.s = t.s /\ c.at = "cond" /\ TaskOK(c)
      /\ e \in Tasks /\ TaskOK(e) /\ e.s = t.s /\ e.at = "end" /\ ~Inside(e) /\ Linked(c, e)
  BY <1>1, <1>2, LoopTasks
<1>4. FitsScope(InsertAll(t.before, t.s.names), t.s.init.scope)
  <2>1. PICK V, N : V = InFor(t.s).visible /\ N = Tracked(t.s.scope) \cup t.s.names
    OBVIOUS
  <2>. QED BY <1>1, <2>1, ForFits, AfterFits, Parts
<1>5. t.s.init \in Statements /\ InsertAll(t.before, t.s.names) \in States
  BY <1>1, <1>4, Parts DEF FitsScope, Fits
<1>6. /\ u \in Tasks /\ u.s = t.s.init /\ u.before = InsertAll(t.before, t.s.names)
      /\ u.at = "start" /\ ~Inside(u)
  BY <1>5, TaskIs
<1>7. t.s.init.scope.loop = t.s.scope.loop /\ t.s.init.scope.exits = t.s.scope.exits
  BY <1>1, PartLoops
<1>. HIDE DEF u
<1>8. TaskOK(u)
  BY <1>4, <1>6 DEF TaskOK
<1>9. t.s.init.k \in SimpleKinds
  BY <1>1, ForKind DEF SimpleKinds
<1>10. Linked(u, c)
  BY <1>3, <1>6, <1>7, <1>9 DEF Linked
<1>11. Replaces(e, t)
  BY <1>3 DEF Replaces, Inside
<1>12. Piece(<<u, c, e>>, t)
  BY <1>3, <1>6, <1>8, <1>10, <1>11, Pieces3
<1>. QED BY <1>2, <1>12 DEF u

LEMMA LoopPieces ==
    ASSUME NEW t \in Tasks, TaskOK(t), Inside(t)
    PROVE  /\ Piece(<<Start(t.s.body, BeforeBody(AfterAnalysis, t.s, t.before)),
                      Task(t.s, t.before, "next")>>, t)
           /\ Piece(<<Task(t.s, t.before, "cond")>>, t)
           /\ t.s.k = "for" =>
                 Piece(<<Start(t.s.update, AfterBody(AfterAnalysis, t.s, t.before)),
                         Task(t.s, t.before, "cond")>>, t)
<1>1. t.s \in Statements /\ t.s.k \in Loops /\ FitsScope(t.before, t.s.scope)
  BY DEF Tasks, TaskOK, Inside
<1>2. PICK b, c, n, e : /\ b = Start(t.s.body, BeforeBody(AfterAnalysis, t.s, t.before))
                        /\ c = Task(t.s, t.before, "cond") /\ n = Task(t.s, t.before, "next")
                        /\ e = Task(t.s, t.before, "end")
  OBVIOUS
<1>3. /\ b \in Tasks /\ TaskOK(b)
      /\ c \in Tasks /\ c.s = t.s /\ c.before = t.before /\ c.at = "cond" /\ TaskOK(c) /\ Inside(c)
      /\ n \in Tasks /\ n.s = t.s /\ n.before = t.before /\ TaskOK(n) /\ Inside(n)
      /\ Linked(b, n)
  BY <1>1, <1>2, LoopTasks
<1>4. Replaces(n, t) /\ Replaces(c, t)
  BY <1>3 DEF Replaces
<1>5. Piece(<<b, n>>, t)
  BY <1>3, <1>4, Pieces2
<1>6. Piece(<<c>>, t)
  BY <1>3, <1>4, Pieces1
<1>7. ASSUME t.s.k = "for" PROVE Piece(<<Start(t.s.update, AfterBody(AfterAnalysis, t.s, t.before)), c>>, t)
  <2>. DEFINE u == Start(t.s.update, AfterBody(AfterAnalysis, t.s, t.before))
  <2>1. FitsScope(AfterBody(AfterAnalysis, t.s, t.before), t.s.update.scope)
    <3>1. PICK V, N : V = InFor(t.s).visible /\ N = Tracked(t.s.scope) \cup t.s.names
      OBVIOUS
    <3>. QED BY <1>1, <1>7, <3>1, ForFits, AfterFits, Parts
  <2>2. t.s.update \in Statements /\ AfterBody(AfterAnalysis, t.s, t.before) \in States
    BY <1>1, <1>7, <2>1, Parts DEF FitsScope, Fits
  <2>3. /\ u \in Tasks /\ u.s = t.s.update /\ u.before = AfterBody(AfterAnalysis, t.s, t.before)
        /\ u.at = "start" /\ ~Inside(u)
    BY <2>2, TaskIs
  <2>4. t.s.update.scope.loop = t.s.scope.loop /\ t.s.update.scope.exits = t.s.scope.exits
    BY <1>1, <1>7, PartLoops
  <2>. HIDE DEF u
  <2>5. TaskOK(u)
    BY <2>1, <2>3 DEF TaskOK
  <2>6. t.s.update.k \in SimpleKinds
    BY <1>1, <1>7, ForKind DEF SimpleKinds
  <2>7. Linked(u, c)
    BY <1>3, <2>3, <2>4, <2>6 DEF Linked
  <2>8. Piece(<<u, c>>, t)
    BY <1>3, <1>4, <2>3, <2>5, <2>7, Pieces2
  <2>. QED BY <2>8 DEF u
<1>. QED BY <1>2, <1>5, <1>6, <1>7

-----------------------------------------------------------------------------
(* Break and continue                                                      *)

\* The j-th task is where the loop of the first one is continued, and the loop
\* ends below it.
LoopAt(td, j) ==
    /\ j \in 1..Len(td) /\ j > 1 /\ j < Len(td) /\ td[j].at = "next" /\ td[j].s.k \in Loops
    /\ td[1].s.scope.exits = ExitsOf(td[j].s)
    /\ td[j + 1] = Task(td[j].s, td[j].before, "end")
    /\ \A i \in 1..Len(td) : i < j => ~Inside(td[i]) /\ ~IsPlace(td[i], "end")

LEMMA FirstNext ==
    ASSUME NEW td, Shape(td), td # <<>>, td[1].s.scope.loop, td[1].at = "start",
           td[1].s.k \notin SimpleKinds
    PROVE  \E j \in 1..Len(td) : LoopAt(td, j)
<1>. DEFINE Calm(m) == \A i \in 1..Len(td) : i <= m => td[i].at # "next"
            Same(m) == td[m].s.scope.loop /\ td[m].s.scope.exits = td[1].s.scope.exits
            Bad == {m \in 1..Len(td) : Calm(m) /\ ~Same(m)}
            T == {m \in 1..Len(td) : td[m].at = "next"}
<1>1. Len(td) \in Nat \ {0} /\ 1 \in 1..Len(td)
  BY DEF Shape
<1>2. \A i \in 1..Len(td) : i < Len(td) => Linked(td[i], td[i + 1])
  BY DEF Shape
<1>3. \A m \in 1..Len(td) : Calm(m) => Same(m)
  <2>1. SUFFICES ASSUME Bad # {} PROVE FALSE
    OBVIOUS
  <2>2. Bad \in SUBSET Nat
    BY <1>1
  <2>3. PICK m \in Bad : \A n \in Bad : m <= n
    <3>. HIDE DEF Bad
    <3>. QED BY <2>1, <2>2, Least
  <2>4. m \in 1..Len(td) /\ Calm(m) /\ ~Same(m)
    OBVIOUS
  <2>5. m # 1
    BY <2>4
  <2>6. m - 1 \in 1..Len(td) /\ m - 1 < Len(td) /\ (m - 1) + 1 = m /\ ~(m <= m - 1)
    BY <1>1, <2>4, <2>5
  <2>7. Calm(m - 1)
    BY <1>1, <2>4, <2>6
  <2>8. Same(m - 1)
    BY <2>3, <2>6, <2>7
  <2>9. Linked(td[m - 1], td[m]) /\ td[m].at # "next"
    BY <1>1, <1>2, <2>4, <2>6
  <2>. QED BY <2>4, <2>8, <2>9 DEF Linked
<1>4. T # {}
  <2>1. SUFFICES ASSUME T = {} PROVE FALSE
    OBVIOUS
  <2>2. Len(td) \in 1..Len(td) /\ Calm(Len(td))
    BY <1>1, <2>1
  <2>. QED BY <1>3, <2>2 DEF Shape
<1>5. PICK j \in T : \A n \in T : j <= n
  <2>1. T \in SUBSET Nat
    BY <1>1
  <2>. HIDE DEF T
  <2>. QED BY <1>4, <2>1, Least
<1>6. j \in 1..Len(td) /\ td[j].at = "next" /\ j # 1
  BY <1>5
<1>6a. j > 1 /\ j - 1 \in 1..Len(td) /\ j - 1 < Len(td) /\ (j - 1) + 1 = j
  BY <1>1, <1>6
<1>7. \A i \in 1..Len(td) : i < j => td[i].at # "next"
  BY <1>1, <1>5
<1>8. td[1].s.scope.exits = ExitsOf(td[j].s)
  <2>1. Calm(j - 1)
    BY <1>1, <1>6a, <1>7
  <2>2. Same(j - 1) /\ Linked(td[j - 1], td[j])
    BY <1>2, <1>3, <1>6a, <2>1
  <2>. QED BY <1>6, <2>2 DEF Linked
<1>9. ASSUME NEW i \in 1..Len(td), i < j PROVE ~Inside(td[i])
  <2>1. SUFFICES ASSUME td[i].at = "cond" PROVE FALSE
    BY <1>7, <1>9 DEF Inside
  <2>2. ~(i > 2)
    BY <2>1 DEF Shape
  <2>3. i = 2 /\ 1 < Len(td) /\ 1 + 1 = 2
    BY <1>1, <2>1, <2>2
  <2>4. Linked(td[1], td[2])
    BY <1>1, <1>2, <2>3
  <2>. QED BY <2>1, <2>3, <2>4 DEF Linked
<1>10. ASSUME NEW i \in 1..Len(td), i < j PROVE ~IsPlace(td[i], "end")
  <2>1. SUFFICES ASSUME td[i].at = "end", td[i].s.k \in Loops PROVE FALSE
    BY DEF IsPlace
  <2>2. i # 1
    BY <2>1
  <2>3. i - 1 \in 1..Len(td) /\ i - 1 < Len(td) /\ (i - 1) + 1 = i /\ i - 1 < j
    BY <1>1, <1>6a, <1>10, <2>2
  <2>4. Linked(td[i - 1], td[i]) /\ ~Inside(td[i - 1])
    BY <1>2, <1>9, <2>3
  <2>. QED BY <2>1, <2>4 DEF Linked
<1>11. j < Len(td) /\ td[j].s.k \in Loops
  <2>1. Inside(td[j])
    BY <1>6 DEF Inside
  <2>2. j # Len(td)
    BY <1>6, <2>1 DEF Shape
  <2>. QED BY <1>1, <1>6, <2>2 DEF Shape, TaskOK
<1>12. td[j + 1] = Task(td[j].s, td[j].before, "end")
  <2>1. Linked(td[j], td[j + 1]) /\ Inside(td[j])
    BY <1>2, <1>6, <1>11 DEF Inside
  <2>. QED BY <2>1 DEF Linked
<1>. QED BY <1>6, <1>6a, <1>8, <1>9, <1>10, <1>11, <1>12 DEF LoopAt

\* Where a break and a continue go.
LEMMA SkipIs ==
    ASSUME Shape(todo), NEW j \in 1..Len(todo), LoopAt(todo, j)
    PROVE  /\ SkipTo("next") = SubSeq(todo, j, Len(todo))
           /\ SkipTo("end") = SubSeq(todo, j + 1, Len(todo)) /\ j + 1 \in 1..Len(todo)
<1>. DEFINE Is(i, p) == IsPlace(todo[i], p) /\ \A n \in 1..(i - 1) : ~IsPlace(todo[n], p)
<1>1. Len(todo) \in Nat /\ DOMAIN todo = 1..Len(todo) /\ j + 1 \in 1..Len(todo) /\ j > 1
  BY DEF Shape, LoopAt
<1>2. \A i \in 1..Len(todo) : i < j => ~IsPlace(todo[i], "next") /\ ~IsPlace(todo[i], "end")
  BY DEF LoopAt, IsPlace, Inside
<1>3. /\ IsPlace(todo[j], "next") /\ ~IsPlace(todo[j], "end")
      /\ IsPlace(todo[j + 1], "end") /\ ~IsPlace(todo[j + 1], "next")
  BY DEF LoopAt, IsPlace, Task
<1>4. \A i \in 1..Len(todo) : Is(i, "next") <=> i = j
  <2>1. Is(j, "next")
    <3>1. \A n \in 1..(j - 1) : n \in 1..Len(todo) /\ n < j
      BY <1>1
    <3>. QED BY <1>2, <1>3, <3>1
  <2>2. ASSUME NEW i \in 1..Len(todo), Is(i, "next"), i # j PROVE FALSE
    <3>1. i > j
      BY <1>1, <1>2, <2>2
    <3>2. j \in 1..(i - 1)
      BY <1>1, <3>1
    <3>. QED BY <1>3, <2>2, <3>2
  <2>. HIDE DEF Is
  <2>. QED BY <2>1, <2>2
<1>5. \A i \in 1..Len(todo) : Is(i, "end") <=> i = j + 1
  <2>1. Is(j + 1, "end")
    <3>1. \A n \in 1..(j + 1 - 1) : n \in 1..Len(todo) /\ (n < j \/ n = j)
      BY <1>1
    <3>. QED BY <1>2, <1>3, <3>1
  <2>2. ASSUME NEW i \in 1..Len(todo), Is(i, "end"), i # j + 1 PROVE FALSE
    <3>1. ~(i < j) /\ i # j
      BY <1>2, <1>3, <2>2
    <3>2. j + 1 \in 1..(i - 1)
      BY <1>1, <2>2, <3>1
    <3>. QED BY <1>3, <2>2, <3>2
  <2>. HIDE DEF Is
  <2>. QED BY <2>1, <2>2
<1>6. (CHOOSE i \in DOMAIN todo : Is(i, "next")) = j
  <2>. HIDE DEF Is
  <2>. QED BY <1>1, <1>4
<1>7. (CHOOSE i \in DOMAIN todo : Is(i, "end")) = j + 1
  <2>. HIDE DEF Is
  <2>. QED BY <1>1, <1>5
<1>. QED BY <1>1, <1>6, <1>7 DEF SkipTo

-----------------------------------------------------------------------------
(* The tasks of an execution                                               *)

\* What an assignment stores.
LEMMA AssignedIs ==
    ASSUME NEW e \in Envs, NEW lhs \in Seq(Labels), NEW rhs \in Seq(Labels \cup {Fresh, Call}),
           Len(lhs) = Len(rhs), NEW f \in Assigned(e, lhs, rhs)
    PROVE  /\ f \in Envs
           /\ \A x \in Labels : (\A i \in 1..Len(lhs) : lhs[i] # x) => f[x] = e[x]
           /\ \A i \in 1..Len(lhs) :
                 (\A j \in 1..Len(lhs) : lhs[j] = lhs[i] => j = i) /\ rhs[i] \notin {Fresh, Call}
                    => f[lhs[i]] = e[rhs[i]]
<1>. DEFINE At1(x) == CHOOSE i \in DOMAIN lhs : lhs[i] = x
<1>1. Len(lhs) \in Nat /\ DOMAIN lhs = 1..Len(lhs) /\ DOMAIN rhs = 1..Len(lhs)
  OBVIOUS
<1>2. PICK v \in [DOMAIN lhs -> Addrs] :
         f = [x \in Labels |->
                IF \E i \in DOMAIN lhs : lhs[i] = x
                THEN IF rhs[At1(x)] \in {Fresh, Call} THEN v[At1(x)] ELSE e[rhs[At1(x)]]
                ELSE e[x]]
  BY DEF Assigned
<1>3. \A x \in Labels : (\E i \in DOMAIN lhs : lhs[i] = x) => At1(x) \in DOMAIN lhs /\ lhs[At1(x)] = x
  OBVIOUS
<1>. HIDE DEF At1
<1>4. \A i \in 1..Len(lhs) : lhs[i] \in Labels /\ rhs[i] \in Labels \cup {Fresh, Call}
  BY <1>1
<1>5. \A x \in Labels : e[x] \in Addrs \cup {Everybody}
  BY DEF Envs
<1>6. ASSUME NEW x \in Labels PROVE f[x] \in Addrs \cup {Everybody}
  <2>1. CASE \E i \in DOMAIN lhs : lhs[i] = x
    <3>1. At1(x) \in DOMAIN lhs /\ f[x] = IF rhs[At1(x)] \in {Fresh, Call} THEN v[At1(x)] ELSE e[rhs[At1(x)]]
      BY <1>2, <1>3, <2>1
    <3>2. rhs[At1(x)] \in Labels \cup {Fresh, Call} /\ v[At1(x)] \in Addrs
      BY <1>1, <1>4, <3>1
    <3>. QED BY <1>5, <3>1, <3>2
  <2>2. CASE ~\E i \in DOMAIN lhs : lhs[i] = x
    BY <1>2, <1>5, <2>2
  <2>. QED BY <2>1, <2>2
<1>7. f \in Envs
  BY <1>2, <1>6 DEF Envs
<1>8. ASSUME NEW x \in Labels, \A i \in 1..Len(lhs) : lhs[i] # x PROVE f[x] = e[x]
  BY <1>1, <1>2, <1>8
<1>9. ASSUME NEW i \in 1..Len(lhs), \A j \in 1..Len(lhs) : lhs[j] = lhs[i] => j = i,
             rhs[i] \notin {Fresh, Call}
      PROVE  f[lhs[i]] = e[rhs[i]]
  <2>1. lhs[i] \in Labels /\ i \in DOMAIN lhs
    BY <1>1, <1>4
  <2>2. At1(lhs[i]) = i
    BY <1>1, <1>3, <1>9, <2>1
  <2>. QED BY <1>2, <1>9, <2>1, <2>2
<1>. QED BY <1>7, <1>8, <1>9

\* What Store stores comes from e.
LEMMA StoreIs ==
    ASSUME env \in Envs, NEW lhs, NEW rhs, Store(lhs, rhs)
    PROVE  /\ todo' = Tail(todo)
           /\ \E e \in Envs : /\ env' \in Assigned(e, lhs, rhs)
                              /\ \A x \in Labels \ Mutable : e[x] = env[x]
                              /\ (\A i \in DOMAIN rhs : rhs[i] # Call) => e = env
<1>1. PICK e \in IF \E i \in DOMAIN rhs : rhs[i] = Call THEN AfterCall(env) ELSE {env} :
         env' \in Assigned(e, lhs, rhs)
  BY DEF Store
<1>2. CASE \E i \in DOMAIN rhs : rhs[i] = Call
  <2>1. e \in AfterCall(env)
    BY <1>1, <1>2
  <2>2. e \in Envs /\ \A x \in Labels \ Mutable : e[x] = env[x]
    BY <2>1, AfterCallIs
  <2>. QED BY <1>1, <1>2, <2>2 DEF Store
<1>3. CASE ~\E i \in DOMAIN rhs : rhs[i] = Call
  BY <1>1, <1>3 DEF Store
<1>. QED BY <1>2, <1>3

\* The labels of assignments and declarations.
LEMMA StoreLabels ==
    ASSUME NEW s \in Statements
    PROVE  /\ s.scope.visible \subseteq Labels /\ s.scope.pending \subseteq Labels
           /\ s.k = "assign" => /\ s.lhs \in Seq(Labels) /\ s.rhs \in Seq(Labels \cup {Fresh, Call})
                                /\ Len(s.lhs) = Len(s.rhs)
           /\ s.k = "decl" => /\ <<s.var>> \in Seq(Labels) /\ <<s.rhs>> \in Seq(Labels \cup {Fresh, Call})
                              /\ Len(<<s.var>>) = Len(<<s.rhs>>)
<1>1. s.scope.visible \subseteq Labels /\ s.scope.pending \subseteq Labels
  BY StatementKinds, ScopeIs
<1>2. CASE s.k = "assign"
  <2>1. /\ s.lhs \in Seq(s.scope.visible \ Immutable)
        /\ s.rhs \in Seq(s.scope.visible \cup {Fresh, Call}) /\ Len(s.lhs) = Len(s.rhs)
    BY <1>2, StatementKinds
  <2>2. \A i \in 1..Len(s.lhs) : s.lhs[i] \in Labels /\ s.rhs[i] \in Labels \cup {Fresh, Call}
    BY <1>1, <2>1
  <2>3. s.lhs \in Seq(Labels) /\ s.rhs \in Seq(Labels \cup {Fresh, Call})
    BY <2>1, <2>2
  <2>. QED BY <1>1, <1>2, <2>1, <2>3
<1>3. CASE s.k = "decl"
  <2>1. s.var \in Labels /\ s.rhs \in Labels \cup {Fresh, Call}
    BY <1>1, <1>3, StatementKinds
  <2>. QED BY <1>1, <1>3, <2>1
<1>. QED BY <1>1, <1>2, <1>3

\* The tasks left when the first one is replaced, or has been executed.
LEMMA TasksLeft ==
    ASSUME Shape(todo), todo # <<>>
    PROVE  /\ Shape(Tail(todo)) /\ Shape(<<>>)
           /\ \A new : Piece(new, Head(todo)) /\ (Head(todo).at # "start" \/ Cur.k \notin SimpleKinds)
                 => Shape(new \o Tail(todo))
<1>1. /\ todo \in Seq(Tasks) /\ Head(todo) = todo[1]
      /\ (Head(todo).at # "start" \/ Cur.k \notin SimpleKinds) /\ Len(todo) >= 2 => todo[2].at # "cond"
  BY FirstTask DEF Cur
<1>2. Shape(Tail(todo))
  <2>1. Left(todo, 2, Tail(todo))
    BY <1>1, LeftIs
  <2>. QED BY <2>1, ShapeLeft
<1>3. Shape(<<>>)
  BY DEF Shape
<1>4. ASSUME NEW new, Piece(new, Head(todo)), Head(todo).at # "start" \/ Cur.k \notin SimpleKinds
      PROVE  Shape(new \o Tail(todo))
  <2>1. Spliced(todo, new, new \o Tail(todo))
    BY <1>1, <1>4, SplicedIs DEF Piece
  <2>2. \A X : Spliced(todo, new, X) => Shape(X)
    BY <1>1, <1>4, ShapePush
  <2>. QED BY <2>1, <2>2
<1>. QED BY <1>2, <1>3, <1>4

\* What comes after an outcome.
LEMMA ResultEnvs ==
    ASSUME env \in Envs, NEW c \in Conditions, NEW r \in Results[c][env]
    PROVE  r.env \in Envs /\ r.val \in BOOLEAN
<1>1. r \in Outcomes
  BY ResultsAre
<1>. QED BY <1>1 DEF Outcomes

LEMMA Pairs ==
    ASSUME NEW a, NEW b
    PROVE  <<a>> \o <<b>> = <<a, b>> /\ <<>> \o <<b>> = <<b>>
<1>. DEFINE T == {a, b}
<1>1. <<a>> \in Seq(T) /\ <<b>> \in Seq(T) /\ <<>> \in Seq(T) /\ <<a, b>> \in Seq(T)
  OBVIOUS
<1>2. Len(<<a>>) = 1 /\ Len(<<b>>) = 1 /\ Len(<<a, b>>) = 2
  OBVIOUS
<1>3. <<a>> \o <<b>> = <<a, b>>
  <2>1. \A i \in 1..(1 + 1) : (<<a>> \o <<b>>)[i] = IF i <= 1 THEN <<a>>[i] ELSE <<b>>[i - 1]
    BY <1>1, <1>2, ConcatProperties
  <2>2. (<<a>> \o <<b>>)[1] = a /\ (<<a>> \o <<b>>)[2] = b
    BY <2>1
  <2>3. <<a>> \o <<b>> \in Seq(T) /\ Len(<<a>> \o <<b>>) = 2
    BY <1>1, <1>2, ConcatProperties
  <2>. DEFINE W == <<a>> \o <<b>>
              Z == <<a, b>>
  <2>4. Z \in Seq(T) /\ Len(Z) = 2 /\ Z[1] = a /\ Z[2] = b
    BY <1>1, <1>2
  <2>3a. W \in Seq(T) /\ Len(W) = 2 /\ W[1] = a /\ W[2] = b
    BY <2>2, <2>3
  <2>. HIDE DEF W, Z
  <2>5. Len(W) = Len(Z) /\ \A i \in 1..Len(W) : i = 1 \/ i = 2
    BY <2>3a, <2>4
  <2>6. \A i \in 1..Len(W) : W[i] = Z[i]
    BY <2>3a, <2>4, <2>5
  <2>7. W = Z
    BY <2>3a, <2>4, <2>5, <2>6, SeqEqual
  <2>. QED BY <2>7 DEF W, Z
<1>4. <<>> \o <<b>> = <<b>>
  BY <1>1, ConcatEmptySeq
<1>. QED BY <1>3, <1>4

\* Every execution has tasks of this shape.
LEMMA ShapeStep ==
    ASSUME env \in Envs, Shape(todo), [Next]_vars
    PROVE  env' \in Envs /\ Shape(todo')
<1>. DEFINE t == Head(todo)
<1>1. CASE UNCHANGED vars
  BY <1>1 DEF vars
<1>2. CASE Next
  <2>1. todo # <<>>
    BY <1>2 DEF Next, At, AssignmentStatement, VariableDeclarationStatement, ExpressionStatement,
        RequireStatement, StatementList, NoStatement, Block, IfStatement, EnterWhile, EnterDoWhile,
        EnterFor, LoopCondition, LoopNext, End, BreakStatement, ContinueStatement, ReturnStatement
  <2>2. t \in Tasks /\ TaskOK(t) /\ t.s = Cur /\ t.before = Before /\ Cur \in Statements
    BY <2>1, FirstTask DEF Cur, Before
  <2>3. /\ Shape(Tail(todo)) /\ Shape(<<>>)
        /\ \A new : Piece(new, t) /\ (t.at # "start" \/ Cur.k \notin SimpleKinds) => Shape(new \o Tail(todo))
    BY <2>1, TasksLeft
  <2>4. ASSUME NEW k, At(k, "start") PROVE t.at = "start" /\ Cur.k = k
    BY <2>4 DEF At, Cur
  <2>5. Cur.k \in {"require", "if"} \cup Loops => Cur.cond \in Conditions
    BY <2>2, Parts DEF Loops
  <2>6. \A lhs, rhs : Store(lhs, rhs) /\ lhs \in Seq(Labels) /\ rhs \in Seq(Labels \cup {Fresh, Call})
                         /\ Len(lhs) = Len(rhs) => env' \in Envs /\ todo' = Tail(todo)
    BY StoreIs, AssignedIs
  <2>. HIDE DEF t
  <2>7. CASE AssignmentStatement
    <3>1. Cur.k = "assign" /\ Store(Cur.lhs, Cur.rhs)
      BY <2>4, <2>7 DEF AssignmentStatement
    <3>. QED BY <2>2, <2>3, <2>6, <3>1, StoreLabels
  <2>8. CASE VariableDeclarationStatement
    <3>1. Cur.k = "decl" /\ Store(<<Cur.var>>, <<Cur.rhs>>)
      BY <2>4, <2>8 DEF VariableDeclarationStatement
    <3>. QED BY <2>2, <2>3, <2>6, <3>1, StoreLabels
  <2>9. CASE ExpressionStatement
    <3>1. env' \in AfterCall(env) /\ todo' = Tail(todo)
      BY <2>9 DEF ExpressionStatement
    <3>. QED BY <2>3, <3>1, AfterCallIs
  <2>10. CASE RequireStatement
    <3>1. Cur.k = "require"
      BY <2>4, <2>10 DEF RequireStatement
    <3>2. PICK r \in Results[Cur.cond][env] :
             env' = r.env /\ todo' = IF r.val THEN Tail(todo) ELSE <<>>
      BY <2>10 DEF RequireStatement
    <3>. QED BY <2>3, <2>5, <3>1, <3>2, ResultEnvs
  <2>11. CASE StatementList
    <3>1. t.at = "start" /\ Cur.k = "list"
      BY <2>4, <2>11 DEF StatementList
    <3>2. Piece(<<Start(Cur.first, Before), Start(Cur.rest, AfterAnalysis[Cur.first][Before])>>, t)
      BY <2>2, <3>1, ListPiece
    <3>. QED BY <2>3, <2>11, <3>1, <3>2 DEF StatementList, SimpleKinds
  <2>12. CASE NoStatement
    BY <2>3, <2>12 DEF NoStatement
  <2>13. CASE Block
    <3>1. t.at = "start" /\ Cur.k = "block"
      BY <2>4, <2>13 DEF Block
    <3>2. Piece(<<Body, Here("end")>>, t)
      BY <2>2, <3>1, BlockPiece DEF Body, Here
    <3>. QED BY <2>3, <2>13, <3>1, <3>2 DEF Block, SimpleKinds
  <2>14. CASE IfStatement
    <3>1. t.at = "start" /\ Cur.k = "if"
      BY <2>4, <2>14 DEF IfStatement
    <3>. DEFINE a == Start(Cur.then, Assume(Cur.cond, Before))
                b == Start(Cur.else, Refute(Cur.cond, Before))
                w == Here("end")
    <3>2. PICK r \in Results[Cur.cond][env] :
             /\ env' = r.env
             /\ todo' = (IF r.val THEN <<a>> ELSE IF Cur.else.k = "none" THEN <<>> ELSE <<b>>)
                        \o <<w>> \o Tail(todo)
      BY <2>14 DEF IfStatement
    <3>3. Piece(<<a, w>>, t) /\ Piece(<<w>>, t) /\ Piece(<<b, w>>, t)
      BY <2>2, <3>1, IfPieces DEF Here
    <3>. HIDE DEF a, b, w
    <3>4. <<a>> \o <<w>> = <<a, w>> /\ <<b>> \o <<w>> = <<b, w>> /\ <<>> \o <<w>> = <<w>>
      BY Pairs
    <3>5. \E new \in {<<a, w>>, <<b, w>>, <<w>>} : todo' = new \o Tail(todo)
      BY <3>2, <3>4
    <3>6. Shape(todo')
      BY <2>3, <3>1, <3>3, <3>5 DEF SimpleKinds
    <3>. QED BY <2>5, <3>1, <3>2, <3>6, ResultEnvs
  <2>15. CASE EnterWhile
    <3>1. t.at = "start" /\ Cur.k = "while"
      BY <2>4, <2>15 DEF EnterWhile
    <3>2. Piece(<<Here("cond"), Here("end")>>, t)
      BY <2>2, <3>1, WhilePieces DEF Here
    <3>. QED BY <2>3, <2>15, <3>1, <3>2 DEF EnterWhile, SimpleKinds
  <2>16. CASE EnterDoWhile
    <3>1. t.at = "start" /\ Cur.k = "dowhile"
      BY <2>4, <2>16 DEF EnterDoWhile
    <3>2. Piece(<<Body, Here("next"), Here("end")>>, t)
      BY <2>2, <3>1, WhilePieces DEF Body, Here
    <3>. QED BY <2>3, <2>16, <3>1, <3>2 DEF EnterDoWhile, SimpleKinds
  <2>17. CASE EnterFor
    <3>1. t.at = "start" /\ Cur.k = "for"
      BY <2>4, <2>17 DEF EnterFor
    <3>2. Piece(<<Start(Cur.init, InsertAll(Before, Cur.names)), Here("cond"), Here("end")>>, t)
      BY <2>2, <3>1, ForPiece DEF Here
    <3>. QED BY <2>3, <2>17, <3>1, <3>2 DEF EnterFor, SimpleKinds
  <2>18. CASE LoopCondition
    <3>1. Cur.k \in Loops /\ t.at = "cond"
      BY <2>18 DEF LoopCondition, At, Cur, t
    <3>2. Piece(<<Body, Here("next")>>, t)
      BY <2>2, <3>1, LoopPieces DEF Body, Here, Inside
    <3>3. PICK r \in Results[Cur.cond][env] :
             /\ env' = r.env
             /\ todo' = IF r.val THEN <<Body, Here("next")>> \o Tail(todo) ELSE Tail(todo)
      BY <2>18 DEF LoopCondition
    <3>4. Shape(todo')
      BY <2>3, <3>1, <3>2, <3>3
    <3>. QED BY <2>5, <3>1, <3>3, <3>4, ResultEnvs
  <2>19. CASE LoopNext
    <3>1. Cur.k \in Loops /\ t.at = "next"
      BY <2>19 DEF LoopNext, At, Cur, t
    <3>. DEFINE a == Start(Cur.update, Known(t))
                w == Here("cond")
    <3>2. Piece(<<w>>, t) /\ (Cur.k = "for" => Piece(<<a, w>>, t))
      <4>1. Cur.k = "for" => Known(t) = AfterBody(AfterAnalysis, Cur, Before)
        BY <2>2, <3>1 DEF Known
      <4>. QED BY <2>2, <3>1, <4>1, LoopPieces DEF Here, Inside
    <3>3. todo' = (IF Cur.k = "for" THEN <<a>> ELSE <<>>) \o <<w>> \o Tail(todo) /\ env' = env
      BY <2>19 DEF LoopNext, t
    <3>. HIDE DEF a, w
    <3>4. <<a>> \o <<w>> = <<a, w>> /\ <<>> \o <<w>> = <<w>>
      BY Pairs
    <3>. QED BY <2>3, <3>1, <3>2, <3>3, <3>4
  <2>20. CASE End
    BY <2>3, <2>20 DEF End
  <2>21. CASE BreakStatement \/ ContinueStatement
    <3>1. t.at = "start" /\ Cur.k \in {"break", "continue"} /\ env' = env
      BY <2>4, <2>21 DEF BreakStatement, ContinueStatement
    <3>2. Cur.scope.loop /\ t = todo[1] /\ todo \in Seq(Tasks)
      <4>1. Cur.scope.loop
        BY <2>2, <3>1, StatementKinds
      <4>2. t = todo[1] /\ todo \in Seq(Tasks)
        BY <2>1 DEF t, Shape
      <4>. QED BY <4>1, <4>2
    <3>3. PICK j \in 1..Len(todo) : LoopAt(todo, j)
      BY <2>1, <2>2, <3>1, <3>2, FirstNext DEF SimpleKinds
    <3>4. \E m \in 1..Len(todo) : todo' = SubSeq(todo, m, Len(todo))
      BY <2>21, <3>3, SkipIs DEF BreakStatement, ContinueStatement
    <3>5. PICK m \in 1..Len(todo) : Left(todo, m, todo') /\ m \in Nat \ {0}
      BY <2>1, <3>2, <3>4, LeftIs
    <3>. QED BY <3>1, <3>5, ShapeLeft
  <2>22. CASE ReturnStatement
    BY <2>3, <2>22 DEF ReturnStatement
  <2>. QED BY <1>2, <2>7, <2>8, <2>9, <2>10, <2>11, <2>12, <2>13, <2>14, <2>15, <2>16, <2>17, <2>18,
              <2>19, <2>20, <2>21, <2>22 DEF Next
<1>. QED BY <1>1, <1>2

LEMMA ShapeInit ==
    ASSUME Init
    PROVE  env \in Envs /\ Shape(todo)
<1>. DEFINE t == Start(prog, P0)
            X == <<t>>
<1>1. prog \in Statements /\ prog.scope.visible = Global /\ ~prog.scope.loop
      /\ prog.scope.pending \cup prog.scope.hidden = {}
  BY ProgramAssumption DEF Init
<1>2. FitsScope(P0, prog.scope)
  <2>1. Global \subseteq Labels
    BY DEF Global, Labels, Vars
  <2>2. P0 \in States /\ IsPartitionState(P0) /\ Elements(P0) = Global
    BY <2>1 DEF P0, States, IsPartitionState, Elements
  <2>3. \A p \in P0 : \A x \in p : p = {x}
    BY DEF P0
  <2>4. Tracked(prog.scope) = Global
    BY <1>1 DEF Tracked
  <2>. QED BY <1>1, <2>2, <2>3, <2>4 DEF FitsScope, Fits
<1>3. t \in Tasks /\ t.s = prog /\ t.before = P0 /\ t.at = "start" /\ ~Inside(t)
  BY <1>1, <1>2, TaskIs DEF FitsScope, Fits
<1>4. env \in Envs /\ todo = X
  BY DEF Init
<1>. HIDE DEF t
<1>5. X \in Seq(Tasks) /\ Len(X) = 1 /\ X[1] = t
  BY <1>3
<1>. HIDE DEF X
<1>6. TaskOK(t)
  BY <1>2, <1>3 DEF TaskOK
<1>7. Shape(X)
  BY <1>1, <1>3, <1>5, <1>6 DEF Shape
<1>. QED BY <1>4, <1>7

\* The states of a loop, whatever its kind.
LEMMA LoopFits ==
    ASSUME NEW s \in Statements, s.k \in Loops, NEW P, FitsScope(P, s.scope)
    PROVE  \E V, N :
              /\ V \in SUBSET Labels /\ N \in SUBSET Labels /\ Tracked(s.scope) \subseteq N
              /\ s.cond \in Conditions /\ s.cond.labels \subseteq V \cap N
              /\ Fits(BeforeCond(AfterAnalysis, s, P), V, N)
              /\ Fits(AfterBody(AfterAnalysis, s, P), V, N)
<1>1. s.scope \in Scopes /\ Tracked(s.scope) \in SUBSET Labels /\ s.scope.visible \in SUBSET Labels
  BY StatementKinds, ScopeIs, TrackedIs
<1>2. CASE s.k = "for"
  <2>1. PICK V, N : V = InFor(s).visible /\ N = Tracked(s.scope) \cup s.names
    OBVIOUS
  <2>2. /\ s.cond \in Conditions /\ s.cond.labels \subseteq V \cap N
        /\ Fits(ForHead(AfterAnalysis, s, P), V, N) /\ Fits(AfterBody(AfterAnalysis, s, P), V, N)
    BY <1>2, <2>1, ForFits, AfterFits, Parts
  <2>3. BeforeCond(AfterAnalysis, s, P) = ForHead(AfterAnalysis, s, P)
    BY <1>2 DEF BeforeCond
  <2>4. V \in SUBSET Labels /\ N \in SUBSET Labels /\ Tracked(s.scope) \subseteq N
    BY <1>1, <1>2, <2>1, ForScopes
  <2>. QED BY <2>2, <2>3, <2>4
<1>3. CASE s.k \in {"while", "dowhile"}
  <2>1. /\ s.cond \in Conditions /\ s.cond.labels \subseteq s.scope.visible \cap Tracked(s.scope)
        /\ Fits(LoopHead(s, P), s.scope.visible, Tracked(s.scope))
        /\ Fits(AfterBody(AfterAnalysis, s, P), s.scope.visible, Tracked(s.scope))
    BY <1>3, WhileFits, AfterFits, Parts
  <2>2. BeforeCond(AfterAnalysis, s, P) = LoopHead(s, P)
    BY <1>3 DEF BeforeCond
  <2>. QED BY <1>1, <2>1, <2>2
<1>. QED BY <1>2, <1>3 DEF Loops

\* What is known at a task.
LEMMA KnownIs ==
    ASSUME NEW t
    PROVE  /\ t.at = "start" => Known(t) = t.before
           /\ t.at = "end" => Known(t) = AfterAnalysis[t.s][t.before]
           /\ t.at \in {"next", "cond"} =>
                 \/ Known(t) = BeforeCond(AfterAnalysis, t.s, t.before)
                    /\ (t.s.k = "while" \/ (t.at = "cond" /\ t.s.k = "for"))
                 \/ Known(t) = AfterBody(AfterAnalysis, t.s, t.before)
                    /\ t.s.k # "while" /\ ~(t.at = "cond" /\ t.s.k = "for")
<1>1. /\ t.at = "start" => Known(t) = t.before
      /\ t.at = "end" => Known(t) = AfterAnalysis[t.s][t.before]
  BY DEF Known
<1>. DEFINE Head1 == t.s.k = "while" \/ (t.at = "cond" /\ t.s.k = "for")
<1>2. t.at \in {"next", "cond"} =>
         Known(t) = IF Head1 THEN BeforeCond(AfterAnalysis, t.s, t.before)
                    ELSE AfterBody(AfterAnalysis, t.s, t.before)
  BY DEF Known
<1>3. CASE Head1
  <2>1. t.at \in {"next", "cond"} => Known(t) = BeforeCond(AfterAnalysis, t.s, t.before)
    <3>. HIDE DEF Head1
    <3>. QED BY <1>2, <1>3
  <2>. QED BY <1>1, <1>3, <2>1
<1>4. CASE ~Head1
  <2>1. t.at \in {"next", "cond"} => Known(t) = AfterBody(AfterAnalysis, t.s, t.before)
    <3>. HIDE DEF Head1
    <3>. QED BY <1>2, <1>4
  <2>2. t.s.k # "while" /\ ~(t.at = "cond" /\ t.s.k = "for")
    BY <1>4
  <2>. QED BY <1>1, <2>1, <2>2
<1>. QED BY <1>3, <1>4

LEMMA KnownFits ==
    ASSUME NEW t \in Tasks, TaskOK(t)
    PROVE  \E V, N : Fits(Known(t), V, N) /\ Global \subseteq N /\ N \subseteq Labels
<1>1. /\ t.s \in Statements /\ t.before \in States /\ FitsScope(t.before, t.s.scope)
      /\ t.at \in {"start", "cond", "next", "end"} /\ (t.at \in {"cond", "next"} => t.s.k \in Loops)
  BY DEF Tasks, TaskOK
<1>2. Global \subseteq Tracked(t.s.scope) /\ Tracked(t.s.scope) \subseteq Labels
  BY <1>1, StatementKinds, ScopeIs, TrackedIs
<1>3. CASE t.at = "start"
  BY <1>1, <1>2, <1>3, KnownIs DEF FitsScope
<1>4. CASE t.at = "end"
  BY <1>1, <1>2, <1>4, KnownIs, AfterFits DEF TracksScope
<1>5. CASE t.at \in {"next", "cond"}
  <2>1. \E V, N : /\ N \in SUBSET Labels /\ Tracked(t.s.scope) \subseteq N
                  /\ Fits(BeforeCond(AfterAnalysis, t.s, t.before), V, N)
                  /\ Fits(AfterBody(AfterAnalysis, t.s, t.before), V, N)
    BY <1>1, <1>5, LoopFits
  <2>. QED BY <1>2, <1>5, <2>1, KnownIs
<1>. QED BY <1>1, <1>3, <1>4, <1>5

Shaped == env \in Envs /\ Shape(todo)

\* The compiler keeps exactly the labels in scope in its states, each in one
\* part, and all labels of the contract among them: no assignment, branch, loop,
\* break or continue loses or duplicates one.
THEOREM AliasTypes == Spec => []TypeOK
<1>1. Init => Shaped
  BY ShapeInit DEF Shaped
<1>2. Shaped /\ [Next]_vars => Shaped'
  BY ShapeStep DEF Shaped
<1>3. Shaped => TypeOK
  <2>1. SUFFICES ASSUME Shape(todo), todo # <<>> PROVE TypeOK
    BY DEF TypeOK, Shaped
  <2>. DEFINE t == Head(todo)
  <2>2. t \in Tasks /\ TaskOK(t)
    BY <2>1, FirstTask
  <2>. HIDE DEF t
  <2>3. PICK V, N : Fits(Known(t), V, N) /\ Global \subseteq N /\ N \subseteq Labels
    BY <2>2, KnownFits
  <2>4. IsPartitionState(Known(t)) /\ Elements(Known(t)) = N
    BY <2>3 DEF Fits
  <2>. QED BY <2>3, <2>4 DEF TypeOK, t
<1>. QED BY <1>1, <1>2, <1>3, PTL DEF Spec

-----------------------------------------------------------------------------
(* What will be true when a task is reached                                *)

\* Q is about labels that no side effect changes.
Rigid(Q) == \A p \in Q : p \subseteq Immutable \/ \E x \in p : p = {x}

\* Statement s does not end what Q says.
Stable(Q, s) ==
    Rigid(Q) \/ (~Effects[s] /\ Elements(Q) \subseteq s.scope.visible \cup s.scope.hidden)

\* What holds when task t has been executed, up to the end of its statement.
Out(t) == AfterAnalysis[t.s][t.before]

Follows(u, Q) == \A e \in Envs : Agrees(Out(u), e) => Agrees(Q, e)

\* Q holds in e, and will until the i-th task is reached.
Keeps(td, e, i, Q) == Agrees(Q, e) /\ \A j \in 1..Len(td) : j < i => Stable(Q, td[j].s)

\* Q will hold when the i-th task is reached from the one before.
Holds(td, e, i, Q) == Keeps(td, e, i, Q) \/ (i > 1 /\ Follows(td[i - 1], Q))

\* What the analysis says at the i-th task, and at the places of its statement
\* that are reached from there.
Ready(td, e, i) ==
    LET s == td[i].s
        P == td[i].before
    IN  /\ td[i].at = "start" => Holds(td, e, i, P)
        /\ td[i].at = "end" => Holds(td, e, i, Out(td[i]))
        /\ td[i].at = "next" =>
              /\ Keeps(td, e, i, BeforeCond(AfterAnalysis, s, P))
              /\ s.k # "while" => Holds(td, e, i, AfterBody(AfterAnalysis, s, P))
        /\ td[i].at = "cond" =>
              /\ Holds(td, e, i, BeforeCond(AfterAnalysis, s, P))
              /\ s.k = "dowhile" => Holds(td, e, i, AfterBody(AfterAnalysis, s, P))
              /\ s.k = "for" => \/ Holds(td, e, i, AfterInit(AfterAnalysis, s, P))
                                \/ Holds(td, e, i, AfterUpdate(AfterAnalysis, s, P))

Truth(td, e) == \A i \in 1..Len(td) : Ready(td, e, i)

\* From e to f statement s has changed no more than it may.
Mild(s, e, f) ==
    /\ f \in Envs /\ \A x \in Immutable : f[x] = e[x]
    /\ Effects[s] \/ \A x \in Labels \ s.scope.pending : f[x] = e[x]

\* Every statement of new ends no more than s does.
Inherit(new, s) == \A Q : Stable(Q, s) => \A i \in 1..Len(new) : Stable(Q, new[i].s)

LEMMA StableAgrees ==
    ASSUME NEW s \in Statements, NEW Q, Stable(Q, s), NEW e, Agrees(Q, e), NEW f, Mild(s, e, f)
    PROVE  Agrees(Q, f)
<1>1. SUFFICES ASSUME NEW p \in Q, NEW x \in p, NEW y \in p PROVE f[x] = f[y]
  BY DEF Agrees
<1>2. e[x] = e[y]
  BY DEF Agrees
<1>3. CASE Rigid(Q)
  <2>1. p \subseteq Immutable \/ x = y
    BY <1>3 DEF Rigid
  <2>. QED BY <1>2, <2>1 DEF Mild
<1>4. CASE ~Rigid(Q)
  <2>1. ~Effects[s] /\ Elements(Q) \subseteq s.scope.visible \cup s.scope.hidden
    BY <1>4 DEF Stable
  <2>2. /\ s.scope.visible \cap s.scope.pending = {}
        /\ (s.scope.visible \cup s.scope.pending) \cap s.scope.hidden = {}
        /\ s.scope.visible \in SUBSET Labels /\ s.scope.hidden \in SUBSET Labels
    BY StatementKinds, ScopeIs
  <2>3. x \in Elements(Q) /\ y \in Elements(Q)
    BY DEF Elements
  <2>4. x \in Labels \ s.scope.pending /\ y \in Labels \ s.scope.pending
    BY <2>1, <2>2, <2>3
  <2>. QED BY <1>2, <2>1, <2>4 DEF Mild
<1>. QED BY <1>3, <1>4

\* A task is ready in X if what holds at it in td holds at it in X.
LEMMA Transfer ==
    ASSUME NEW td, NEW X, NEW e, NEW f, NEW i, NEW k, X[k] = td[i], Ready(td, e, i),
           \A Q : Keeps(td, e, i, Q) => Keeps(X, f, k, Q),
           \A Q : Holds(td, e, i, Q) => Holds(X, f, k, Q)
    PROVE  Ready(X, f, k)
BY DEF Ready

LEMMA TransferHolds ==
    ASSUME NEW td, NEW X, NEW e, NEW f, NEW i \in Nat, i > 1, NEW k \in Nat, k > 1,
           NEW Q, Keeps(td, e, i, Q) => Keeps(X, f, k, Q),
           Follows(td[i - 1], Q) => Follows(X[k - 1], Q), Holds(td, e, i, Q)
    PROVE  Holds(X, f, k, Q)
BY DEF Holds

\* The first task has been replaced.
LEMMA TruthPush ==
    ASSUME NEW td, Shape(td), td # <<>>, NEW e, Truth(td, e), NEW f, Mild(td[1].s, e, f),
           NEW new, Piece(new, td[1]), Inherit(new, td[1].s), Out(new[Len(new)]) = Out(td[1]),
           Truth(new, f), NEW X, Spliced(td, new, X)
    PROVE  Truth(X, f)
<1>. DEFINE M == Len(new)
<1>1. /\ X \in Seq(Tasks) /\ M \in Nat \ {0} /\ Len(td) \in Nat \ {0} /\ Len(X) = M + Len(td) - 1
      /\ \A i \in 1..M : X[i] = new[i]
      /\ \A i \in 1..Len(X) : i > M => i - M + 1 \in 2..Len(td) /\ X[i] = td[i - M + 1]
  BY DEF Spliced
<1>2. M \in Nat \ {0} /\ Len(td) \in Nat \ {0} /\ Len(X) = M + Len(td) - 1
  BY <1>1
<1>3. td[1].s \in Statements /\ Inherit(new, td[1].s) /\ Out(new[M]) = Out(td[1])
  BY FirstTask DEF M
<1>4. \A i \in 1..M : Ready(new, f, i)
  BY DEF Truth
<1>. HIDE DEF M
<1>5. ASSUME NEW i \in 1..Len(X), i <= M PROVE Ready(X, f, i)
  <2>1. i \in 1..M /\ X[i] = new[i]
    BY <1>1, <1>5
  <2>2. \A Q : Keeps(new, f, i, Q) => Keeps(X, f, i, Q)
    <3>1. \A j \in 1..Len(X) : j < i => j \in 1..M /\ X[j] = new[j]
      BY <1>1, <1>2, <1>5
    <3>. QED BY <3>1 DEF Keeps, M
  <2>3. ASSUME NEW Q, Holds(new, f, i, Q) PROVE Holds(X, f, i, Q)
    <3>1. CASE i = 1
      BY <2>2, <2>3, <3>1 DEF Holds
    <3>2. CASE i # 1
      <4>1. i > 1 /\ i - 1 \in 1..M /\ X[i - 1] = new[i - 1]
        BY <1>1, <1>2, <1>5, <3>2
      <4>. QED BY <2>2, <2>3, <4>1 DEF Holds
    <3>. QED BY <3>1, <3>2
  <2>4. Ready(new, f, i)
    BY <1>4, <2>1
  <2>. QED BY <2>1, <2>2, <2>3, <2>4, Transfer
<1>6. ASSUME NEW i \in 1..Len(X), i > M PROVE Ready(X, f, i)
  <2>1. PICK k \in 2..Len(td) : k = i - M + 1 /\ X[i] = td[k]
    BY <1>1, <1>6
  <2>2. k \in 1..Len(td) /\ k > 1 /\ k \in Nat /\ i \in Nat /\ i > 1
    BY <1>2, <1>6, <2>1
  <2>3. ASSUME NEW Q, Keeps(td, e, k, Q) PROVE Keeps(X, f, i, Q)
    <3>1. 1 \in 1..Len(td) /\ 1 < k
      BY <1>2, <2>2
    <3>2. Stable(Q, td[1].s) /\ Agrees(Q, e)
      BY <2>3, <3>1 DEF Keeps
    <3>3. Agrees(Q, f)
      BY <1>3, <3>2, StableAgrees
    <3>4. ASSUME NEW j \in 1..Len(X), j < i PROVE Stable(Q, X[j].s)
      <4>1. CASE j <= M
        <5>1. j \in 1..M /\ X[j] = new[j]
          BY <1>1, <1>2, <4>1
        <5>. QED BY <1>3, <3>2, <5>1 DEF Inherit, M
      <4>2. CASE j > M
        <5>1. j - M + 1 \in 2..Len(td) /\ X[j] = td[j - M + 1]
          BY <1>1, <4>2
        <5>2. j - M + 1 \in 1..Len(td) /\ j - M + 1 < k
          BY <1>2, <2>1, <3>4, <4>2, <5>1
        <5>. QED BY <2>3, <5>1, <5>2 DEF Keeps
      <4>. QED BY <1>2, <4>1, <4>2
    <3>. QED BY <3>3, <3>4 DEF Keeps
  <2>4. ASSUME NEW Q, Follows(td[k - 1], Q) PROVE Follows(X[i - 1], Q)
    <3>1. CASE k = 2
      <4>1. k - 1 = 1 /\ i - 1 = M /\ M \in 1..M
        BY <1>2, <1>6, <2>1, <3>1
      <4>2. Follows(td[1], Q) /\ X[i - 1] = new[M]
        BY <1>1, <2>4, <4>1
      <4>. QED BY <1>3, <4>2 DEF Follows
    <3>2. CASE k # 2
      <4>1. i - 1 \in 1..Len(X) /\ i - 1 > M /\ (i - 1) - M + 1 = k - 1
        BY <1>2, <1>6, <2>1, <3>2
      <4>2. X[i - 1] = td[k - 1]
        BY <1>1, <4>1
      <4>. QED BY <2>4, <4>2
    <3>. QED BY <3>1, <3>2
  <2>5. \A Q : Holds(td, e, k, Q) => Holds(X, f, i, Q)
    BY <2>2, <2>3, <2>4, TransferHolds
  <2>6. Ready(td, e, k)
    BY <2>2 DEF Truth
  <2>. QED BY <2>1, <2>3, <2>5, <2>6, Transfer
<1>. QED BY <1>2, <1>5, <1>6 DEF Truth

\* The first task has been executed.
LEMMA TruthLeft ==
    ASSUME NEW td, Shape(td), td # <<>>, NEW e, Truth(td, e), NEW f, Mild(td[1].s, e, f),
           Agrees(Out(td[1]), f), NEW X, Left(td, 2, X)
    PROVE  Truth(X, f)
<1>1. /\ Len(td) \in Nat \ {0} /\ Len(X) = Len(td) - 1 /\ td[1].s \in Statements
      /\ \A i \in 1..Len(X) : i + 1 \in 1..Len(td) /\ X[i] = td[i + 1]
  <2>1. Len(td) \in Nat \ {0} /\ td[1].s \in Statements
    BY FirstTask
  <2>2. Len(X) = Len(td) - 2 + 1 /\ \A i \in 1..Len(X) : i + 2 - 1 \in 1..Len(td) /\ X[i] = td[i + 2 - 1]
    BY DEF Left
  <2>3. \A i \in Nat : i + 2 - 1 = i + 1
    OBVIOUS
  <2>. QED BY <2>1, <2>2, <2>3
<1>2. SUFFICES ASSUME NEW i \in 1..Len(X) PROVE Ready(X, f, i)
  BY DEF Truth
<1>3. PICK k \in 1..Len(td) : k = i + 1 /\ X[i] = td[k] /\ k > 1 /\ k \in Nat /\ i \in Nat
  BY <1>1
<1>4. ASSUME NEW Q, Keeps(td, e, k, Q) PROVE Keeps(X, f, i, Q)
  <2>1. 1 \in 1..Len(td) /\ 1 < k
    BY <1>1, <1>3
  <2>2. Agrees(Q, f)
    BY <1>1, <1>4, <2>1, StableAgrees DEF Keeps
  <2>3. ASSUME NEW j \in 1..Len(X), j < i PROVE Stable(Q, X[j].s)
    <3>1. j + 1 \in 1..Len(td) /\ X[j] = td[j + 1] /\ j + 1 < k
      BY <1>1, <1>3, <2>3
    <3>. QED BY <1>4, <3>1 DEF Keeps
  <2>. QED BY <2>2, <2>3 DEF Keeps
<1>5. ASSUME NEW Q, Holds(td, e, k, Q) PROVE Holds(X, f, i, Q)
  <2>1. CASE Keeps(td, e, k, Q)
    BY <1>4, <2>1 DEF Holds
  <2>2. CASE Follows(td[k - 1], Q)
    <3>1. CASE i = 1
      <4>1. k - 1 = 1
        BY <1>3, <3>1
      <4>2. Agrees(Q, f)
        BY <2>2, <4>1 DEF Follows, Mild
      <4>3. \A j \in 1..Len(X) : ~(j < 1)
        BY <1>1
      <4>. QED BY <3>1, <4>2, <4>3 DEF Holds, Keeps
    <3>2. CASE i # 1
      <4>1. i - 1 \in 1..Len(X) /\ (i - 1) + 1 = k - 1 /\ i > 1
        BY <1>1, <1>3, <3>2
      <4>2. X[i - 1] = td[k - 1]
        BY <1>1, <4>1
      <4>. QED BY <2>2, <4>1, <4>2 DEF Holds
    <3>. QED BY <3>1, <3>2
  <2>. QED BY <1>5, <2>1, <2>2 DEF Holds
<1>6. Ready(td, e, k)
  BY DEF Truth
<1>. QED BY <1>3, <1>4, <1>5, <1>6, Transfer

\* A loop is left or continued: nothing changes, and the first task that is left is ready.
LEMMA TruthSkip ==
    ASSUME NEW td, Shape(td), NEW e, Truth(td, e), NEW m \in Nat \ {0}, NEW X, Left(td, m, X),
           X # <<>> => Ready(X, e, 1)
    PROVE  Truth(X, e)
<1>1. /\ Len(td) \in Nat /\ Len(X) = Len(td) - m + 1 /\ X \in Seq(Tasks)
      /\ \A i \in 1..Len(X) : i + m - 1 \in 1..Len(td) /\ X[i] = td[i + m - 1]
  BY DEF Left, Shape
<1>2. SUFFICES ASSUME NEW i \in 1..Len(X) PROVE Ready(X, e, i)
  BY DEF Truth
<1>3. CASE i = 1
  <2>1. X # <<>>
    BY <1>1
  <2>. QED BY <1>3, <2>1
<1>4. CASE i # 1
  <2>1. PICK k \in 1..Len(td) : k = i + m - 1 /\ X[i] = td[k]
    BY <1>1
  <2>2. k \in Nat /\ i \in Nat /\ k > 1 /\ i > 1
    BY <1>1, <1>4, <2>1
  <2>3. ASSUME NEW Q, Keeps(td, e, k, Q) PROVE Keeps(X, e, i, Q)
    <3>1. ASSUME NEW j \in 1..Len(X), j < i PROVE Stable(Q, X[j].s)
      <4>1. j + m - 1 \in 1..Len(td) /\ X[j] = td[j + m - 1] /\ j + m - 1 < k
        BY <1>1, <2>1, <3>1
      <4>. QED BY <2>3, <4>1 DEF Keeps
    <3>. QED BY <2>3, <3>1 DEF Keeps
  <2>4. X[i - 1] = td[k - 1]
    <3>1. i - 1 \in 1..Len(X) /\ (i - 1) + m - 1 = k - 1
      BY <1>1, <2>1, <2>2
    <3>2. X[i - 1] = td[(i - 1) + m - 1]
      BY <1>1, <3>1
    <3>. QED BY <3>1, <3>2
  <2>5. \A Q : Holds(td, e, k, Q) => Holds(X, e, i, Q)
    BY <2>2, <2>3, <2>4, TransferHolds
  <2>6. Ready(td, e, k)
    BY DEF Truth
  <2>. QED BY <2>1, <2>3, <2>5, <2>6, Transfer
<1>. QED BY <1>3, <1>4

-----------------------------------------------------------------------------
(* Side effects and conditions                                             *)

LEMMA ImmutableIs ==
    /\ Immutable \subseteq Labels /\ Immutable \subseteq Labels \ Mutable /\ Immutable \subseteq Global
BY LabelAssumption DEF Labels, Vars, Mutable, Global

LEMMA RigidSeparated ==
    ASSUME NEW P
    PROVE  Rigid(SeparateAll(P))
<1>1. \A p \in SeparateAll(P) :
          \/ \E x \in Elements(P) \ Immutable : p = {x}
          \/ p # {} /\ \E q \in P : p = q \cap Immutable
  BY DEF SeparateAll
<1>. QED BY <1>1 DEF Rigid

\* What is known survives the side effects it has been prepared for.
LEMMA SeparatedAgrees ==
    ASSUME NEW P, IsPartitionState(P), NEW e, Agrees(P, e)
    PROVE  /\ \A b : Agrees(Separated(b, P), e)
           /\ \A f : (\A x \in Immutable : f[x] = e[x]) => Agrees(SeparateAll(P), f)
<1>1. \A f : (\A x \in Immutable : f[x] = e[x]) => Agrees(SeparateAll(P), f)
  BY SeparateSound
<1>2. Agrees(SeparateAll(P), e)
  BY <1>1
<1>. QED BY <1>1, <1>2 DEF Separated

\* What the analysis says of each outcome of a condition.
LEMMA JudgedSound ==
    ASSUME NEW c \in Conditions, NEW e \in Envs, NEW r \in Results[c][e], NEW P, NEW V, NEW N,
           Fits(P, V, N), c.labels \subseteq V \cap N, Agrees(P, e)
    PROVE  /\ r.val => Agrees(Assume(c, P), r.env)
           /\ ~r.val => Agrees(Refute(c, P), r.env)
<1>1. /\ r.env \in Envs /\ \A x \in Labels \ Mutable : r.env[x] = e[x]
      /\ ~CondEffects[c] => r.env = e
  BY ResultsKeep DEF Keeping
<1>2. CASE CondEffects[c]
  <2>1. Agrees(SeparateAll(P), r.env)
    BY <1>1, SeparatedAgrees, ImmutableIs DEF Fits
  <2>. QED BY <1>2, <2>1 DEF Assume, Refute
<1>3. CASE ~CondEffects[c]
  <2>1. Informed(c, e, r)
    BY <1>3, GuardedSound
  <2>2. r.env = e
    BY <1>1, <1>3
  <2>. QED BY <1>3, <2>1, <2>2 DEF Informed, Assume, Refute
<1>. QED BY <1>2, <1>3

\* A condition that is evaluated changes no more than its statement may.
LEMMA CondMild ==
    ASSUME NEW s \in Statements, s.k \in {"if", "require", "while", "dowhile", "for"},
           NEW e \in Envs, NEW r \in Results[s.cond][e]
    PROVE  Mild(s, e, r.env) /\ (~CondEffects[s.cond] => r.env = e) /\ r.val \in BOOLEAN
<1>1. s.cond \in Conditions
  BY Parts
<1>2. /\ r.env \in Envs /\ \A x \in Labels \ Mutable : r.env[x] = e[x]
      /\ ~CondEffects[s.cond] => r.env = e
      /\ r.val \in BOOLEAN
  BY <1>1, ResultsKeep DEF Keeping
<1>3. CondEffects[s.cond] => Effects[s]
  BY EffectsAre
<1>. QED BY <1>2, <1>3, ImmutableIs DEF Mild

\* What is known before a loop, or after its body, holds after the condition too.
LEMMA SeparatedMild ==
    ASSUME NEW P, IsPartitionState(P), NEW e, Agrees(P, e), NEW c, NEW f,
           \A x \in Immutable : f[x] = e[x], ~CondEffects[c] => f = e, NEW b, CondEffects[c] => b
    PROVE  Agrees(Separated(b, P), f)
<1>1. CASE CondEffects[c]
  BY <1>1, SeparatedAgrees DEF Separated
<1>2. CASE ~CondEffects[c]
  BY <1>2, SeparatedAgrees
<1>. QED BY <1>1, <1>2

-----------------------------------------------------------------------------
(* Simple statements                                                       *)

\* The values that are stored, if the statement has a call on its right side or not.
Sourced(e, f, rhs) ==
    /\ f \in Envs /\ \A x \in Labels \ Mutable : f[x] = e[x]
    /\ (\A i \in DOMAIN rhs : rhs[i] # Call) => f = e

LEMMA DeclSound ==
    ASSUME NEW s \in Statements, s.k = "decl", NEW P, FitsScope(P, s.scope), NEW e \in Envs,
           Agrees(P, e), NEW g, Sourced(e, g, <<s.rhs>>), NEW f \in Assigned(g, <<s.var>>, <<s.rhs>>)
    PROVE  Mild(s, e, f) /\ Agrees(AfterAnalysis[s][P], f)
<1>1. /\ s.var \in s.scope.pending /\ s.rhs \in s.scope.visible \cup {Fresh, Call}
      /\ s.scope.visible \cap s.scope.pending = {} /\ Global \subseteq s.scope.visible
      /\ s.scope.visible \subseteq Labels /\ s.scope.pending \subseteq Labels /\ s.scope \in Scopes
  BY StatementKinds, ScopeIs
<1>2. s.var \notin s.scope.visible /\ s.var \notin Immutable /\ s.var \in Labels
  BY <1>1, ImmutableIs
<1>3. /\ P \in States /\ IsPartitionState(P) /\ Elements(P) = Tracked(s.scope)
      /\ Fits(P, s.scope.visible, Tracked(s.scope))
  BY DEF FitsScope, Fits
<1>4. /\ g \in Envs /\ \A x \in Labels \ Mutable : g[x] = e[x]
      /\ s.rhs # Call => g = e
  <2>1. \A i \in DOMAIN <<s.rhs>> : <<s.rhs>>[i] = s.rhs
    OBVIOUS
  <2>. QED BY <2>1 DEF Sourced
<1>5. /\ f \in Envs
      /\ \A x \in Labels : x # s.var => f[x] = g[x]
      /\ s.rhs \notin {Fresh, Call} => f[s.var] = g[s.rhs]
  <2>. DEFINE lhs == <<s.var>>
              rhs == <<s.rhs>>
  <2>1. /\ lhs \in Seq(Labels) /\ rhs \in Seq(Labels \cup {Fresh, Call}) /\ Len(lhs) = Len(rhs)
    BY StoreLabels
  <2>2. Len(lhs) = 1 /\ lhs[1] = s.var /\ rhs[1] = s.rhs
    OBVIOUS
  <2>3. f \in Assigned(g, lhs, rhs)
    OBVIOUS
  <2>. HIDE DEF lhs, rhs
  <2>4. /\ f \in Envs
        /\ \A x \in Labels : (\A i \in 1..Len(lhs) : lhs[i] # x) => f[x] = g[x]
        /\ \A i \in 1..Len(lhs) :
              (\A j \in 1..Len(lhs) : lhs[j] = lhs[i] => j = i) /\ rhs[i] \notin {Fresh, Call}
                  => f[lhs[i]] = g[rhs[i]]
    BY <1>4, <2>1, <2>3, AssignedIs
  <2>5. \A i \in 1..Len(lhs) : i = 1
    BY <2>2
  <2>6. 1 \in 1..Len(lhs)
    BY <2>2
  <2>. QED BY <2>2, <2>4, <2>5, <2>6
<1>6. Mild(s, e, f)
  <2>1. \A x \in Immutable : f[x] = e[x]
    BY <1>2, <1>4, <1>5, ImmutableIs
  <2>2. Effects[s] <=> s.rhs = Call
    BY EffectsAre
  <2>3. s.rhs # Call => \A x \in Labels \ s.scope.pending : f[x] = e[x]
    BY <1>1, <1>4, <1>5
  <2>. QED BY <1>5, <2>1, <2>2, <2>3 DEF Mild
<1>7. AfterAnalysis[s][P] = AfterDecl(s, P)
  BY <1>3, AfterIs DEF AfterBy
<1>8. CASE s.rhs = Call
  <2>1. Agrees(SeparateAll(P), g)
    BY <1>3, <1>4, SeparatedAgrees, ImmutableIs
  <2>2. Fits(SeparateAll(P), s.scope.visible, Tracked(s.scope))
    BY <1>3, FitsSeparate
  <2>3. \A x \in Labels : x \in s.scope.visible => f[x] = g[x]
    BY <1>2, <1>5
  <2>4. Agrees(SeparateAll(P), f)
    BY <2>1, <2>2, <2>3, Unknown
  <2>. QED BY <1>6, <1>7, <1>8, <2>4 DEF AfterDecl, Separated
<1>9. CASE s.rhs # Call
  <2>1. \A x \in Labels : x \in s.scope.visible => f[x] = e[x]
    BY <1>2, <1>4, <1>5, <1>9
  <2>2. Agrees(P, f)
    BY <1>3, <2>1, Unknown
  <2>3. CASE s.rhs = Fresh
    BY <1>6, <1>7, <1>9, <2>2, <2>3 DEF AfterDecl, Separated
  <2>4. CASE s.rhs # Fresh
    <3>1. s.rhs \in s.scope.visible /\ f[s.var] = f[s.rhs]
      BY <1>1, <1>2, <1>4, <1>5, <1>9, <2>1, <2>4
    <3>2. s.var \in Elements(P) /\ s.rhs \in Elements(P)
      BY <1>1, <1>3, <3>1 DEF Tracked
    <3>3. MayMerge(P, s.var, s.rhs)
      BY <1>3, <3>2, PartOfTracked DEF MayMerge
    <3>4. Agrees(Merge(P, s.var, s.rhs), f)
      BY <1>3, <2>2, <3>1, <3>3, MergeSound
    <3>. QED BY <1>6, <1>7, <1>9, <2>4, <3>4 DEF AfterDecl
  <2>. QED BY <2>3, <2>4
<1>. QED BY <1>8, <1>9

LEMMA CallSound ==
    ASSUME NEW s \in Statements, s.k = "call", NEW P, FitsScope(P, s.scope), NEW e \in Envs,
           Agrees(P, e), NEW f \in AfterCall(e)
    PROVE  Mild(s, e, f) /\ Agrees(AfterAnalysis[s][P], f)
<1>1. P \in States /\ IsPartitionState(P)
  BY DEF FitsScope, Fits
<1>2. f \in Envs /\ \A x \in Immutable : f[x] = e[x]
  BY AfterCallIs, ImmutableIs
<1>3. Mild(s, e, f)
  BY <1>2, EffectsAre DEF Mild
<1>4. Agrees(SeparateAll(P), f)
  BY <1>1, <1>2, SeparatedAgrees
<1>5. AfterAnalysis[s][P] = SeparateAll(P)
  BY <1>1, AfterIs DEF AfterBy
<1>. QED BY <1>3, <1>4, <1>5

LEMMA RequireSound ==
    ASSUME NEW s \in Statements, s.k = "require", NEW P, FitsScope(P, s.scope), NEW e \in Envs,
           Agrees(P, e), NEW r \in Results[s.cond][e]
    PROVE  Mild(s, e, r.env) /\ (r.val => Agrees(AfterAnalysis[s][P], r.env))
<1>. DEFINE c == s.cond
            Q == Separated(CondEffects[c], P)
<1>1. P \in States /\ IsPartitionState(P) /\ Fits(P, s.scope.visible, Tracked(s.scope))
  BY DEF FitsScope, Fits
<1>2. Mild(s, e, r.env) /\ (~CondEffects[c] => r.env = e) /\ r.val \in BOOLEAN
  BY CondMild
<1>3. c \in Conditions /\ c.labels \subseteq s.scope.visible
  BY StatementKinds DEF Guards
<1>4. s.scope \in Scopes /\ s.scope.visible \subseteq Tracked(s.scope)
  BY StatementKinds, ScopeIs, TrackedIs
<1>5. AfterAnalysis[s][P] = AfterRequire(c, Q)
  BY <1>1, AfterIs DEF AfterBy
<1>. HIDE DEF c
<1>6. Agrees(Q, r.env)
  BY <1>1, <1>2, SeparatedMild DEF Mild
<1>7. Fits(Q, s.scope.visible, Tracked(s.scope))
  BY <1>1, FitsSeparate
<1>. HIDE DEF Q
<1>8. ASSUME r.val, c.op = "eq", {c.l, c.r} \cap {Fresh, Call} = {}
      PROVE  Agrees(Merge(Q, c.l, c.r), r.env)
  <2>1. ~CondEffects[c]
    BY <1>3, <1>8, CondEffectsAre
  <2>2. r \in ResultsBy(Results, c, e)
    BY <1>3, ResultsAre DEF c
  <2>3. e[c.l] = e[c.r]
    <3>. DEFINE equal == IF Fresh \in {c.l, c.r} THEN BOOLEAN ELSE {e[c.l] = e[c.r]}
    <3>1. equal = {e[c.l] = e[c.r]}
      BY <1>8
    <3>2. r \in {Valued(b, e) : b \in equal}
      BY <1>8, <2>2 DEF ResultsBy
    <3>. HIDE DEF equal
    <3>3. PICK b \in equal : r = Valued(b, e)
      BY <3>2
    <3>4. r.val = b
      BY <3>3 DEF Valued
    <3>5. b = (e[c.l] = e[c.r])
      BY <3>1
    <3>. QED BY <1>8, <3>4, <3>5
  <2>4. {c.l, c.r} \subseteq c.labels
    <3>1. {c.l, c.r} \subseteq c.labels \cup {Fresh}
      BY <1>3, <1>8, ProgramAssumption DEF WellFormedCondition
    <3>. QED BY <1>8, <3>1
  <2>5. Elements(Q) = Tracked(s.scope) /\ IsPartitionState(Q)
    BY <1>7 DEF Fits
  <2>6. MayMerge(Q, c.l, c.r)
    BY <1>3, <1>4, <2>4, <2>5, PartOfTracked DEF MayMerge
  <2>. QED BY <1>2, <1>6, <2>1, <2>3, <2>5, <2>6, MergeSound
<1>9. r.val => Agrees(AfterRequire(c, Q), r.env)
  BY <1>6, <1>8 DEF AfterRequire
<1>. QED BY <1>2, <1>5, <1>9

\* The values after the first k targets of a tuple have been assigned.
Halfway(lhs, g, f, k) ==
    [x \in Labels |-> IF \E i \in 1..k : lhs[i] = x THEN f[x] ELSE g[x]]

\* One target: rhs[k] has not been assigned before.
LEMMA MoveOneSound ==
    ASSUME NEW P, IsPartitionState(P), NEW lhs, NEW rhs, NEW k \in Nat \ {0}, lhs[k] \in Labels,
           Has(P, lhs[k]), NEW g, NEW f, Agrees(P, Halfway(lhs, g, f, k - 1)),
           ~Untracked(P, rhs[k]) => /\ rhs[k] \in Labels /\ f[lhs[k]] = g[rhs[k]]
                                    /\ \A i \in 1..(k - 1) : lhs[i] # rhs[k]
    PROVE  Agrees(MoveOne(lhs, rhs, k, P), Halfway(lhs, g, f, k))
<1>. DEFINE E == Halfway(lhs, g, f, k - 1)
            F == Halfway(lhs, g, f, k)
            x == lhs[k]
<1>1. F = [E EXCEPT ![x] = f[x]]
  <2>1. \A i \in 1..k : i \in 1..(k - 1) \/ i = k
    OBVIOUS
  <2>2. \A i \in 1..(k - 1) : i \in 1..k
    OBVIOUS
  <2>3. k \in 1..k
    OBVIOUS
  <2>. QED BY <2>1, <2>2, <2>3 DEF Halfway
<1>2. DOMAIN E = Labels
  BY DEF Halfway
<1>3. ~Untracked(P, rhs[k]) => E[rhs[k]] = g[rhs[k]]
  BY DEF Halfway
<1>. HIDE DEF E, F
<1>4. CASE Untracked(P, rhs[k])
  <2>1. Agrees(MoveToSeparate(P, x), [E EXCEPT ![x] = f[x]])
    BY MoveToSeparateSound DEF E
  <2>. QED BY <1>1, <1>4, <2>1 DEF MoveOne, F
<1>5. CASE ~Untracked(P, rhs[k])
  <2>1. Has(P, rhs[k]) /\ E[rhs[k]] = f[x]
    BY <1>3, <1>5 DEF Untracked
  <2>2. Agrees(MoveTo(P, x, rhs[k]), [E EXCEPT ![x] = E[rhs[k]]])
    BY <1>2, <2>1, MoveSound DEF E
  <2>. QED BY <1>1, <1>5, <2>1, <2>2 DEF MoveOne, F
<1>. QED BY <1>4, <1>5

LEMMA AssignSound ==
    ASSUME NEW s \in Statements, s.k = "assign", Judged(s), NEW P, FitsScope(P, s.scope),
           NEW e \in Envs, Agrees(P, e), NEW g, Sourced(e, g, s.rhs),
           NEW f \in Assigned(g, s.lhs, s.rhs)
    PROVE  Mild(s, e, f) /\ Agrees(AfterAnalysis[s][P], f)
<1>. DEFINE n == Len(s.lhs)
            b == \E i \in DOMAIN s.rhs : s.rhs[i] = Call
            Q == Separated(b, P)
            M == Moves(s.lhs, s.rhs, Q)
            E(k) == Halfway(s.lhs, g, f, k)
            Bad == {k \in 0..n : ~Agrees(M[k], E(k))}
<1>1. /\ s.lhs \in Seq(Labels) /\ n \in Nat /\ DOMAIN s.lhs = 1..n /\ DOMAIN s.rhs = 1..n
      /\ \A i \in 1..n : /\ s.lhs[i] \in s.scope.visible \ Immutable
                         /\ s.rhs[i] \in s.scope.visible \cup {Fresh, Call}
  BY Sides
<1>2. s.scope.visible \subseteq Labels /\ s.scope.visible \subseteq Tracked(s.scope)
  BY StatementKinds, ScopeIs, TrackedIs
<1>3. g \in Envs /\ (\A x \in Labels \ Mutable : g[x] = e[x]) /\ (~b => g = e)
  BY DEF Sourced
<1>4. /\ f \in Envs
      /\ \A x \in Labels : (\A i \in 1..n : s.lhs[i] # x) => f[x] = g[x]
      /\ \A i \in 1..n :
            (\A j \in 1..n : s.lhs[j] = s.lhs[i] => j = i) /\ s.rhs[i] \notin {Fresh, Call}
                => f[s.lhs[i]] = g[s.rhs[i]]
  BY <1>3, AssignedIs, StoreLabels
<1>5. Mild(s, e, f)
  <2>1. \A x \in Immutable : f[x] = e[x]
    BY <1>1, <1>3, <1>4, ImmutableIs
  <2>. QED BY <1>4, <2>1, EffectsAre DEF Mild
<1>6. P \in States /\ IsPartitionState(P) /\ Fits(P, s.scope.visible, Tracked(s.scope))
  BY DEF FitsScope, Fits
<1>7. FitsScope(Q, s.scope) /\ Q \in States
  <2>1. Fits(Q, s.scope.visible, Tracked(s.scope))
    BY <1>6, FitsSeparate
  <2>. QED BY <2>1 DEF FitsScope, Fits
<1>8. Agrees(Q, g)
  <2>1. CASE b
    BY <1>3, <1>6, <2>1, SeparatedAgrees, ImmutableIs DEF Separated
  <2>2. CASE ~b
    BY <1>3, <1>6, <2>2, SeparatedAgrees
  <2>. QED BY <2>1, <2>2
<1>9. AfterAnalysis[s][P] = M[n]
  BY <1>6, AfterIs DEF AfterBy, Moved
<1>10. \A i \in 0..n : FitsScope(M[i], s.scope)
  <2>. HIDE DEF Q
  <2>. QED BY <1>7, MovesFit
<1>11. M[0] = Q /\ \A i \in 1..n : M[i] = MoveOne(s.lhs, s.rhs, i, M[i - 1])
  <2>. HIDE DEF Q
  <2>1. s.lhs \in Seq(Labels) /\ Q \in States
    BY <1>1, <1>7
  <2>2. M[0] = Q
    BY <2>1, MovesAre
  <2>3. \A i \in 1..n : M[i] = MoveOne(s.lhs, s.rhs, i, M[i - 1])
    BY <2>1, MovesAre
  <2>. QED BY <2>2, <2>3
<1>12. /\ \A i, j \in 1..n : i < j => s.lhs[i] # s.rhs[j] /\ s.lhs[i] # s.lhs[j]
  BY <1>1 DEF Judged
<1>13. E(0) = g
  <2>1. \A i \in 1..0 : FALSE
    OBVIOUS
  <2>2. E(0) = [x \in Labels |-> g[x]]
    BY <2>1 DEF Halfway
  <2>. QED BY <1>3, <2>2 DEF Envs
<1>14. E(n) = f
  <2>1. E(n) = [x \in Labels |-> f[x]]
    BY <1>4 DEF Halfway
  <2>. QED BY <1>4, <2>1 DEF Envs
<1>. HIDE DEF M, E, Q, b
<1>15. Bad = {}
  <2>1. SUFFICES ASSUME Bad # {} PROVE FALSE
    OBVIOUS
  <2>2. PICK k \in Bad : \A j \in Bad : k <= j
    <3>1. Bad \in SUBSET Nat
      BY <1>1
    <3>. HIDE DEF Bad
    <3>. QED BY <2>1, <3>1, Least
  <2>3. k \in 0..n /\ ~Agrees(M[k], E(k))
    BY <2>2
  <2>4. k # 0
    BY <1>8, <1>11, <1>13, <2>3
  <2>5. k \in 1..n /\ k - 1 \in 0..n /\ ~(k <= k - 1) /\ k \in Nat \ {0}
    BY <1>1, <2>3, <2>4
  <2>6. Agrees(M[k - 1], E(k - 1))
    BY <2>2, <2>5
  <2>7. IsPartitionState(M[k - 1]) /\ Elements(M[k - 1]) = Tracked(s.scope)
    BY <1>10, <2>5 DEF FitsScope, Fits
  <2>8. s.lhs[k] \in Labels /\ Has(M[k - 1], s.lhs[k])
    BY <1>1, <1>2, <2>5, <2>7, PartOfTracked
  <2>9. ASSUME ~Untracked(M[k - 1], s.rhs[k])
        PROVE  /\ s.rhs[k] \in Labels /\ f[s.lhs[k]] = g[s.rhs[k]]
               /\ \A i \in 1..(k - 1) : s.lhs[i] # s.rhs[k]
    <3>1. s.rhs[k] \notin {Fresh, Call}
      BY <2>9 DEF Untracked
    <3>2. s.rhs[k] \in Labels
      BY <1>1, <1>2, <2>5, <3>1
    <3>3. \A j \in 1..n : s.lhs[j] = s.lhs[k] => j = k
      <4>1. \A j \in 1..n : j < k \/ k < j \/ j = k
        BY <1>1, <2>5
      <4>. QED BY <1>12, <2>5, <4>1
    <3>4. f[s.lhs[k]] = g[s.rhs[k]]
      BY <1>4, <2>5, <3>1, <3>3
    <3>5. \A i \in 1..(k - 1) : i \in 1..n /\ i < k
      BY <1>1, <2>5
    <3>. QED BY <1>12, <2>5, <3>2, <3>4, <3>5
  <2>10. Agrees(MoveOne(s.lhs, s.rhs, k, M[k - 1]), E(k))
    BY <2>5, <2>6, <2>7, <2>8, <2>9, MoveOneSound DEF E
  <2>. QED BY <1>11, <2>3, <2>5, <2>10
<1>16. Agrees(M[n], E(n))
  <2>1. n \in 0..n
    BY <1>1
  <2>. QED BY <1>15, <2>1
<1>. QED BY <1>5, <1>9, <1>14, <1>16

-----------------------------------------------------------------------------
(* Statements within others                                                *)

\* The names a statement of scope sc does not declare.
Kept(sc) == sc.visible \cup sc.hidden

LEMMA KeptGrows ==
    ASSUME NEW sc \in Scopes
    PROVE  /\ Kept(sc) \subseteq Kept(Inner(sc)) /\ Kept(Inner(sc)) = Tracked(sc)
           /\ \A names : Kept(sc) \subseteq Kept(Opened(sc, names))
           /\ \A exits : Kept(sc) \subseteq Kept(Looped(sc, exits)) /\ Kept(Looped(sc, exits)) = Tracked(sc)
           /\ \A s : Kept(sc) \subseteq Kept(Declaring(sc, s))
<1>1. Kept(sc) \subseteq Kept(Inner(sc)) /\ Kept(Inner(sc)) = Tracked(sc)
  BY InnerIs DEF Kept, Tracked
<1>2. ASSUME NEW names PROVE Kept(sc) \subseteq Kept(Opened(sc, names))
  BY OpenedIs DEF Kept
<1>3. ASSUME NEW exits
      PROVE  Kept(sc) \subseteq Kept(Looped(sc, exits)) /\ Kept(Looped(sc, exits)) = Tracked(sc)
  BY LoopedIs DEF Kept, Tracked
<1>4. ASSUME NEW s PROVE Kept(sc) \subseteq Kept(Declaring(sc, s))
  <2>1. CASE s.k = "decl"
    BY <2>1, DeclaringIs DEF Kept
  <2>2. CASE s.k # "decl"
    BY <2>2, DeclaringIs
  <2>. QED BY <2>1, <2>2
<1>. QED BY <1>1, <1>2, <1>3, <1>4

\* u, in s, ends no more than s does.
LEMMA StablePart ==
    ASSUME NEW s \in Statements, NEW u \in Statements, Effects[u] => Effects[s],
           Kept(s.scope) \subseteq Kept(u.scope)
    PROVE  \A Q : Stable(Q, s) => Stable(Q, u)
BY DEF Stable, Kept

\* Every part ends no more than the whole.
LEMMA PartsStable ==
    ASSUME NEW s \in Statements, NEW Q, Stable(Q, s)
    PROVE  /\ s.k = "list" => Stable(Q, s.first) /\ Stable(Q, s.rest)
           /\ s.k \in {"block", "while", "dowhile", "for"} => Stable(Q, s.body)
           /\ s.k = "if" => Stable(Q, s.then) /\ Stable(Q, s.else)
           /\ s.k = "for" => Stable(Q, s.init) /\ Stable(Q, s.update)
<1>1. s.scope \in Scopes
  BY StatementKinds, ScopeIs
<1>2. CASE s.k = "list"
  <2>1. /\ s.first \in Statements /\ s.rest \in Statements
        /\ s.first.scope = IF s.first.k = "decl" THEN s.scope ELSE Inner(s.scope)
        /\ s.rest.scope = Declaring(s.scope, s.first)
    BY <1>2, StatementKinds DEF Under
  <2>2. (Effects[s.first] => Effects[s]) /\ (Effects[s.rest] => Effects[s])
    BY <1>2, EffectsAre
  <2>3. Kept(s.scope) \subseteq Kept(s.first.scope) /\ Kept(s.scope) \subseteq Kept(s.rest.scope)
    BY <1>1, <2>1, KeptGrows
  <2>4. Stable(Q, s.first) /\ Stable(Q, s.rest)
    BY <2>1, <2>2, <2>3, StablePart
  <2>. QED BY <1>2, <2>4
<1>3. CASE s.k = "block"
  <2>1. s.body \in Statements /\ s.body.scope = Opened(s.scope, s.names)
    BY <1>3, StatementKinds DEF Under
  <2>2. Effects[s.body] => Effects[s]
    BY <1>3, EffectsAre
  <2>3. Stable(Q, s.body)
    BY <1>1, <2>1, <2>2, StablePart, KeptGrows
  <2>. QED BY <1>3, <2>3
<1>4. CASE s.k = "if"
  <2>1. /\ s.then \in Statements /\ s.then.scope = Inner(s.scope)
        /\ s.else \in Statements /\ s.else.scope = Inner(s.scope)
    BY <1>4, StatementKinds DEF Under, Branch
  <2>2. (Effects[s.then] => Effects[s]) /\ (Effects[s.else] => Effects[s])
    BY <1>4, EffectsAre
  <2>3. Stable(Q, s.then) /\ Stable(Q, s.else)
    BY <1>1, <2>1, <2>2, StablePart, KeptGrows
  <2>. QED BY <1>4, <2>3
<1>5. CASE s.k \in {"while", "dowhile"}
  <2>1. s.body \in Statements /\ s.body.scope = Looped(s.scope, ExitsOf(s))
    BY <1>5, StatementKinds DEF Under, Branch
  <2>2. Effects[s.body] => Effects[s]
    BY <1>5, EffectsAre
  <2>3. Stable(Q, s.body)
    BY <1>1, <2>1, <2>2, StablePart, KeptGrows
  <2>. QED BY <1>5, <2>3
<1>6. CASE s.k = "for"
  <2>1. /\ s.init \in Statements /\ s.init.scope = Opened(s.scope, s.names)
        /\ s.update \in Statements /\ s.update.scope = Inner(InFor(s))
        /\ s.body \in Statements /\ s.body.scope = Looped(InFor(s), ExitsOf(s))
        /\ InFor(s) = Declaring(s.init.scope, s.init)
    BY <1>6, ForKind DEF Under, Branch, InFor
  <2>2. s.init.scope \in Scopes /\ InFor(s) \in Scopes
    BY <1>6, <2>1, StatementKinds, ScopeIs, ForScopes
  <2>3. /\ Effects[s.init] => Effects[s]
        /\ Effects[s.update] => Effects[s]
        /\ Effects[s.body] => Effects[s]
    BY <1>6, EffectsAre
  <2>4. Kept(s.scope) \subseteq Kept(s.init.scope) /\ Kept(s.init.scope) \subseteq Kept(InFor(s))
    BY <1>1, <2>1, <2>2, KeptGrows
  <2>5. Kept(InFor(s)) \subseteq Kept(s.update.scope) /\ Kept(InFor(s)) \subseteq Kept(s.body.scope)
    BY <2>1, <2>2, KeptGrows
  <2>6. Stable(Q, s.init) /\ Stable(Q, s.update) /\ Stable(Q, s.body)
    BY <2>1, <2>3, <2>4, <2>5, StablePart
  <2>. QED BY <1>6, <2>6
<1>7. CASE s.k \notin {"list", "block", "if", "while", "dowhile", "for"}
  BY <1>7
<1>. QED BY <1>2, <1>3, <1>4, <1>5, <1>6, <1>7

\* What is known before the condition of a loop: for each iteration, and after
\* the condition.
LEMMA LoopStable ==
    ASSUME NEW s \in Statements, s.k \in Loops, NEW P, FitsScope(P, s.scope),
           NEW Q, Q = BeforeCond(AfterAnalysis, s, P)
    PROVE  /\ Stable(Q, s.body) /\ (s.k = "for" => Stable(Q, s.update))
           /\ CondEffects[s.cond] => Rigid(Q)
<1>1. s.scope \in Scopes
  BY StatementKinds, ScopeIs
<1>2. CASE s.k = "for"
  <2>1. Q = IF CondEffects[s.cond] \/ Effects[s.body] \/ Effects[s.update]
            THEN SeparateAll(InsertAll(P, s.names)) ELSE AfterInit(AfterAnalysis, s, P)
    BY <1>2 DEF BeforeCond, ForHead
  <2>2. /\ s.update.scope = Inner(InFor(s)) /\ s.body.scope = Looped(InFor(s), ExitsOf(s))
        /\ InFor(s) \in Scopes /\ Tracked(InFor(s)) = Tracked(s.scope) \cup s.names
    BY <1>2, ForKind, ForScopes DEF Under, Branch
  <2>3. Elements(Q) = Tracked(s.scope) \cup s.names
    <3>1. PICK V, N : V = InFor(s).visible /\ N = Tracked(s.scope) \cup s.names
      OBVIOUS
    <3>2. Fits(ForHead(AfterAnalysis, s, P), V, N)
      BY <1>2, <3>1, ForFits, AfterFits, Parts
    <3>. QED BY <1>2, <3>1, <3>2 DEF Fits, BeforeCond
  <2>4. Elements(Q) \subseteq Kept(s.update.scope) /\ Elements(Q) \subseteq Kept(s.body.scope)
    BY <2>2, <2>3, KeptGrows
  <2>5. CASE CondEffects[s.cond] \/ Effects[s.body] \/ Effects[s.update]
    <3>1. Rigid(Q)
      BY <2>1, <2>5, RigidSeparated
    <3>. QED BY <3>1 DEF Stable
  <2>6. CASE ~(CondEffects[s.cond] \/ Effects[s.body] \/ Effects[s.update])
    BY <2>4, <2>6 DEF Stable, Kept
  <2>. QED BY <2>5, <2>6
<1>3. CASE s.k \in {"while", "dowhile"}
  <2>1. Q = LoopHead(s, P)
    BY <1>3 DEF BeforeCond
  <2>2. s.body.scope = Looped(s.scope, ExitsOf(s))
    BY <1>3, StatementKinds DEF Under, Branch
  <2>3. Elements(Q) = Tracked(s.scope)
    BY <1>3, <2>1, WhileFits, AfterFits, Parts DEF Fits
  <2>4. Elements(Q) \subseteq Kept(s.body.scope)
    BY <1>1, <2>2, <2>3, KeptGrows
  <2>5. CASE CondEffects[s.cond] \/ Effects[s.body]
    <3>1. Rigid(Q)
      BY <2>1, <2>5, RigidSeparated DEF LoopHead, Separated
    <3>. QED BY <1>3, <3>1 DEF Stable
  <2>6. CASE ~(CondEffects[s.cond] \/ Effects[s.body])
    BY <1>3, <2>4, <2>6 DEF Stable, Kept
  <2>. QED BY <2>5, <2>6
<1>. QED BY <1>2, <1>3 DEF Loops

\* What is known before the condition of a loop is true after it.
LEMMA HeadKept ==
    ASSUME NEW s \in Statements, s.k \in Loops, NEW P, FitsScope(P, s.scope),
           NEW Q, Q = BeforeCond(AfterAnalysis, s, P), NEW e \in Envs, Agrees(Q, e),
           NEW r \in Results[s.cond][e]
    PROVE  Agrees(Q, r.env)
<1>1. Mild(s, e, r.env) /\ (~CondEffects[s.cond] => r.env = e)
  BY CondMild DEF Loops
<1>2. CondEffects[s.cond] => Rigid(Q)
  BY LoopStable
<1>3. CASE CondEffects[s.cond]
  BY <1>1, <1>2, <1>3, StableAgrees DEF Stable
<1>4. CASE ~CondEffects[s.cond]
  BY <1>1, <1>4
<1>. QED BY <1>3, <1>4

-----------------------------------------------------------------------------
(* The truth of the tasks that replace a task                              *)

\* What the tasks new need to replace task t when f is reached.
Replaced(new, t, f) ==
    Truth(new, f) /\ Inherit(new, t.s) /\ Out(new[Len(new)]) = Out(t)

LEMMA FirstHolds ==
    ASSUME NEW X, Len(X) \in Nat, NEW f, NEW Q, Agrees(Q, f)
    PROVE  Keeps(X, f, 1, Q) /\ Holds(X, f, 1, Q)
<1>1. \A j \in 1..Len(X) : ~(j < 1)
  OBVIOUS
<1>. QED BY <1>1 DEF Keeps, Holds

LEMMA SecondHolds ==
    ASSUME NEW X, Len(X) \in Nat, NEW f, NEW Q
    PROVE  /\ Agrees(Q, f) /\ Stable(Q, X[1].s) => Keeps(X, f, 2, Q) /\ Holds(X, f, 2, Q)
           /\ Follows(X[1], Q) => Holds(X, f, 2, Q)
<1>1. (\A j \in 1..Len(X) : j < 2 => j = 1) /\ 2 - 1 = 1
  OBVIOUS
<1>. QED BY <1>1 DEF Keeps, Holds

LEMMA ThirdHolds ==
    ASSUME NEW X, NEW f, NEW Q, Follows(X[2], Q)
    PROVE  Holds(X, f, 3, Q)
<1>1. 3 - 1 = 2
  OBVIOUS
<1>. QED BY <1>1 DEF Holds

\* One, two or three tasks.
LEMMA Replaced1 ==
    ASSUME NEW t, NEW f, NEW u, NEW X, X = <<u>>, Ready(X, f, 1), Out(u) = Out(t),
           \A Q : Stable(Q, t.s) => Stable(Q, u.s)
    PROVE  Replaced(X, t, f)
<1>1. Len(X) = 1 /\ X[1] = u
  OBVIOUS
<1>2. \A i \in 1..Len(X) : i = 1
  BY <1>1
<1>. QED BY <1>1, <1>2 DEF Replaced, Truth, Inherit

LEMMA Replaced2 ==
    ASSUME NEW t, NEW f, NEW u, NEW v, NEW X, X = <<u, v>>, Ready(X, f, 1), Ready(X, f, 2),
           Out(v) = Out(t), \A Q : Stable(Q, t.s) => Stable(Q, u.s) /\ Stable(Q, v.s)
    PROVE  Replaced(X, t, f)
<1>1. Len(X) = 2 /\ X[1] = u /\ X[2] = v
  OBVIOUS
<1>2. \A i \in 1..Len(X) : i = 1 \/ i = 2
  BY <1>1
<1>. QED BY <1>1, <1>2 DEF Replaced, Truth, Inherit

LEMMA Replaced3 ==
    ASSUME NEW t, NEW f, NEW u, NEW v, NEW w, NEW X, X = <<u, v, w>>,
           Ready(X, f, 1), Ready(X, f, 2), Ready(X, f, 3), Out(w) = Out(t),
           \A Q : Stable(Q, t.s) => Stable(Q, u.s) /\ Stable(Q, v.s) /\ Stable(Q, w.s)
    PROVE  Replaced(X, t, f)
<1>1. Len(X) = 3 /\ X[1] = u /\ X[2] = v /\ X[3] = w
  OBVIOUS
<1>2. \A i \in 1..Len(X) : i = 1 \/ i = 2 \/ i = 3
  BY <1>1
<1>. QED BY <1>1, <1>2 DEF Replaced, Truth, Inherit

\* When tasks at a start and at an end are ready.
LEMMA ReadyAt ==
    ASSUME NEW X, NEW f, NEW i
    PROVE  /\ X[i].at = "start" /\ Holds(X, f, i, X[i].before) => Ready(X, f, i)
           /\ X[i].at = "end" /\ Holds(X, f, i, Out(X[i])) => Ready(X, f, i)
BY DEF Ready

LEMMA ListTruth ==
    ASSUME NEW t \in Tasks, TaskOK(t), t.at = "start", t.s.k = "list", NEW f, Agrees(t.before, f)
    PROVE  Replaced(<<Start(t.s.first, t.before),
                      Start(t.s.rest, AfterAnalysis[t.s.first][t.before])>>, t, f)
<1>. DEFINE u == Start(t.s.first, t.before)
            v == Start(t.s.rest, AfterAnalysis[t.s.first][t.before])
            X == <<u, v>>
<1>1. t.s \in Statements /\ t.before \in States
  BY DEF Tasks
<1>2. /\ u.s = t.s.first /\ u.before = t.before /\ u.at = "start"
      /\ v.s = t.s.rest /\ v.before = AfterAnalysis[t.s.first][t.before] /\ v.at = "start"
  BY TaskIs
<1>3. Out(v) = Out(t)
  <2>1. Out(t) = AfterBy(AfterAnalysis, t.s, t.before)
    BY <1>1, AfterIs DEF Out
  <2>2. AfterBy(AfterAnalysis, t.s, t.before)
          = AfterAnalysis[t.s.rest][AfterAnalysis[t.s.first][t.before]]
    BY DEF AfterBy
  <2>. QED BY <1>2, <2>1, <2>2 DEF Out
<1>4. Follows(u, v.before)
  BY <1>2 DEF Follows, Out
<1>. HIDE DEF u, v
<1>5. Len(X) = 2 /\ X[1] = u /\ X[2] = v
  OBVIOUS
<1>. HIDE DEF X
<1>6. Ready(X, f, 1)
  BY <1>2, <1>5, FirstHolds, ReadyAt
<1>7. Ready(X, f, 2)
  BY <1>2, <1>4, <1>5, SecondHolds, ReadyAt
<1>8. \A Q : Stable(Q, t.s) => Stable(Q, u.s) /\ Stable(Q, v.s)
  BY <1>1, <1>2, PartsStable
<1>9. Replaced(X, t, f)
  BY <1>3, <1>6, <1>7, <1>8, Replaced2 DEF X
<1>. QED BY <1>9 DEF X, u, v

LEMMA BlockTruth ==
    ASSUME NEW t \in Tasks, TaskOK(t), t.at = "start", t.s.k = "block", NEW f, Agrees(t.before, f)
    PROVE  Replaced(<<Start(t.s.body, BeforeBody(AfterAnalysis, t.s, t.before)),
                      Task(t.s, t.before, "end")>>, t, f)
<1>. DEFINE u == Start(t.s.body, BeforeBody(AfterAnalysis, t.s, t.before))
            v == Task(t.s, t.before, "end")
            X == <<u, v>>
<1>1. t.s \in Statements /\ t.before \in States
  BY DEF Tasks
<1>2. /\ u.s = t.s.body /\ u.before = InsertAll(t.before, t.s.names) /\ u.at = "start"
      /\ v.s = t.s /\ v.before = t.before /\ v.at = "end"
  BY TaskIs DEF BeforeBody
<1>3. Out(v) = Out(t)
  BY <1>2 DEF Out
<1>4. Out(t) = RemoveAll(Out(u), t.s.names)
  <2>1. Out(t) = AfterBy(AfterAnalysis, t.s, t.before)
    BY <1>1, AfterIs DEF Out
  <2>2. AfterBy(AfterAnalysis, t.s, t.before) = RemoveAll(AfterBody(AfterAnalysis, t.s, t.before), t.s.names)
    BY DEF AfterBy
  <2>3. AfterBody(AfterAnalysis, t.s, t.before) = Out(u)
    BY <1>2 DEF AfterBody, BeforeBody, Out
  <2>. QED BY <2>1, <2>2, <2>3
<1>5. Follows(u, Out(v))
  BY <1>3, <1>4, InsertRemoveSound DEF Follows
<1>6. Agrees(u.before, f)
  BY <1>2, InsertRemoveSound
<1>. HIDE DEF u, v
<1>7. Len(X) = 2 /\ X[1] = u /\ X[2] = v
  OBVIOUS
<1>. HIDE DEF X
<1>8. Ready(X, f, 1)
  BY <1>2, <1>6, <1>7, FirstHolds, ReadyAt
<1>9. Ready(X, f, 2)
  BY <1>2, <1>5, <1>7, SecondHolds, ReadyAt
<1>10. \A Q : Stable(Q, t.s) => Stable(Q, u.s) /\ Stable(Q, v.s)
  BY <1>1, <1>2, PartsStable
<1>11. Replaced(X, t, f)
  BY <1>3, <1>8, <1>9, <1>10, Replaced2 DEF X
<1>. QED BY <1>11 DEF X, u, v

\* A branch and the end of its statement.
LEMMA BranchTruth ==
    ASSUME NEW t \in Tasks, NEW b, NEW P, NEW f, Agrees(P, f),
           \A Q : Stable(Q, t.s) => Stable(Q, b),
           \A e \in Envs : Agrees(AfterAnalysis[b][P], e) => Agrees(Out(t), e)
    PROVE  Replaced(<<Start(b, P), Task(t.s, t.before, "end")>>, t, f)
<1>. DEFINE u == Start(b, P)
            v == Task(t.s, t.before, "end")
            X == <<u, v>>
<1>1. /\ u.s = b /\ u.before = P /\ u.at = "start"
      /\ v.s = t.s /\ v.before = t.before /\ v.at = "end"
  BY TaskIs
<1>2. Out(v) = Out(t) /\ Follows(u, Out(v))
  BY <1>1 DEF Out, Follows
<1>. HIDE DEF u, v
<1>3. Len(X) = 2 /\ X[1] = u /\ X[2] = v
  OBVIOUS
<1>. HIDE DEF X
<1>4. Ready(X, f, 1)
  BY <1>1, <1>3, FirstHolds, ReadyAt
<1>5. Ready(X, f, 2)
  BY <1>1, <1>2, <1>3, SecondHolds, ReadyAt
<1>6. \A Q : Stable(Q, t.s) => Stable(Q, u.s) /\ Stable(Q, v.s)
  BY <1>1
<1>7. Replaced(X, t, f)
  BY <1>2, <1>4, <1>5, <1>6, Replaced2 DEF X
<1>. QED BY <1>7 DEF X, u, v

\* A task at its end, where what the analysis says is true.
LEMMA EndTruth ==
    ASSUME NEW t \in Tasks, NEW f, Agrees(Out(t), f)
    PROVE  Replaced(<<Task(t.s, t.before, "end")>>, t, f)
<1>. DEFINE v == Task(t.s, t.before, "end")
            X == <<v>>
<1>1. v.s = t.s /\ v.before = t.before /\ v.at = "end"
  BY TaskIs
<1>2. Out(v) = Out(t)
  BY <1>1 DEF Out
<1>. HIDE DEF v
<1>3. Len(X) = 1 /\ X[1] = v
  OBVIOUS
<1>. HIDE DEF X
<1>4. Ready(X, f, 1)
  BY <1>1, <1>2, <1>3, FirstHolds, ReadyAt
<1>5. Replaced(X, t, f)
  BY <1>1, <1>2, <1>4, Replaced1 DEF X
<1>. QED BY <1>5 DEF X, v

\* An if statement, for each outcome of its condition.
LEMMA IfTruth ==
    ASSUME NEW t \in Tasks, TaskOK(t), t.at = "start", t.s.k = "if", Judged(t.s),
           NEW e \in Envs, Agrees(t.before, e), NEW r \in Results[t.s.cond][e]
    PROVE  /\ r.val => Replaced(<<Start(t.s.then, Assume(t.s.cond, t.before)),
                                  Task(t.s, t.before, "end")>>, t, r.env)
           /\ ~r.val /\ t.s.else.k = "none" => Replaced(<<Task(t.s, t.before, "end")>>, t, r.env)
           /\ ~r.val /\ t.s.else.k # "none" =>
                 Replaced(<<Start(t.s.else, Refute(t.s.cond, t.before)),
                            Task(t.s, t.before, "end")>>, t, r.env)
<1>. DEFINE s == t.s
            P == t.before
            A == AfterAnalysis[s.then][Assume(s.cond, P)]
            B == IF s.else.k = "none" THEN P ELSE AfterAnalysis[s.else][Refute(s.cond, P)]
<1>1. s \in Statements /\ P \in States /\ FitsScope(P, s.scope) /\ s.k = "if"
  BY DEF Tasks, TaskOK
<1>2. s.then \in Statements /\ s.else \in Statements /\ s.cond \in Conditions
  BY <1>1, Parts
<1>. HIDE DEF s, P
<1>3. Out(t) = Join(A, B)
  <2>1. Out(t) = AfterBy(AfterAnalysis, s, P)
    BY <1>1, AfterIs DEF Out, s, P
  <2>2. AfterBy(AfterAnalysis, s, P) = AfterIf(AfterAnalysis, s, P)
    BY <1>1 DEF AfterBy
  <2>. QED BY <2>1, <2>2 DEF AfterIf
<1>4. /\ Fits(P, s.scope.visible, Tracked(s.scope)) /\ s.cond.labels \subseteq s.scope.visible
      /\ s.scope.visible \subseteq Tracked(s.scope)
  BY <1>1, StatementKinds, ScopeIs, TrackedIs DEF FitsScope, Guards
<1>5. /\ IsPartitionState(A) /\ IsPartitionState(B)
      /\ Elements(A) = Tracked(s.scope) /\ Elements(B) = Tracked(s.scope)
  <2>1. /\ Fits(A, s.scope.visible, Tracked(s.scope))
        /\ Fits(AfterAnalysis[s.else][Refute(s.cond, P)], s.scope.visible, Tracked(s.scope))
    BY <1>1, <1>2, IfFits, AfterFits
  <2>. QED BY <1>4, <2>1 DEF Fits
<1>. HIDE DEF A, B
<1>6. \A f : Agrees(A, f) \/ Agrees(B, f) => Agrees(Out(t), f)
  BY <1>3, <1>5, JoinSound
<1>7. /\ r.val => Agrees(Assume(s.cond, P), r.env)
      /\ ~r.val => Agrees(Refute(s.cond, P), r.env)
  <2>1. s.cond.labels \subseteq s.scope.visible \cap Tracked(s.scope)
    BY <1>4
  <2>. QED BY <1>2, <1>4, <2>1, JudgedSound DEF s, P
<1>8. \A Q : Stable(Q, s) => Stable(Q, s.then) /\ Stable(Q, s.else)
  BY <1>1, PartsStable
<1>9. ASSUME r.val
      PROVE  Replaced(<<Start(s.then, Assume(s.cond, P)), Task(t.s, t.before, "end")>>, t, r.env)
  BY <1>6, <1>7, <1>8, <1>9, BranchTruth DEF A, s
<1>10. ASSUME ~r.val, s.else.k = "none"
       PROVE  Replaced(<<Task(t.s, t.before, "end")>>, t, r.env)
  <2>1. ~CondEffects[s.cond]
    BY <1>1, <1>10 DEF Judged, s
  <2>2. r.env = e
    BY <1>1, <2>1, CondMild DEF s
  <2>3. Agrees(B, r.env)
    BY <1>10, <2>2 DEF B, P
  <2>. QED BY <1>6, <2>3, EndTruth
<1>11. ASSUME ~r.val, s.else.k # "none"
       PROVE  Replaced(<<Start(s.else, Refute(s.cond, P)), Task(t.s, t.before, "end")>>, t, r.env)
  BY <1>6, <1>7, <1>8, <1>11, BranchTruth DEF B, s
<1>. QED BY <1>9, <1>10, <1>11 DEF s, P

-----------------------------------------------------------------------------
(* The truth of the tasks of loops                                         *)

\* When the places in the middle of a loop are ready.
LEMMA ReadyInside ==
    ASSUME NEW X, NEW f, NEW i, NEW s, s = X[i].s, NEW P, P = X[i].before
    PROVE  /\ (/\ X[i].at = "next"
               /\ Keeps(X, f, i, BeforeCond(AfterAnalysis, s, P))
               /\ s.k # "while" => Holds(X, f, i, AfterBody(AfterAnalysis, s, P)))
                  => Ready(X, f, i)
           /\ (/\ X[i].at = "cond"
               /\ Holds(X, f, i, BeforeCond(AfterAnalysis, s, P))
               /\ s.k = "dowhile" => Holds(X, f, i, AfterBody(AfterAnalysis, s, P))
               /\ s.k = "for" => \/ Holds(X, f, i, AfterInit(AfterAnalysis, s, P))
                                 \/ Holds(X, f, i, AfterUpdate(AfterAnalysis, s, P)))
                  => Ready(X, f, i)
BY DEF Ready

LEMMA WhileTruth ==
    ASSUME NEW t \in Tasks, TaskOK(t), t.at = "start", t.s.k = "while", NEW f, Agrees(t.before, f)
    PROVE  Replaced(<<Task(t.s, t.before, "cond"), Task(t.s, t.before, "end")>>, t, f)
<1>. DEFINE u == Task(t.s, t.before, "cond")
            v == Task(t.s, t.before, "end")
            X == <<u, v>>
<1>1. IsPartitionState(t.before)
  BY DEF TaskOK, FitsScope, Fits
<1>2. /\ u.s = t.s /\ u.before = t.before /\ u.at = "cond"
      /\ v.s = t.s /\ v.before = t.before /\ v.at = "end"
  BY TaskIs
<1>3. Out(u) = Out(t) /\ Out(v) = Out(t)
  BY <1>2 DEF Out
<1>4. Agrees(BeforeCond(AfterAnalysis, t.s, t.before), f)
  BY <1>1, SeparatedAgrees DEF BeforeCond, LoopHead
<1>. HIDE DEF u, v
<1>5. Len(X) = 2 /\ X[1] = u /\ X[2] = v
  OBVIOUS
<1>. HIDE DEF X
<1>6. Ready(X, f, 1)
  BY <1>2, <1>4, <1>5, FirstHolds, ReadyInside
<1>7. Follows(u, Out(v))
  BY <1>3 DEF Follows
<1>8. Ready(X, f, 2)
  BY <1>2, <1>5, <1>7, SecondHolds, ReadyAt
<1>9. Replaced(X, t, f)
  BY <1>2, <1>3, <1>6, <1>8, Replaced2 DEF X
<1>. QED BY <1>9 DEF X, u, v

\* The body of a loop and where it is continued.
LEMMA BodyTruth ==
    ASSUME NEW s \in Statements, s.k \in Loops, NEW P, FitsScope(P, s.scope),
           NEW f, Agrees(BeforeCond(AfterAnalysis, s, P), f), Agrees(BeforeBody(AfterAnalysis, s, P), f),
           NEW u, u = Start(s.body, BeforeBody(AfterAnalysis, s, P)), NEW v, v = Task(s, P, "next"),
           NEW X, Len(X) \in Nat, X[1] = u, X[2] = v
    PROVE  Ready(X, f, 1) /\ Ready(X, f, 2)
<1>1. /\ u.s = s.body /\ u.before = BeforeBody(AfterAnalysis, s, P) /\ u.at = "start"
      /\ v.s = s /\ v.before = P /\ v.at = "next"
  BY TaskIs
<1>2. Ready(X, f, 1)
  BY <1>1, FirstHolds, ReadyAt
<1>3. Keeps(X, f, 2, BeforeCond(AfterAnalysis, s, P))
  BY <1>1, LoopStable, SecondHolds
<1>4. Follows(u, AfterBody(AfterAnalysis, s, P))
  BY <1>1 DEF Follows, Out, AfterBody
<1>5. Holds(X, f, 2, AfterBody(AfterAnalysis, s, P))
  BY <1>4, SecondHolds
<1>6. Ready(X, f, 2)
  BY <1>1, <1>3, <1>5, ReadyInside
<1>. QED BY <1>2, <1>6

LEMMA DoWhileTruth ==
    ASSUME NEW t \in Tasks, TaskOK(t), t.at = "start", t.s.k = "dowhile", NEW f, Agrees(t.before, f)
    PROVE  Replaced(<<Start(t.s.body, BeforeBody(AfterAnalysis, t.s, t.before)),
                      Task(t.s, t.before, "next"), Task(t.s, t.before, "end")>>, t, f)
<1>. DEFINE u == Start(t.s.body, BeforeBody(AfterAnalysis, t.s, t.before))
            v == Task(t.s, t.before, "next")
            w == Task(t.s, t.before, "end")
            X == <<u, v, w>>
<1>1. IsPartitionState(t.before) /\ FitsScope(t.before, t.s.scope) /\ t.s \in Statements /\ t.s.k \in Loops
  BY DEF TaskOK, FitsScope, Fits, Tasks, Loops
<1>2. /\ u.s = t.s.body /\ v.s = t.s /\ v.before = t.before
      /\ w.s = t.s /\ w.before = t.before /\ w.at = "end"
  BY TaskIs
<1>3. Out(v) = Out(t) /\ Out(w) = Out(t)
  BY <1>2 DEF Out
<1>4. Agrees(LoopHead(t.s, t.before), f)
  BY <1>1, SeparatedAgrees DEF LoopHead
<1>5. /\ Agrees(BeforeCond(AfterAnalysis, t.s, t.before), f)
      /\ Agrees(BeforeBody(AfterAnalysis, t.s, t.before), f)
  BY <1>4 DEF BeforeCond, BeforeBody
<1>6. Len(X) = 3 /\ X[1] = u /\ X[2] = v /\ X[3] = w
  OBVIOUS
<1>. HIDE DEF X
<1>7. Ready(X, f, 1) /\ Ready(X, f, 2)
  BY <1>1, <1>5, <1>6, BodyTruth
<1>. HIDE DEF u, v, w
<1>8. Follows(v, Out(w))
  BY <1>3 DEF Follows
<1>9. Ready(X, f, 3)
  BY <1>2, <1>6, <1>8, ThirdHolds, ReadyAt
<1>10. \A Q : Stable(Q, t.s) => Stable(Q, u.s) /\ Stable(Q, v.s) /\ Stable(Q, w.s)
  BY <1>1, <1>2, PartsStable
<1>11. Replaced(X, t, f)
  BY <1>3, <1>7, <1>9, <1>10, Replaced3 DEF X
<1>. QED BY <1>11 DEF X, u, v, w

LEMMA ForTruth ==
    ASSUME NEW t \in Tasks, TaskOK(t), t.at = "start", t.s.k = "for", NEW f, Agrees(t.before, f)
    PROVE  Replaced(<<Start(t.s.init, InsertAll(t.before, t.s.names)), Task(t.s, t.before, "cond"),
                      Task(t.s, t.before, "end")>>, t, f)
<1>. DEFINE s == t.s
            P == t.before
            Q0 == InsertAll(P, s.names)
            H == ForHead(AfterAnalysis, s, P)
            I == AfterInit(AfterAnalysis, s, P)
            u == Start(s.init, Q0)
            v == Task(s, P, "cond")
            w == Task(s, P, "end")
            X == <<u, v, w>>
<1>1. FitsScope(P, s.scope) /\ s \in Statements /\ s.k = "for"
  BY DEF TaskOK, Tasks
<1>2. /\ u.s = s.init /\ u.before = Q0 /\ u.at = "start"
      /\ v.s = s /\ v.before = P /\ v.at = "cond" /\ w.s = s /\ w.before = P /\ w.at = "end"
  BY TaskIs
<1>3. Out(v) = Out(t) /\ Out(w) = Out(t)
  BY <1>2 DEF Out
<1>. HIDE DEF s, P
<1>4. Agrees(Q0, f)
  BY InsertRemoveSound DEF P
<1>5. IsPartitionState(Q0)
  <2>1. PICK V, N : V = InFor(s).visible /\ N = Tracked(s.scope) \cup s.names
    OBVIOUS
  <2>2. FitsScope(Q0, s.init.scope)
    BY <1>1, <2>1, ForFits, AfterFits, Parts
  <2>. QED BY <2>2 DEF FitsScope, Fits
<1>6. Follows(u, I)
  BY <1>2 DEF Follows, Out, AfterInit
<1>7. \/ H = I
      \/ H = SeparateAll(Q0)
  BY DEF ForHead
<1>8. Agrees(SeparateAll(Q0), f) /\ Rigid(SeparateAll(Q0))
  <2>. HIDE DEF Q0
  <2>. QED BY <1>4, <1>5, SeparatedAgrees, RigidSeparated
<1>9. BeforeCond(AfterAnalysis, s, P) = H
  BY <1>1 DEF BeforeCond
<1>. HIDE DEF u, v, w, Q0, H, I
<1>10. Len(X) = 3 /\ X[1] = u /\ X[2] = v /\ X[3] = w
  OBVIOUS
<1>. HIDE DEF X
<1>11. Ready(X, f, 1)
  BY <1>2, <1>4, <1>10, FirstHolds, ReadyAt
<1>12. Holds(X, f, 2, I)
  BY <1>6, <1>10, SecondHolds
<1>13. Holds(X, f, 2, H)
  <2>1. CASE H = I
    BY <1>12, <2>1
  <2>2. CASE H = SeparateAll(Q0)
    BY <1>8, <1>10, <2>2, SecondHolds DEF Stable
  <2>. QED BY <1>7, <2>1, <2>2
<1>14. Ready(X, f, 2)
  BY <1>1, <1>2, <1>9, <1>10, <1>12, <1>13, ReadyInside DEF I
<1>15. Follows(v, Out(w))
  BY <1>3 DEF Follows
<1>16. Ready(X, f, 3)
  BY <1>2, <1>10, <1>15, ThirdHolds, ReadyAt
<1>17. \A Q : Stable(Q, t.s) => Stable(Q, u.s) /\ Stable(Q, v.s) /\ Stable(Q, w.s)
  BY <1>1, <1>2, PartsStable DEF s
<1>18. Replaced(X, t, f)
  BY <1>3, <1>11, <1>14, <1>16, <1>17, Replaced3 DEF X
<1>. QED BY <1>18 DEF X, u, v, w, s, P, Q0

\* The condition of a loop holds.
LEMMA IterationTruth ==
    ASSUME NEW t \in Tasks, TaskOK(t), t.at = "cond", NEW e \in Envs,
           Agrees(BeforeCond(AfterAnalysis, t.s, t.before), e),
           NEW r \in Results[t.s.cond][e], r.val
    PROVE  Replaced(<<Start(t.s.body, BeforeBody(AfterAnalysis, t.s, t.before)),
                      Task(t.s, t.before, "next")>>, t, r.env)
<1>. DEFINE u == Start(t.s.body, BeforeBody(AfterAnalysis, t.s, t.before))
            v == Task(t.s, t.before, "next")
            X == <<u, v>>
            Q == BeforeCond(AfterAnalysis, t.s, t.before)
<1>1. FitsScope(t.before, t.s.scope) /\ t.s \in Statements /\ t.s.k \in Loops
  BY DEF TaskOK, Tasks
<1>2. u.s = t.s.body /\ v.s = t.s /\ v.before = t.before
  BY TaskIs
<1>3. Out(v) = Out(t)
  BY <1>2 DEF Out
<1>4. Agrees(Q, r.env)
  BY <1>1, HeadKept
<1>5. Agrees(BeforeBody(AfterAnalysis, t.s, t.before), r.env)
  <2>1. CASE t.s.k = "dowhile"
    BY <1>4, <2>1 DEF BeforeBody, BeforeCond
  <2>2. CASE t.s.k # "dowhile"
    <3>1. BeforeBody(AfterAnalysis, t.s, t.before) = Assume(t.s.cond, Q)
      BY <1>1, <2>2 DEF BeforeBody, Loops
    <3>. HIDE DEF Q
    <3>2. PICK V, N : t.s.cond \in Conditions /\ t.s.cond.labels \subseteq V \cap N /\ Fits(Q, V, N)
      BY <1>1, LoopFits DEF Q
    <3>3. Agrees(Assume(t.s.cond, Q), r.env)
      BY <3>2, JudgedSound DEF Q
    <3>. QED BY <3>1, <3>3
  <2>. QED BY <2>1, <2>2
<1>6. Len(X) = 2 /\ X[1] = u /\ X[2] = v
  OBVIOUS
<1>. HIDE DEF X
<1>7. Ready(X, r.env, 1) /\ Ready(X, r.env, 2)
  BY <1>1, <1>4, <1>5, <1>6, BodyTruth
<1>. HIDE DEF u, v
<1>8. \A R : Stable(R, t.s) => Stable(R, u.s) /\ Stable(R, v.s)
  BY <1>1, <1>2, PartsStable DEF Loops
<1>9. Replaced(X, t, r.env)
  BY <1>3, <1>7, <1>8, Replaced2 DEF X
<1>. QED BY <1>9 DEF X, u, v

\* What the i-th task says of a loop at its condition, or after its body.
Arrived(t, e) ==
    /\ Agrees(BeforeCond(AfterAnalysis, t.s, t.before), e)
    /\ (t.at = "next" /\ t.s.k # "while") \/ t.s.k = "dowhile" =>
          Agrees(AfterBody(AfterAnalysis, t.s, t.before), e)
    /\ t.at = "cond" /\ t.s.k = "for" => \/ Agrees(AfterInit(AfterAnalysis, t.s, t.before), e)
                                         \/ Agrees(AfterUpdate(AfterAnalysis, t.s, t.before), e)

\* The condition of a loop does not hold.
LEMMA LeaveTruth ==
    ASSUME NEW t \in Tasks, TaskOK(t), t.at = "cond", NEW e \in Envs, Arrived(t, e),
           NEW r \in Results[t.s.cond][e], ~r.val
    PROVE  Agrees(Out(t), r.env)
<1>. DEFINE s == t.s
            P == t.before
<1>1. FitsScope(P, s.scope) /\ s \in Statements /\ P \in States /\ s.k \in Loops /\ s.cond \in Conditions
  <2>1. FitsScope(P, s.scope) /\ s \in Statements /\ P \in States /\ s.k \in Loops
    BY DEF TaskOK, Tasks
  <2>. QED BY <2>1, Parts DEF Loops
<1>2. r \in Results[s.cond][e]
  OBVIOUS
<1>3. Out(t) = AfterBy(AfterAnalysis, s, P)
  BY <1>1, AfterIs DEF Out
<1>. HIDE DEF s, P
<1>4. ASSUME NEW Q, NEW V, NEW N, Fits(Q, V, N), s.cond.labels \subseteq V \cap N, Agrees(Q, e)
      PROVE  Agrees(Refute(s.cond, Q), r.env)
  BY <1>1, <1>2, <1>4, JudgedSound
<1>5. CASE s.k \in {"while", "dowhile"}
  <2>1. PICK V, N : V = s.scope.visible /\ N = Tracked(s.scope)
    OBVIOUS
  <2>2. /\ s.cond.labels \subseteq V \cap N
        /\ Fits(LoopHead(s, P), V, N) /\ Fits(AfterBody(AfterAnalysis, s, P), V, N)
        /\ Fits(Refute(s.cond, LoopHead(s, P)), V, N)
        /\ Fits(Refute(s.cond, AfterBody(AfterAnalysis, s, P)), V, N)
    BY <1>1, <1>5, <2>1, WhileFits, AfterFits, Parts
  <2>3. Agrees(LoopHead(s, P), e) /\ (s.k = "dowhile" => Agrees(AfterBody(AfterAnalysis, s, P), e))
    BY <1>5 DEF Arrived, BeforeCond, s, P
  <2>4. CASE s.k = "while"
    <3>1. Agrees(Refute(s.cond, LoopHead(s, P)), r.env)
      BY <1>4, <2>2, <2>3
    <3>2. Agrees(AfterWhile(AfterAnalysis, s, P), r.env)
      BY <2>2, <3>1, JoinSound DEF AfterWhile, Fits
    <3>. QED BY <1>3, <2>4, <3>2 DEF AfterBy
  <2>5. CASE s.k = "dowhile"
    <3>1. Agrees(Refute(s.cond, AfterBody(AfterAnalysis, s, P)), r.env)
      BY <1>4, <2>2, <2>3, <2>5
    <3>. QED BY <1>3, <2>5, <3>1 DEF AfterBy
  <2>. QED BY <1>5, <2>4, <2>5
<1>6. CASE s.k = "for"
  <2>. DEFINE A == AfterInit(AfterAnalysis, s, P)
              B == AfterUpdate(AfterAnalysis, s, P)
  <2>1. PICK V, N : V = InFor(s).visible /\ N = Tracked(s.scope) \cup s.names
    OBVIOUS
  <2>2. /\ s.cond.labels \subseteq V \cap N
        /\ Fits(A, V, N) /\ Fits(B, V, N) /\ Fits(Refute(s.cond, A), V, N) /\ Fits(Refute(s.cond, B), V, N)
    BY <1>1, <1>6, <2>1, ForFits, AfterFits, Parts
  <2>3. Agrees(A, e) \/ Agrees(B, e)
    BY <1>6 DEF Arrived, s, P
  <2>4. AfterBy(AfterAnalysis, s, P) = RemoveAll(Join(Refute(s.cond, A), Refute(s.cond, B)), s.names)
    BY <1>6 DEF AfterBy, AfterFor
  <2>. HIDE DEF A, B
  <2>5. Agrees(Refute(s.cond, A), r.env) \/ Agrees(Refute(s.cond, B), r.env)
    BY <1>4, <2>2, <2>3
  <2>6. Agrees(Join(Refute(s.cond, A), Refute(s.cond, B)), r.env)
    BY <2>2, <2>5, JoinSound DEF Fits
  <2>7. Agrees(RemoveAll(Join(Refute(s.cond, A), Refute(s.cond, B)), s.names), r.env)
    BY <2>6, InsertRemoveSound
  <2>. QED BY <1>3, <2>4, <2>7
<1>. QED BY <1>1, <1>5, <1>6 DEF Loops

\* The body of a loop has been executed.
LEMMA NextTruth ==
    ASSUME NEW t \in Tasks, TaskOK(t), t.at = "next", NEW e, Arrived(t, e)
    PROVE  /\ t.s.k # "for" => Replaced(<<Task(t.s, t.before, "cond")>>, t, e)
           /\ t.s.k = "for" => Replaced(<<Start(t.s.update, AfterBody(AfterAnalysis, t.s, t.before)),
                                          Task(t.s, t.before, "cond")>>, t, e)
<1>. DEFINE v == Task(t.s, t.before, "cond")
            u == Start(t.s.update, AfterBody(AfterAnalysis, t.s, t.before))
            Q == BeforeCond(AfterAnalysis, t.s, t.before)
            R == AfterBody(AfterAnalysis, t.s, t.before)
<1>1. FitsScope(t.before, t.s.scope) /\ t.s \in Statements /\ t.s.k \in Loops
  BY DEF TaskOK, Tasks
<1>2. /\ v.s = t.s /\ v.before = t.before /\ v.at = "cond"
      /\ u.s = t.s.update /\ u.before = R /\ u.at = "start"
  BY TaskIs
<1>3. Out(v) = Out(t)
  BY <1>2 DEF Out
<1>4. Agrees(Q, e) /\ (t.s.k # "while" => Agrees(R, e))
  BY DEF Arrived
<1>. HIDE DEF u, v, Q, R
<1>5. ASSUME t.s.k # "for" PROVE Replaced(<<v>>, t, e)
  <2>. DEFINE X == <<v>>
  <2>1. Len(X) = 1 /\ X[1] = v
    OBVIOUS
  <2>. HIDE DEF X
  <2>2. Holds(X, e, 1, Q) /\ (t.s.k # "while" => Holds(X, e, 1, R))
    BY <1>4, <2>1, FirstHolds
  <2>3. Ready(X, e, 1)
    BY <1>2, <1>5, <2>1, <2>2, ReadyInside DEF Q, R
  <2>4. Replaced(X, t, e)
    BY <1>2, <1>3, <2>3, Replaced1 DEF X
  <2>. QED BY <2>4 DEF X
<1>6. ASSUME t.s.k = "for" PROVE Replaced(<<u, v>>, t, e)
  <2>. DEFINE X == <<u, v>>
              U == AfterUpdate(AfterAnalysis, t.s, t.before)
  <2>1. Len(X) = 2 /\ X[1] = u /\ X[2] = v
    OBVIOUS
  <2>. HIDE DEF X
  <2>2. Ready(X, e, 1)
    BY <1>2, <1>4, <1>6, <2>1, FirstHolds, ReadyAt
  <2>3. Follows(u, U)
    BY <1>2 DEF Follows, Out, AfterUpdate, R
  <2>4. Stable(Q, u.s)
    BY <1>1, <1>2, <1>6, LoopStable DEF Q
  <2>. HIDE DEF U
  <2>5. Holds(X, e, 2, U) /\ Holds(X, e, 2, Q)
    BY <1>4, <2>1, <2>3, <2>4, SecondHolds
  <2>6. Ready(X, e, 2)
    BY <1>2, <1>6, <2>1, <2>5, ReadyInside DEF Q, U
  <2>7. \A S : Stable(S, t.s) => Stable(S, u.s) /\ Stable(S, v.s)
    BY <1>1, <1>2, <1>6, PartsStable
  <2>8. Replaced(X, t, e)
    BY <1>3, <2>2, <2>6, <2>7, Replaced2 DEF X
  <2>. QED BY <2>8 DEF X
<1>. QED BY <1>5, <1>6 DEF u, v, R

-----------------------------------------------------------------------------
(* The steps                                                               *)

\* What holds at the first task.
LEMMA FirstReady ==
    ASSUME NEW td, Shape(td), td # <<>>, NEW e, Truth(td, e), NEW t, t = td[1]
    PROVE  /\ t.at = "start" => Agrees(t.before, e)
           /\ t.at = "end" => Agrees(Out(t), e)
           /\ t.at \in {"cond", "next"} => Arrived(t, e)
<1>1. 1 \in 1..Len(td)
  BY FirstTask
<1>2. Ready(td, e, 1)
  BY <1>1 DEF Truth
<1>3. \A Q : Holds(td, e, 1, Q) \/ Keeps(td, e, 1, Q) => Agrees(Q, e)
  <2>1. ~(1 > 1)
    OBVIOUS
  <2>. QED BY <2>1 DEF Holds, Keeps
<1>4. t.at = "start" => Agrees(t.before, e)
  BY <1>2, <1>3 DEF Ready
<1>5. t.at = "end" => Agrees(Out(t), e)
  BY <1>2, <1>3 DEF Ready
<1>6. ASSUME t.at = "next" PROVE Arrived(t, e)
  <2>1. /\ Agrees(BeforeCond(AfterAnalysis, t.s, t.before), e)
        /\ t.s.k # "while" => Agrees(AfterBody(AfterAnalysis, t.s, t.before), e)
    BY <1>2, <1>3, <1>6 DEF Ready
  <2>. QED BY <1>6, <2>1 DEF Arrived
<1>7. ASSUME t.at = "cond" PROVE Arrived(t, e)
  <2>1. /\ Agrees(BeforeCond(AfterAnalysis, t.s, t.before), e)
        /\ t.s.k = "dowhile" => Agrees(AfterBody(AfterAnalysis, t.s, t.before), e)
        /\ t.s.k = "for" => \/ Agrees(AfterInit(AfterAnalysis, t.s, t.before), e)
                            \/ Agrees(AfterUpdate(AfterAnalysis, t.s, t.before), e)
    BY <1>2, <1>3, <1>7 DEF Ready
  <2>. QED BY <1>7, <2>1 DEF Arrived
<1>. QED BY <1>4, <1>5, <1>6, <1>7

\* What the analysis says at the first task is true.
LEMMA TruthKnown ==
    ASSUME NEW td, Shape(td), td # <<>>, NEW e, Truth(td, e)
    PROVE  Agrees(Known(Head(td)), e)
<1>. DEFINE t == Head(td)
<1>1. t = td[1] /\ t \in Tasks
  BY FirstTask
<1>. HIDE DEF t
<1>2. /\ t.at = "start" => Agrees(t.before, e)
      /\ t.at = "end" => Agrees(Out(t), e)
      /\ t.at \in {"cond", "next"} => Arrived(t, e)
  BY <1>1, FirstReady
<1>3. t.at \in {"start", "cond", "next", "end"}
  BY <1>1 DEF Tasks
<1>4. CASE t.at = "start"
  BY <1>2, <1>4, KnownIs DEF t
<1>5. CASE t.at = "end"
  BY <1>2, <1>5, KnownIs DEF t, Out
<1>6. CASE t.at \in {"cond", "next"}
  <2>1. TaskOK(t)
    BY FirstTask DEF t
  <2>2. t.s.k \in Loops
    BY <1>6, <2>1 DEF TaskOK
  <2>3. /\ Agrees(BeforeCond(AfterAnalysis, t.s, t.before), e)
        /\ t.s.k # "while" /\ ~(t.at = "cond" /\ t.s.k = "for") =>
              Agrees(AfterBody(AfterAnalysis, t.s, t.before), e)
    BY <1>2, <1>6, <2>2 DEF Arrived, Loops
  <2>. QED BY <1>6, <2>3, KnownIs DEF t
<1>. QED BY <1>3, <1>4, <1>5, <1>6

\* The first task is replaced, or has been executed.
LEMMA TruthMoves ==
    ASSUME Shape(todo), todo # <<>>, NEW e \in Envs, Truth(todo, e), NEW f, Mild(Cur, e, f)
    PROVE  /\ \A new : Piece(new, Head(todo)) /\ Replaced(new, Head(todo), f) => Truth(new \o Tail(todo), f)
           /\ Agrees(Out(Head(todo)), f) => Truth(Tail(todo), f)
<1>1. todo \in Seq(Tasks) /\ Head(todo) = todo[1] /\ Cur = todo[1].s
  BY FirstTask DEF Cur
<1>2. ASSUME NEW new, Piece(new, Head(todo)), Replaced(new, Head(todo), f)
      PROVE  Truth(new \o Tail(todo), f)
  <2>1. Spliced(todo, new, new \o Tail(todo))
    BY <1>1, <1>2, SplicedIs DEF Piece
  <2>2. \A X : Spliced(todo, new, X) => Truth(X, f)
    BY <1>1, <1>2, TruthPush DEF Replaced
  <2>. QED BY <2>1, <2>2
<1>3. ASSUME Agrees(Out(Head(todo)), f) PROVE Truth(Tail(todo), f)
  <2>1. Left(todo, 2, Tail(todo))
    BY <1>1, LeftIs
  <2>. QED BY <1>1, <1>3, <2>1, TruthLeft
<1>. QED BY <1>2, <1>3

LEMMA Unchanged ==
    ASSUME NEW s \in Statements, NEW e \in Envs
    PROVE  Mild(s, e, e)
BY DEF Mild

\* A while statement whose condition says nothing when it is false: what is known
\* before the condition is all that is known after the statement.
LEMMA BreakSound ==
    ASSUME NEW s \in Statements, s.k = "while", Uninformative(s.cond), NEW P, FitsScope(P, s.scope),
           NEW e, Agrees(BeforeCond(AfterAnalysis, s, P), e)
    PROVE  Agrees(AfterAnalysis[s][P], e)
<1>. DEFINE H == LoopHead(s, P)
            c == s.cond
<1>1. PICK V, N : V = s.scope.visible /\ N = Tracked(s.scope)
  OBVIOUS
<1>2. /\ c \in Conditions /\ Fits(H, V, N) /\ Fits(Refute(c, H), V, N)
      /\ Fits(Refute(c, AfterBody(AfterAnalysis, s, P)), V, N)
  BY <1>1, WhileFits, AfterFits, Parts
<1>3. Agrees(H, e)
  BY DEF BeforeCond
<1>4. AfterAnalysis[s][P] = Join(Refute(c, H), Refute(c, AfterBody(AfterAnalysis, s, P)))
  <2>1. P \in States
    BY DEF FitsScope, Fits
  <2>2. AfterAnalysis[s][P] = AfterBy(AfterAnalysis, s, P)
    BY <2>1, AfterIs
  <2>. QED BY <2>2 DEF AfterBy, AfterWhile
<1>. HIDE DEF H
<1>5. Agrees(Refute(c, H), e)
  <2>1. CASE CondEffects[c]
    BY <1>2, <1>3, <2>1, SeparatedAgrees DEF Refute, Fits
  <2>2. CASE ~CondEffects[c]
    <3>1. TRUE \in BOOLEAN /\ H \in States
      BY <1>2 DEF Fits
    <3>2. Guarded[c][TRUE][H] = GuardedBy(Guarded, c, TRUE, H)
      BY <1>2, <3>1, GuardedIs
    <3>3. GuardedBy(Guarded, c, TRUE, H) = H
      BY DEF GuardedBy, Uninformative
    <3>. QED BY <1>3, <2>2, <3>2, <3>3 DEF Refute
  <2>. QED BY <2>1, <2>2
<1>. QED BY <1>2, <1>4, <1>5, JoinSound DEF Fits

\* A loop is left by break, or continued by continue.
LEMMA TruthExit ==
    ASSUME Shape(todo), todo # <<>>, env \in Envs, Truth(todo, env), Judged(Cur),
           Head(todo).at = "start", Cur.k \in {"break", "continue"}
    PROVE  Truth(SkipTo(IF Cur.k = "break" THEN "end" ELSE "next"), env)
<1>1. Head(todo) = todo[1] /\ todo \in Seq(Tasks) /\ Cur \in Statements /\ Cur = todo[1].s
  BY FirstTask DEF Cur
<1>2. Cur.scope.loop
  BY <1>1, StatementKinds
<1>3. PICK j \in 1..Len(todo) : LoopAt(todo, j)
  BY <1>1, <1>2, FirstNext DEF SimpleKinds
<1>. DEFINE t == todo[j]
<1>4. /\ t \in Tasks /\ TaskOK(t) /\ t.at = "next" /\ j \in Nat \ {0} /\ j + 1 \in Nat \ {0}
      /\ todo[j + 1] = Task(t.s, t.before, "end") /\ Cur.scope.exits = ExitsOf(t.s)
  BY <1>1, <1>3 DEF LoopAt, Shape
<1>5. /\ SkipTo("next") = SubSeq(todo, j, Len(todo))
      /\ SkipTo("end") = SubSeq(todo, j + 1, Len(todo)) /\ j + 1 \in 1..Len(todo)
  BY <1>3, SkipIs
<1>6. Left(todo, j, SkipTo("next")) /\ Left(todo, j + 1, SkipTo("end"))
  BY <1>1, <1>5, LeftIs
<1>7. Agrees(BeforeCond(AfterAnalysis, t.s, t.before), env)
  <2>1. Ready(todo, env, j)
    BY DEF Truth
  <2>. QED BY <1>4, <2>1 DEF Ready, Keeps
<1>8. t.s \in Statements /\ FitsScope(t.before, t.s.scope)
  BY <1>4 DEF Tasks, TaskOK
<1>9. Cur.k \in ExitsOf(t.s)
  BY <1>4 DEF Judged
<1>10. t.s.k = "while" /\ (Cur.k = "break" => Uninformative(t.s.cond))
  BY <1>9 DEF ExitsOf
<1>. HIDE DEF t
<1>11. CASE Cur.k = "break"
  <2>. DEFINE X == SkipTo("end")
  <2>1. Len(X) \in Nat /\ (X # <<>> => X[1] = todo[j + 1])
    <3>1. /\ X \in Seq(Tasks) /\ \A i \in 1..Len(X) : X[i] = todo[i + (j + 1) - 1]
      BY <1>6 DEF Left
    <3>. HIDE DEF X
    <3>2. Len(X) \in Nat /\ (X # <<>> => 1 \in 1..Len(X))
      BY <3>1
    <3>3. 1 + (j + 1) - 1 = j + 1
      BY <1>4
    <3>. QED BY <3>1, <3>2, <3>3
  <2>2. Agrees(AfterAnalysis[t.s][t.before], env)
    BY <1>7, <1>8, <1>10, <1>11, BreakSound
  <2>. HIDE DEF X
  <2>3. ASSUME X # <<>> PROVE Ready(X, env, 1)
    <3>1. X[1].s = t.s /\ X[1].before = t.before /\ X[1].at = "end"
      BY <1>4, <2>1, <2>3, TaskIs DEF t
    <3>2. Out(X[1]) = AfterAnalysis[t.s][t.before]
      BY <3>1 DEF Out
    <3>. QED BY <2>1, <2>2, <3>1, <3>2, FirstHolds, ReadyAt
  <2>4. Truth(X, env)
    BY <1>4, <1>6, <2>3, TruthSkip DEF X
  <2>. QED BY <1>11, <2>4 DEF X
<1>12. CASE Cur.k = "continue"
  <2>. DEFINE X == SkipTo("next")
  <2>1. Len(X) \in Nat /\ (X # <<>> => X[1] = t)
    <3>1. /\ X \in Seq(Tasks) /\ \A i \in 1..Len(X) : X[i] = todo[i + j - 1]
      BY <1>6 DEF Left
    <3>. HIDE DEF X
    <3>2. Len(X) \in Nat /\ (X # <<>> => 1 \in 1..Len(X))
      BY <3>1
    <3>3. 1 + j - 1 = j
      BY <1>4
    <3>. QED BY <3>1, <3>2, <3>3 DEF t
  <2>. HIDE DEF X
  <2>3. ASSUME X # <<>> PROVE Ready(X, env, 1)
    <3>1. X[1] = t
      BY <2>1, <2>3
    <3>. QED BY <1>4, <1>7, <1>10, <2>1, <3>1, FirstHolds, ReadyInside
  <2>4. Truth(X, env)
    BY <1>4, <1>6, <2>3, TruthSkip DEF X
  <2>. QED BY <1>12, <2>4 DEF X
<1>. QED BY <1>11, <1>12

\* Every step keeps the truth of the tasks.
LEMMA TruthStep ==
    ASSUME \A s \in Statements : Judged(s), env \in Envs, Shape(todo), Truth(todo, env), [Next]_vars
    PROVE  Truth(todo', env')
<1>. DEFINE t == Head(todo)
<1>1. CASE UNCHANGED vars
  BY <1>1 DEF vars
<1>2. CASE Next
  <2>1. todo # <<>>
    BY <1>2 DEF Next, At, AssignmentStatement, VariableDeclarationStatement, ExpressionStatement,
        RequireStatement, StatementList, NoStatement, Block, IfStatement, EnterWhile, EnterDoWhile,
        EnterFor, LoopCondition, LoopNext, End, BreakStatement, ContinueStatement, ReturnStatement
  <2>2. /\ t \in Tasks /\ TaskOK(t) /\ t.s = Cur /\ t.before = Before /\ Cur \in Statements
        /\ t = todo[1] /\ Before \in States /\ FitsScope(Before, Cur.scope)
    BY <2>1, FirstTask DEF Cur, Before, TaskOK
  <2>3. ASSUME NEW f, Mild(Cur, env, f)
        PROVE  /\ \A new : Piece(new, t) /\ Replaced(new, t, f) => Truth(new \o Tail(todo), f)
               /\ Agrees(Out(t), f) => Truth(Tail(todo), f)
    BY <2>1, <2>3, TruthMoves
  <2>4. /\ \A new : Piece(new, t) /\ Replaced(new, t, env) => Truth(new \o Tail(todo), env)
        /\ Agrees(Out(t), env) => Truth(Tail(todo), env)
    <3>1. Mild(Cur, env, env)
      BY <2>2, Unchanged
    <3>. QED BY <2>3, <3>1
  <2>5. ASSUME NEW k, At(k, "start") PROVE t.at = "start" /\ Cur.k = k
    BY <2>5 DEF At, Cur
  <2>6. /\ t.at = "start" => Agrees(Before, env)
        /\ t.at = "end" => Agrees(Out(t), env)
        /\ t.at \in {"cond", "next"} => Arrived(t, env)
    BY <2>1, <2>2, FirstReady
  <2>7. Out(t) = AfterAnalysis[Cur][Before] /\ Judged(Cur)
    BY <2>2 DEF Out
  <2>8. \A f : Truth(<<>>, f)
    BY DEF Truth
  <2>. HIDE DEF t
  <2>9. CASE AssignmentStatement
    <3>1. t.at = "start" /\ Cur.k = "assign" /\ Store(Cur.lhs, Cur.rhs)
      BY <2>5, <2>9 DEF AssignmentStatement
    <3>2. PICK g : Sourced(env, g, Cur.rhs) /\ env' \in Assigned(g, Cur.lhs, Cur.rhs)
      BY <3>1, StoreIs DEF Sourced
    <3>3. todo' = Tail(todo)
      BY <3>1, StoreIs
    <3>4. Mild(Cur, env, env') /\ Agrees(AfterAnalysis[Cur][Before], env')
      BY <2>2, <2>6, <2>7, <3>1, <3>2, AssignSound
    <3>. QED BY <2>3, <2>7, <3>3, <3>4
  <2>10. CASE VariableDeclarationStatement
    <3>1. t.at = "start" /\ Cur.k = "decl" /\ Store(<<Cur.var>>, <<Cur.rhs>>)
      BY <2>5, <2>10 DEF VariableDeclarationStatement
    <3>2. PICK g : Sourced(env, g, <<Cur.rhs>>) /\ env' \in Assigned(g, <<Cur.var>>, <<Cur.rhs>>)
      BY <3>1, StoreIs DEF Sourced
    <3>3. todo' = Tail(todo)
      BY <3>1, StoreIs
    <3>4. Mild(Cur, env, env') /\ Agrees(AfterAnalysis[Cur][Before], env')
      BY <2>2, <2>6, <3>1, <3>2, DeclSound
    <3>. QED BY <2>3, <2>7, <3>3, <3>4
  <2>11. CASE ExpressionStatement
    <3>1. t.at = "start" /\ Cur.k = "call" /\ env' \in AfterCall(env) /\ todo' = Tail(todo)
      BY <2>5, <2>11 DEF ExpressionStatement
    <3>2. Mild(Cur, env, env') /\ Agrees(AfterAnalysis[Cur][Before], env')
      BY <2>2, <2>6, <3>1, CallSound
    <3>. QED BY <2>3, <2>7, <3>1, <3>2
  <2>12. CASE RequireStatement
    <3>1. t.at = "start" /\ Cur.k = "require"
      BY <2>5, <2>12 DEF RequireStatement
    <3>2. PICK r \in Results[Cur.cond][env] :
             env' = r.env /\ todo' = IF r.val THEN Tail(todo) ELSE <<>>
      BY <2>12 DEF RequireStatement
    <3>3. Mild(Cur, env, r.env) /\ (r.val => Agrees(AfterAnalysis[Cur][Before], r.env))
      BY <2>2, <2>6, <3>1, RequireSound
    <3>4. CASE r.val
      <4>1. todo' = Tail(todo)
        BY <3>2, <3>4
      <4>. QED BY <2>3, <2>7, <3>2, <3>3, <3>4, <4>1
    <3>5. CASE ~r.val
      <4>1. todo' = <<>>
        BY <3>2, <3>5
      <4>. QED BY <2>8, <4>1
    <3>. QED BY <3>4, <3>5
  <2>13. CASE StatementList
    <3>. DEFINE new == <<Start(Cur.first, Before), Start(Cur.rest, AfterAnalysis[Cur.first][Before])>>
    <3>1. t.at = "start" /\ Cur.k = "list" /\ todo' = new \o Tail(todo) /\ env' = env
      BY <2>5, <2>13 DEF StatementList
    <3>2. Piece(new, t) /\ Replaced(new, t, env)
      BY <2>2, <2>6, <3>1, ListPiece, ListTruth
    <3>. QED BY <2>4, <3>1, <3>2
  <2>14. CASE NoStatement
    <3>1. t.at = "start" /\ Cur.k = "none" /\ todo' = Tail(todo) /\ env' = env
      BY <2>5, <2>14 DEF NoStatement
    <3>2. Out(t) = Before
      <4>1. Out(t) = AfterBy(AfterAnalysis, Cur, Before)
        BY <2>2, <2>7, AfterIs
      <4>. QED BY <3>1, <4>1 DEF AfterBy
    <3>. QED BY <2>4, <2>6, <3>1, <3>2
  <2>15. CASE Block
    <3>. DEFINE new == <<Body, Here("end")>>
    <3>1. t.at = "start" /\ Cur.k = "block" /\ todo' = new \o Tail(todo) /\ env' = env
      BY <2>5, <2>15 DEF Block
    <3>2. Piece(new, t) /\ Replaced(new, t, env)
      BY <2>2, <2>6, <3>1, BlockPiece, BlockTruth DEF Body, Here
    <3>. QED BY <2>4, <3>1, <3>2
  <2>16. CASE IfStatement
    <3>1. t.at = "start" /\ Cur.k = "if"
      BY <2>5, <2>16 DEF IfStatement
    <3>. DEFINE a == Start(Cur.then, Assume(Cur.cond, Before))
                b == Start(Cur.else, Refute(Cur.cond, Before))
                w == Here("end")
    <3>2. PICK r \in Results[Cur.cond][env] :
             /\ env' = r.env
             /\ todo' = (IF r.val THEN <<a>> ELSE IF Cur.else.k = "none" THEN <<>> ELSE <<b>>)
                        \o <<w>> \o Tail(todo)
      BY <2>16 DEF IfStatement
    <3>3. Piece(<<a, w>>, t) /\ Piece(<<w>>, t) /\ Piece(<<b, w>>, t)
      BY <2>2, <3>1, IfPieces DEF Here
    <3>4. /\ r.val => Replaced(<<a, w>>, t, r.env)
          /\ ~r.val /\ Cur.else.k = "none" => Replaced(<<w>>, t, r.env)
          /\ ~r.val /\ Cur.else.k # "none" => Replaced(<<b, w>>, t, r.env)
      BY <2>2, <2>6, <2>7, <3>1, IfTruth DEF Here
    <3>. HIDE DEF a, b, w
    <3>5. <<a>> \o <<w>> = <<a, w>> /\ <<b>> \o <<w>> = <<b, w>> /\ <<>> \o <<w>> = <<w>>
      BY Pairs
    <3>6. PICK new \in {<<a, w>>, <<b, w>>, <<w>>} :
             todo' = new \o Tail(todo) /\ Replaced(new, t, r.env)
      <4>1. CASE r.val
        BY <3>2, <3>4, <3>5, <4>1
      <4>2. CASE ~r.val /\ Cur.else.k = "none"
        BY <3>2, <3>4, <3>5, <4>2
      <4>3. CASE ~r.val /\ Cur.else.k # "none"
        BY <3>2, <3>4, <3>5, <4>3
      <4>. QED BY <4>1, <4>2, <4>3
    <3>7. Mild(Cur, env, r.env)
      BY <2>2, <3>1, CondMild
    <3>8. Piece(new, t)
      BY <3>3
    <3>9. Truth(new \o Tail(todo), r.env)
      BY <2>3, <3>6, <3>7, <3>8
    <3>. QED BY <3>2, <3>6, <3>9
  <2>17. CASE EnterWhile
    <3>. DEFINE new == <<Here("cond"), Here("end")>>
    <3>1. t.at = "start" /\ Cur.k = "while" /\ todo' = new \o Tail(todo) /\ env' = env
      BY <2>5, <2>17 DEF EnterWhile
    <3>2. Piece(new, t) /\ Replaced(new, t, env)
      BY <2>2, <2>6, <3>1, WhilePieces, WhileTruth DEF Here
    <3>. QED BY <2>4, <3>1, <3>2
  <2>18. CASE EnterDoWhile
    <3>. DEFINE new == <<Body, Here("next"), Here("end")>>
    <3>1. t.at = "start" /\ Cur.k = "dowhile" /\ todo' = new \o Tail(todo) /\ env' = env
      BY <2>5, <2>18 DEF EnterDoWhile
    <3>2. Piece(new, t) /\ Replaced(new, t, env)
      BY <2>2, <2>6, <3>1, WhilePieces, DoWhileTruth DEF Body, Here
    <3>. QED BY <2>4, <3>1, <3>2
  <2>19. CASE EnterFor
    <3>. DEFINE new == <<Start(Cur.init, InsertAll(Before, Cur.names)), Here("cond"), Here("end")>>
    <3>1. t.at = "start" /\ Cur.k = "for" /\ todo' = new \o Tail(todo) /\ env' = env
      BY <2>5, <2>19 DEF EnterFor
    <3>2. Piece(new, t) /\ Replaced(new, t, env)
      BY <2>2, <2>6, <3>1, ForPiece, ForTruth DEF Here
    <3>. QED BY <2>4, <3>1, <3>2
  <2>20. CASE LoopCondition
    <3>. DEFINE new == <<Body, Here("next")>>
    <3>1. Cur.k \in Loops /\ t.at = "cond"
      BY <2>20 DEF LoopCondition, At, Cur, t
    <3>2. PICK r \in Results[Cur.cond][env] :
             env' = r.env /\ todo' = IF r.val THEN new \o Tail(todo) ELSE Tail(todo)
      BY <2>20 DEF LoopCondition
    <3>3. Piece(new, t)
      BY <2>2, <3>1, LoopPieces DEF Body, Here, Inside
    <3>4. Mild(Cur, env, r.env)
      BY <2>2, <3>1, CondMild DEF Loops
    <3>5. Arrived(t, env)
      BY <2>6, <3>1
    <3>6. CASE r.val
      <4>1. Agrees(BeforeCond(AfterAnalysis, t.s, t.before), env)
        BY <3>5 DEF Arrived
      <4>2. Replaced(new, t, r.env)
        BY <2>2, <3>1, <3>2, <3>6, <4>1, IterationTruth DEF Body, Here
      <4>3. todo' = new \o Tail(todo)
        BY <3>2, <3>6
      <4>. QED BY <2>3, <3>2, <3>3, <3>4, <4>2, <4>3
    <3>7. CASE ~r.val
      <4>1. Agrees(Out(t), r.env)
        BY <2>2, <3>1, <3>2, <3>5, <3>7, LeaveTruth
      <4>2. todo' = Tail(todo)
        BY <3>2, <3>7
      <4>. QED BY <2>3, <3>2, <3>4, <4>1, <4>2
    <3>. QED BY <3>6, <3>7
  <2>21. CASE LoopNext
    <3>1. Cur.k \in Loops /\ t.at = "next"
      BY <2>21 DEF LoopNext, At, Cur, t
    <3>. DEFINE a == Start(Cur.update, Known(t))
                w == Here("cond")
    <3>2. Cur.k = "for" => Known(t) = AfterBody(AfterAnalysis, Cur, Before)
      BY <2>2, <3>1 DEF Known
    <3>3. Piece(<<w>>, t) /\ (Cur.k = "for" => Piece(<<a, w>>, t))
      BY <2>2, <3>1, <3>2, LoopPieces DEF Here, Inside
    <3>4. Arrived(t, env)
      BY <2>6, <3>1
    <3>5. /\ Cur.k # "for" => Replaced(<<w>>, t, env)
          /\ Cur.k = "for" => Replaced(<<a, w>>, t, env)
      BY <2>2, <3>1, <3>2, <3>4, NextTruth DEF Here
    <3>6. todo' = (IF Cur.k = "for" THEN <<a>> ELSE <<>>) \o <<w>> \o Tail(todo) /\ env' = env
      BY <2>21 DEF LoopNext, t
    <3>. HIDE DEF a, w
    <3>7. <<a>> \o <<w>> = <<a, w>> /\ <<>> \o <<w>> = <<w>>
      BY Pairs
    <3>. QED BY <2>4, <3>3, <3>5, <3>6, <3>7
  <2>22. CASE End
    <3>1. t.at = "end" /\ todo' = Tail(todo) /\ env' = env
      BY <2>22 DEF End, t
    <3>. QED BY <2>4, <2>6, <3>1
  <2>23. CASE BreakStatement
    <3>1. t.at = "start" /\ Cur.k = "break" /\ todo' = SkipTo("end") /\ env' = env
      BY <2>5, <2>23 DEF BreakStatement
    <3>2. Truth(SkipTo("end"), env)
      BY <2>1, <2>7, <3>1, TruthExit DEF t
    <3>. QED BY <3>1, <3>2
  <2>24. CASE ContinueStatement
    <3>1. t.at = "start" /\ Cur.k = "continue" /\ todo' = SkipTo("next") /\ env' = env
      BY <2>5, <2>24 DEF ContinueStatement
    <3>2. Truth(SkipTo("next"), env)
      BY <2>1, <2>7, <3>1, TruthExit DEF t
    <3>. QED BY <3>1, <3>2
  <2>25. CASE ReturnStatement
    BY <2>8, <2>25 DEF ReturnStatement
  <2>. QED BY <1>2, <2>9, <2>10, <2>11, <2>12, <2>13, <2>14, <2>15, <2>16, <2>17, <2>18, <2>19, <2>20,
              <2>21, <2>22, <2>23, <2>24, <2>25 DEF Next
<1>. QED BY <1>1, <1>2

LEMMA TruthInit ==
    ASSUME Init
    PROVE  Truth(todo, env)
<1>1. todo = <<Start(prog, P0)>>
  BY DEF Init
<1>2. Agrees(P0, env)
  BY DEF P0, Agrees
<1>3. Start(prog, P0).at = "start" /\ Start(prog, P0).before = P0
  BY TaskIs
<1>4. Len(todo) = 1 /\ todo[1] = Start(prog, P0)
  BY <1>1
<1>5. Ready(todo, env, 1)
  BY <1>2, <1>3, <1>4, FirstHolds, ReadyAt
<1>6. \A i \in 1..Len(todo) : i = 1
  BY <1>4
<1>. QED BY <1>5, <1>6 DEF Truth

Truthful == Shaped /\ Truth(todo, env)

\* What the compiler takes to be equal at a statement is equal whenever the
\* statement is reached, for every program of any depth without the statements
\* that Judged names, and all values: through branches, loops, break, continue,
\* side effects and tuples.
THEOREM Aliases ==
    ASSUME \A s \in Statements : Judged(s)
    PROVE  Spec => []AliasesHold
<1>1. Init => Truthful
  BY ShapeInit, TruthInit DEF Truthful, Shaped
<1>2. Truthful /\ [Next]_vars => Truthful'
  <2>1. SUFFICES ASSUME env \in Envs, Shape(todo), Truth(todo, env), [Next]_vars
                 PROVE  env' \in Envs /\ Shape(todo') /\ Truth(todo', env')
    BY DEF Truthful, Shaped
  <2>2. env' \in Envs /\ Shape(todo')
    BY <2>1, ShapeStep
  <2>3. Truth(todo', env')
    BY <2>1, TruthStep
  <2>. QED BY <2>2, <2>3
<1>3. Truthful => AliasesHold
  BY TruthKnown DEF Truthful, Shaped, AliasesHold
<1>. QED BY <1>1, <1>2, <1>3, PTL DEF Spec
=============================================================================

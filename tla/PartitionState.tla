--------------------------- MODULE PartitionState ---------------------------
(***************************************************************************)
(* The partitions of the privacy labels in scope that the alias analysis   *)
(* pushes through a function: labels in one part are known to be equal.    *)
(* A state is a set of disjoint, non-empty sets.                           *)
(***************************************************************************)
EXTENDS FiniteSets

CONSTANT Immutable      \* labels no side effect can change: final, me, all

Elements(P) == UNION P

IsPartitionState(P) ==
    /\ {} \notin P
    /\ \A p, q \in P : p # q => p \cap q = {}

Has(P, x) == \E p \in P : x \in p

\* The part of x, or nothing if x is not tracked.
PartOf(P, x) == UNION {p \in P : x \in p}

SamePartition(P, x, y) == x = y \/ \E p \in P : x \in p /\ y \in p

Insert(P, x) == P \cup {{x}}

\* Both labels are tracked, or none is: otherwise the code raises KeyError.
MayMerge(P, x, y) == Has(P, x) <=> Has(P, y)

\* Mutation: the part of y is dropped instead of added to that of x.
MergeDropping(P, x, y) == P \ {PartOf(P, y)}

Merge(P, x, y) ==
    IF PartOf(P, x) = PartOf(P, y) THEN P
    ELSE (P \ {PartOf(P, x), PartOf(P, y)}) \cup {PartOf(P, x) \cup PartOf(P, y)}

RemoveFrom(P, x) == {p \ {x} : p \in P} \ {{}}

MoveTo(P, x, y) ==
    IF SamePartition(P, x, y) THEN P
    ELSE {IF y \in p THEN p \cup {x} ELSE p : p \in RemoveFrom(P, x)}

MoveToSeparate(P, x) == Insert(RemoveFrom(P, x), x)

\* After a side effect only immutable labels are known to be equal still.
SeparateAll(P) ==
    {{x} : x \in Elements(P) \ Immutable} \cup ({p \cap Immutable : p \in P} \ {{}})

\* The equalities that hold in both branches.
Join(P, Q) == {p \cap q : p \in P, q \in Q} \ {{}}

-----------------------------------------------------------------------------

\* What a state promises: the labels in each part have one value in env.
Agrees(P, env) == \A p \in P : \A x, y \in p : env[x] = env[y]
=============================================================================

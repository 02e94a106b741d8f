--------------------------- MODULE PlainContract ---------------------------
(***************************************************************************)
(* What a zkay contract promises to its users: the functions of the source *)
(* contract run one at a time on plain values, each on the state the       *)
(* previous one left.  Nothing of encryption, keys, proofs, nodes or local *)
(* simulation is visible here.                                             *)
(***************************************************************************)
CONSTANTS
    Locs,           \* storage locations of the contract
    Vals, Zero,     \* plain values, and the value of an unset location
    Calls,          \* the function calls (caller and arguments included)
    Guard(_, _),    \* Guard(c, m): the require statements of c hold in m
    Eff(_, _)       \* Eff(c, m)[l]: what c writes to l when it runs in m

VARIABLE store      \* store[l]: the plain value at l

Changed(c) == c.writes \cup c.pubWrites

PlainInit == store = [l \in Locs |-> Zero]

Run(c) ==
    /\ Guard(c, store)
    /\ store' = [l \in Locs |-> IF l \in Changed(c) THEN Eff(c, store)[l]
                                                    ELSE store[l]]

PlainNext == \E c \in Calls : Run(c)

PlainSpec == PlainInit /\ [][PlainNext]_store
=============================================================================

------------------------------ MODULE MCZkayTx ------------------------------
(* A contract with one private location per account and a public one, and  *)
(* calls that conflict on them in every way.                               *)
EXTENDS ZkayTx, TLC

CONSTANTS h1, h2, u1, u2, k1, k2, a, b, p

MCHosts == {h1, h2}
MCUsers == {u1, u2}
MCAccounts == h1 :> {u1} @@ h2 :> {u2}
MCKeys == {k1, k2}
MCLocs == {a, b, p}
MCOwner == a :> u1 @@ b :> u2 @@ p :> All
MCVals == 0..1

\* u1 increments a private counter, while p is 0.
Count == [caller |-> u1, reads |-> {a}, writes |-> {a}, pubReads |-> {p},
          pubWrites |-> {}]
\* u2 adds its own value to u1's (homomorphically) and clears its own.
Give == [caller |-> u2, reads |-> {a, b}, writes |-> {a, b}, pubReads |-> {},
         pubWrites |-> {}]
\* u2 reveals whether its value is zero.
Reveal == [caller |-> u2, reads |-> {b}, writes |-> {p}, pubReads |-> {},
           pubWrites |-> {}]
\* u1 flips the public value; no circuit.
Flip == [caller |-> u1, reads |-> {}, writes |-> {}, pubReads |-> {p},
         pubWrites |-> {p}]

MCCalls == {Count, Give, Reveal, Flip}

MCGuard(c, m) == c = Count => m[p] = 0

MCEff(c, m) ==
    CASE c = Count  -> [m EXCEPT ![a] = (m[a] + 1) % 2]
      [] c = Give   -> [m EXCEPT ![a] = (m[a] + m[b]) % 2, ![b] = 1]
      [] c = Reveal -> [m EXCEPT ![p] = 1 - m[b]]
      [] c = Flip   -> [m EXCEPT ![p] = 1 - m[p]]
=============================================================================

----------------------------- MODULE MCKeystore -----------------------------
(* Keystore on two hosts, each with an account of its own.                 *)
EXTENDS Keystore, TLC

CONSTANTS h1, h2, u1, u2, k1, k2, k3

MCHosts == {h1, h2}
MCUsers == {u1, u2}
MCKeys == {k1, k2, k3}
MCAccounts == h1 :> {u1} @@ h2 :> {u2}

Symmetry == Permutations(MCKeys)
=============================================================================

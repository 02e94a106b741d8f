---------------------------- MODULE MCDeployment ----------------------------
(* Two hosts, two versions of a contract.  Verifier f changes between them,  *)
(* g is in the second only, with the circuit f had in the first.             *)
EXTENDS Deployment, TLC

CONSTANTS alice, bob, s1, s2, f, g, c1, c2, groth16, gm17, p1, p2

MCCircuitOf == (s1 :> (f :> c1)) @@ (s2 :> (f :> c2 @@ g :> c1))
MCProjects == {<<s1, gm17>>, <<s2, groth16>>}
MCPkiOf == (alice :> p1) @@ (bob :> p2)

\* The first version, compiled and deployed by somebody else, with other keys.
OtherKey == [id |-> 0, circ |-> [circuit |-> c1, scheme |-> gm17]]
MCOthers ==
    <<[kind |-> "verifier", solc |-> "manifest",
       ver |-> [vk |-> OtherKey, pk |-> OtherKey, scheme |-> gm17]],
      [kind |-> "main", sol |-> [src |-> s1, scheme |-> gm17], solc |-> "manifest",
       pki |-> p2, inst |-> (f :> 1)]>>

\* What one host does between two operations commutes with the steps of another:
\* they share the package and the contracts only, which single steps read and write.
Quiescent(h) == cmd[h] = Idle /\ ~rt[h].on

\* Bound: a second deployment only after one that failed, and where nothing was cut off.
SecondAttempt == deploys' = MaxDeploys => failures' = MaxFailures /\ cuts' = 0

\* Bound: an archive lists its keys in one order.
InOrder(out) ==
    /\ \A v \in Names : /\ out[v].pk # NoFile => out[v].vk # NoFile
                        /\ out[v].bin # NoFile => out[v].pk # NoFile
    /\ out[g].vk # NoFile => out[f].bin # NoFile
ArchiveOrder == \A h \in Hosts : cmd'[h].pc = "extract" => InOrder(dir'[h].out)

MCNext ==
    /\ \E h \in Hosts : (\A k \in Hosts \ {h} : Quiescent(k)) /\ HostNext(h)
    /\ SecondAttempt /\ ArchiveOrder
MCSpec == Init /\ [][MCNext]_vars
=============================================================================

----------------------------- MODULE Deployment -----------------------------
(***************************************************************************)
(* Deploying a project and connecting to a deployed one.                   *)
(*                                                                         *)
(* A session is a process that has loaded the manifest of the host's       *)
(* directory.  It keeps the addresses of PKI and libraries, and the        *)
(* compiler settings, which library_compilation_environment replaces while *)
(* a library is compiled, and restores only if nothing is raised.          *)
(***************************************************************************)
EXTENDS Compilation, Sequences

CONSTANTS
    Pkis,           \* PKI contracts on the chain
    PkiOf,          \* PkiOf[h]: the one configured for h
    LibSchemes,     \* proving schemes with external libraries
    Others,         \* contracts that somebody else has deployed before
    MaxSessions,    \* bound: sessions
    MaxDeploys,     \* bound: deploy operations
    MaxFailures     \* bound: operations that fail because of node or configuration

ASSUME PkiAssumption == PkiOf \in [Hosts -> Pkis] /\ LibSchemes \subseteq Schemes
                        /\ MaxSessions \in Nat /\ MaxDeploys \in Nat /\ MaxFailures \in Nat

SomeKeys == [id : Nat, circ : Digests]
Solcs == {"manifest", "library"}

\* A contract refers to verification contracts that were there before it, one for
\* each circuit of its source, or to none.
ContractOK(contracts, a) ==
    LET c == contracts[a]
    IN  /\ c.solc \in Solcs
        /\ \/ c.kind = "verifier" /\ c.ver \in [vk : SomeKeys, pk : SomeKeys, scheme : Schemes]
           \/ /\ c.kind = "main" /\ c.sol \in Solidity /\ c.pki \in Pkis
              /\ DOMAIN c.inst = Circ(c.sol.src)
              /\ \A f \in DOMAIN c.inst : c.inst[f] # 0 =>
                    c.inst[f] \in 1 .. a - 1 /\ contracts[c.inst[f]].kind = "verifier"

WellFormed(contracts) ==
    /\ contracts \in Seq({contracts[a] : a \in DOMAIN contracts})
    /\ \A a \in DOMAIN contracts : ContractOK(contracts, a)

ASSUME OthersAssumption == WellFormed(Others)

VARIABLES
    chain,      \* the contracts, by address
    rt,         \* rt[h]: the session's configuration and blockchain interface
    op,         \* op[h]: what the session does
    conn,       \* conn[h]: the contract the user got last, and by what
    stuck,      \* history, stuck[h]: something was raised while a library was compiled
    sessions, deploys, failures

depVars == <<chain, rt, op, conn, stuck, sessions, deploys, failures>>
vars == <<compVars, depVars>>

None == "None"
NoContract == [by |-> "nothing"]
Off == [on |-> FALSE]
Nothing == [pc |-> "idle"]

Session(scheme) ==
    [on |-> TRUE, scheme |-> scheme, solc |-> "manifest",
     pki |-> None, libs |-> None, keys |-> FALSE]

Init ==
    /\ CompInit
    /\ chain = Others
    /\ rt = [h \in Hosts |-> Off]
    /\ op = [h \in Hosts |-> Nothing]
    /\ conn = [h \in Hosts |-> NoContract]
    /\ stuck = [h \in Hosts |-> FALSE]
    /\ sessions = 0 /\ deploys = 0 /\ failures = 0

StartSession(h) ==
    /\ ~rt[h].on /\ cmd[h] = Idle /\ dir[h].manifest # NoFile
    /\ sessions < MaxSessions /\ sessions' = sessions + 1
    /\ rt' = [rt EXCEPT ![h] = Session(dir[h].manifest)]
    /\ UNCHANGED <<compVars, chain, op, conn, stuck, deploys, failures>>

EndSession(h) ==
    /\ rt[h].on /\ cmd[h] = Idle
    /\ rt' = [rt EXCEPT ![h] = Off]
    /\ op' = [op EXCEPT ![h] = Nothing]
    /\ conn' = [conn EXCEPT ![h] = NoContract]
    /\ stuck' = [stuck EXCEPT ![h] = FALSE]
    /\ UNCHANGED <<compVars, chain, sessions, deploys, failures>>

Doing(h, pc) == rt[h].on /\ op[h].pc = pc
Proceed(h, o) == op' = [op EXCEPT ![h] = o]
Step(h, pc) == Proceed(h, [op[h] EXCEPT !.pc = pc])
Stop(h) == Proceed(h, Nothing)

\* The operation ends with an exception; the session keeps r.
Raise(h, r) ==
    /\ Stop(h)
    /\ rt' = [rt EXCEPT ![h] = r]
    /\ stuck' = [stuck EXCEPT ![h] = @ \/ (r.solc = "library" /\ rt[h].solc # "library")]
    /\ UNCHANGED <<compVars, chain, conn, sessions, deploys>>

\* What the node or the configuration may do to any step.
Fails(h, r) ==
    /\ failures < MaxFailures
    /\ failures' = failures + 1
    /\ Raise(h, r)

-----------------------------------------------------------------------------
(* _connect_libraries                                                      *)

\* Mutation: the settings of the library compilation stay.
ConnectedKeepingSettings(h) ==
    [rt[h] EXCEPT !.pki = PkiOf[h], !.libs = "all", !.solc = "library"]

Connected(h) == [rt[h] EXCEPT !.pki = PkiOf[h], !.libs = "all"]

\* No addresses; a wrong PKI; a wrong library.
NotConnected(h) ==
    {rt[h], [rt[h] EXCEPT !.pki = "empty", !.solc = "library"]}
    \cup {[rt[h] EXCEPT !.pki = PkiOf[h], !.libs = "some", !.solc = "library"] :
             s \in {rt[h].scheme} \cap LibSchemes}

ConnectLibraries(h) ==
    \/ /\ rt' = [rt EXCEPT ![h] = Connected(h)]
       /\ UNCHANGED <<compVars, chain, op, conn, stuck, sessions, deploys, failures>>
    \/ \E r \in NotConnected(h) : Fails(h, r)

-----------------------------------------------------------------------------
(* deploy                                                                  *)

StartDeploy(h) ==
    /\ rt[h].on /\ op[h] = Nothing /\ cmd[h] = Idle
    /\ dir[h].zkay # NoFile /\ dir[h].sol # NoFile
    /\ Proceed(h, [pc |-> "keys", inst |-> [f \in {} |-> 0]])
    /\ conn' = [conn EXCEPT ![h] = NoContract]
    /\ deploys < MaxDeploys /\ deploys' = deploys + 1
    /\ UNCHANGED <<compVars, chain, rt, stuck, sessions, failures>>

\* initialize_keys_for asks the PKI once in a session.
InitializeKeys(h) ==
    /\ Doing(h, "keys")
    /\ IF rt[h].keys
       THEN Step(h, "verifiers") /\ UNCHANGED <<compVars, chain, rt, conn, stuck, sessions, deploys, failures>>
       ELSE CASE rt[h].pki = None -> ConnectLibraries(h)
              [] rt[h].pki = "empty" -> Raise(h, rt[h]) /\ UNCHANGED failures
              [] OTHER -> \/ /\ rt' = [rt EXCEPT ![h].keys = TRUE]
                             /\ Step(h, "verifiers")
                             /\ UNCHANGED <<compVars, chain, conn, stuck, sessions, deploys, failures>>
                          \/ Fails(h, rt[h])

NextAddress == Len(chain) + 1

\* An address for each name in contract.zkay, whatever contract.sol refers to.
DeployVerifier(h, f) ==
    /\ Doing(h, "verifiers")
    /\ f \in Circ(dir[h].zkay) \ DOMAIN op[h].inst
    /\ CASE dir[h].ver[f] = NoFile -> Raise(h, rt[h]) /\ UNCHANGED failures
         [] rt[h].libs = None -> ConnectLibraries(h)
         [] rt[h].libs = "some" -> Raise(h, rt[h]) /\ UNCHANGED failures
         [] OTHER -> \/ /\ chain' = Append(chain, [kind |-> "verifier", ver |-> dir[h].ver[f],
                                                   solc |-> rt[h].solc])
                        /\ Proceed(h, [op[h] EXCEPT !.inst = [g \in DOMAIN @ \cup {f} |->
                                                        IF g = f THEN NextAddress ELSE @[g]]])
                        /\ UNCHANGED <<compVars, rt, conn, stuck, sessions, deploys, failures>>
                     \/ Fails(h, rt[h])

\* contract.sol with the addresses filled in for the names it contains.
Instantiated(h, inst) ==
    [f \in Circ(dir[h].sol.src) |-> IF f \in DOMAIN inst THEN inst[f] ELSE 0]

DeployMain(h) ==
    /\ Doing(h, "verifiers") /\ DOMAIN op[h].inst = Circ(dir[h].zkay)
    /\ \/ /\ rt[h].pki \in Pkis
          /\ chain' = Append(chain, [kind |-> "main", sol |-> dir[h].sol, solc |-> rt[h].solc,
                                     pki |-> rt[h].pki, inst |-> Instantiated(h, op[h].inst)])
          /\ conn' = [conn EXCEPT ![h] = [by |-> "deploy", main |-> NextAddress]]
          /\ Stop(h)
          /\ UNCHANGED <<compVars, rt, stuck, sessions, deploys, failures>>
       \/ rt[h].pki \notin Pkis /\ Raise(h, rt[h]) /\ UNCHANGED failures
       \/ Fails(h, rt[h])

-----------------------------------------------------------------------------
(* connect                                                                 *)

StartConnect(h, a) ==
    /\ rt[h].on /\ op[h] = Nothing /\ cmd[h] = Idle /\ dir[h].zkay # NoFile
    /\ a \in DOMAIN chain /\ chain[a].kind = "main"
    /\ conn' = [conn EXCEPT ![h] = NoContract]
    /\ \/ /\ dir[h].sol # NoFile
          /\ Proceed(h, [pc |-> "pki", main |-> a])
          /\ UNCHANGED compVars
       \/ /\ dir[h].sol = NoFile
          /\ Proceed(h, [pc |-> "compile", main |-> a])
          /\ Begin(h, Command(dir[h].zkay, rt[h].scheme, "connect"))
          /\ UNCHANGED <<dir, cut, pkg, keyGens, commands, cuts>>
    /\ UNCHANGED <<chain, rt, stuck, sessions, deploys, failures>>

AfterCompilation(h) ==
    /\ Doing(h, "compile") /\ cmd[h] = Idle
    /\ IF ready[h] THEN Step(h, "pki") ELSE Stop(h)
    /\ UNCHANGED <<compVars, chain, rt, conn, stuck, sessions, deploys, failures>>

Remote(h) == chain[op[h].main]

\* _pki_contract is emptied before the PKI is requested and verified.
ConnectPki(h) ==
    /\ Doing(h, "pki")
    /\ \/ /\ rt' = [rt EXCEPT ![h].pki = Remote(h).pki]
          /\ Step(h, "contracts")
          /\ UNCHANGED <<compVars, chain, conn, stuck, sessions, deploys, failures>>
       \/ \E solc \in {rt[h].solc, "library"} :
             Fails(h, [rt[h] EXCEPT !.pki = "empty", !.solc = solc])

\* The checks of bytecode and of the prover key, with session settings r.
VerifierMatches(h, r, m, f) ==
    /\ f \in DOMAIN m.inst /\ m.inst[f] # 0
    /\ chain[m.inst[f]].ver = dir[h].ver[f] /\ chain[m.inst[f]].solc = r.solc
    /\ dir[h].ver[f].pk = Out(h, f).pk

MainMatches(h, r, m) ==
    /\ m.sol = dir[h].sol /\ m.solc = r.solc
    /\ \A f \in DOMAIN m.inst \ Circ(dir[h].zkay) : m.inst[f] = 0

\* Mutation: the bytecode of the verification contracts is not compared.
MatchesExceptVerifiers(h, r, m) ==
    /\ \A f \in Circ(dir[h].zkay) :
          /\ f \in DOMAIN m.inst /\ m.inst[f] # 0
          /\ dir[h].ver[f] # NoFile /\ dir[h].ver[f].pk = Out(h, f).pk
    /\ MainMatches(h, r, m)

Matches(h, r, m) ==
    /\ \A f \in Circ(dir[h].zkay) : VerifierMatches(h, r, m, f)
    /\ MainMatches(h, r, m)

\* The addresses of the libraries are known as soon as those linked in the first
\* verification contract are verified.
WithLibraries(h, m) ==
    IF \E f \in Circ(dir[h].zkay) : f \in DOMAIN m.inst /\ dir[h].ver[f] # NoFile
    THEN [rt[h] EXCEPT !.libs = "all"] ELSE rt[h]

ConnectContracts(h) ==
    /\ Doing(h, "contracts")
    /\ \/ /\ Matches(h, rt[h], Remote(h))
          /\ rt' = [rt EXCEPT ![h] = [WithLibraries(h, Remote(h)) EXCEPT !.keys = TRUE]]
          /\ conn' = [conn EXCEPT ![h] = [by |-> "connect", main |-> op[h].main]]
          /\ Stop(h)
          /\ UNCHANGED <<compVars, chain, stuck, sessions, deploys, failures>>
       \/ /\ ~Matches(h, rt[h], Remote(h))
          /\ Raise(h, WithLibraries(h, Remote(h))) /\ UNCHANGED failures
       \/ \E r \in {rt[h], WithLibraries(h, Remote(h))}
                   \cup {[rt[h] EXCEPT !.solc = "library"] : s \in {rt[h].scheme} \cap LibSchemes} :
             Fails(h, r)

-----------------------------------------------------------------------------

\* A host runs one command or session at a time, but for StartConnect.
CommandOf(h) ==
    /\ ~rt[h].on \/ op[h].pc = "compile"
    /\ CompNext(h) /\ (rt[h].on => CompileStep(h) \/ CutOff(h))
    /\ UNCHANGED depVars

Operation(h) ==
    \/ InitializeKeys(h) \/ \E f \in Names : DeployVerifier(h, f)
    \/ DeployMain(h) \/ AfterCompilation(h) \/ ConnectPki(h) \/ ConnectContracts(h)

HostNext(h) ==
    \/ CommandOf(h) \/ StartSession(h) \/ EndSession(h)
    \/ StartDeploy(h) \/ (\E a \in DOMAIN chain : StartConnect(h, a)) \/ Operation(h)

Next == \E h \in Hosts : HostNext(h)

Spec == Init /\ [][Next]_vars

-----------------------------------------------------------------------------
(* Properties                                                              *)

OutDirs == [hash : Digests \cup {NoFile}, java : Digests \cup {NoFile},
            arith : Digests \cup {NoFile}, vk : Keys \cup {NoFile},
            pk : Keys \cup {NoFile}, bin : Keys \cup {NoFile}]

Got(h) == chain[conn[h].main]

\* Files, sessions and contracts are well-formed: no verification contract is
\* written from a missing key, no contract refers to an address without one.
TypeOK ==
    /\ \A h \in Hosts :
          /\ dir[h].zkay \in Sources \cup {NoFile} /\ dir[h].sol \in Solidity \cup {NoFile}
          /\ dir[h].manifest \in Schemes \cup {NoFile}
          /\ dir[h].out \in [Names -> OutDirs]
          /\ dir[h].ver \in [Names -> VerificationContracts \cup {NoFile}]
          /\ rt[h].on => rt[h].pki \in Pkis \cup {None, "empty"}
          /\ conn[h] # NoContract => Got(h).kind = "main"
    /\ WellFormed(chain)

\* After a compilation or an import that ended without an error, the circuit of
\* every verifier is that of contract.zkay, its three key files come from one
\* generation for it, and the verification contract contains them, whatever was
\* compiled, exported or cut off before: a circuit or key that an older run has
\* left is kept only if it fits.  Except what was cut off while it was replaced.
KeysFitUnlessCut ==
    \A h \in Hosts : ready[h] => \A f \in Circ(dir[h].zkay) \ cut[h] :
        LET out == Out(h, f)
            d == Digest(dir[h].zkay, f, dir[h].manifest)
        IN  /\ {out.hash, out.java, out.arith, out.vk.circ} = {d}
            /\ out.vk = out.pk /\ out.vk = out.bin
            /\ dir[h].ver[f] = [vk |-> out.vk, pk |-> out.pk, scheme |-> dir[h].manifest]

\* "If this function succeeds, it is guaranteed" (interface.py:244-253): the remote
\* contract is what zkay makes of the local file and manifest, the PKI that is used
\* is the one it refers to, its verification contracts contain the local keys; if
\* the directory was completed, proofs for the local circuits are accepted.
\* Except when contract.zkay was replaced and contract.sol or the manifest was not.
ConnectGuaranteeUnlessCut ==
    \A h \in Hosts : conn[h].by = "connect" =>
        LET m == Got(h)
            verifier(f) == chain[m.inst[f]].ver
        IN  /\ rt[h].pki = m.pki
            /\ "contract.zkay" \notin cut[h] =>
                  /\ m.sol = [src |-> dir[h].zkay, scheme |-> dir[h].manifest]
                  /\ DOMAIN m.inst = Circ(dir[h].zkay)
            /\ \A f \in Circ(dir[h].zkay) \cap DOMAIN m.inst :
                  /\ verifier(f) = dir[h].ver[f] /\ verifier(f).pk = Out(h, f).pk
                  /\ (ready[h] /\ f \notin cut[h]) =>
                        verifier(f).vk.circ = Digest(dir[h].zkay, f, dir[h].manifest)

\* A contract deployed from a completed directory passes the checks of everyone
\* with the same files, in particular of the deployer's next session.  Except
\* when this session has seen a library check fail: it stays in the settings for
\* libraries and deploys code that no session with the manifest's accepts.
ConnectableUnlessStuck ==
    \A h \in Hosts :
        (conn[h].by = "deploy" /\ ready[h] /\ cut[h] = {} /\ ~stuck[h]) =>
            Matches(h, Session(dir[h].manifest), Got(h))
=============================================================================

-------------------------- MODULE Deployment_proofs --------------------------
(***************************************************************************)
(* Proofs about project directories, deployments and connections, for any  *)
(* number of hosts, sources, verifiers and operations, and for every       *)
(* interleaving of the hosts.                                              *)
(*                                                                         *)
(* What the commands leave in a directory is followed file by file: the    *)
(* invariant says of every point at which a command may be cut off which   *)
(* of a verifier's files fit together.  A session adds what it knows of    *)
(* the directory and of the contracts.                                     *)
(***************************************************************************)
EXTENDS Deployment, TLAPS

-----------------------------------------------------------------------------
(* Directories and commands                                                *)

Statuses == {"new", "modified", "java", "arith", "done", "keys", "generating", "written"}
Kinds == {"compile", "import", "connect"}
Pcs == {"analysis", "manifest", "circuits", "keys", "verifiers"}

Dirs == [zkay : Sources \cup {NoFile}, sol : Solidity \cup {NoFile},
         manifest : Schemes \cup {NoFile}, out : [Names -> OutDirs],
         ver : [Names -> VerificationContracts \cup {NoFile}]]
Commands == [pc : Pcs, src : Sources, scheme : Schemes, kind : Kinds,
             st : UNION {[Circ(s) -> Statuses] : s \in Sources}, modified : SUBSET Names]
Cuts == SUBSET (Names \cup {"contract.zkay"})

Packages == [zkay : Sources, manifest : Schemes, cut : Cuts,
             keys : UNION {[Circ(s) -> [KeyFiles -> SomeKeys]] : s \in Sources}]
Extractions == [pc : {"extract"}, kind : {"import"}, archive : Packages]
AnyCommand == Commands \cup Extractions \cup {Idle}

\* A command runs; a compilation runs, begun by compile, import or connect.
Running(h) == cmd[h].pc # "idle"
Busy(h) == cmd[h].pc \notin {"idle", "extract"}
Compiles(h) == cmd[h].kind = "compile"
Wanted(h, f) == Digest(cmd[h].src, f, cmd[h].scheme)

HasKeys(o) == o.vk # NoFile /\ o.pk # NoFile /\ o.bin # NoFile
NoKeys(o) == o.vk = NoFile /\ o.pk = NoFile /\ o.bin = NoFile
OneKey(o) == HasKeys(o) => o.vk = o.pk /\ o.vk = o.bin

\* The files of a verifier fit together.
Sane(o) ==
    /\ OneKey(o)
    /\ o.hash # NoFile => /\ o.java = o.hash /\ o.arith = o.hash
                          /\ HasKeys(o) => o.vk.circ = o.hash

\* Verifier f is being replaced.
InHand(h, f) ==
    Busy(h) /\ f \in Circ(cmd[h].src) /\ Now(h, f) \in {"java", "arith", "generating"}

\* What the status of f says about its files.
StatusOK(h, f) ==
    LET st == Now(h, f)
        o == Out(h, f)
    IN  /\ cmd[h].pc \in {"analysis", "manifest"} => st = "new"
        /\ cmd[h].pc = "circuits" => st \in {"new", "modified", "java", "arith", "done"}
        /\ cmd[h].pc = "keys" => st \in {"done", "keys", "generating"}
        /\ cmd[h].pc = "verifiers" => st \in {"done", "written"}
        /\ st \in {"java", "arith"} => o.java = Wanted(h, f) /\ (Compiles(h) => NoKeys(o))
        /\ st = "arith" => o.arith = Wanted(h, f)
        /\ st \in {"done", "keys", "generating", "written"} =>
              o.hash = Wanted(h, f) /\ o.arith # NoFile
        /\ st = "generating" =>
              /\ o.vk # NoFile /\ o.vk.circ = o.arith
              /\ f \notin cut[h] => o.java = Wanted(h, f) /\ o.arith = Wanted(h, f)
        /\ cmd[h].pc = "verifiers" \/ (cmd[h].pc = "keys" /\ st = "done") => HasKeys(o)
        /\ st = "written" =>
              dir[h].ver[f] = [vk |-> o.vk, pk |-> o.pk, scheme |-> cmd[h].scheme]

CommandOK(h) ==
    Busy(h) =>
        /\ ~ready[h]
        /\ dir[h].zkay = cmd[h].src
        /\ Compiles(h) \/ cmd[h].pc \in {"analysis", "circuits", "verifiers"}
        /\ \/ Compiles(h) /\ cmd[h].pc \in {"analysis", "manifest"}
           \/ dir[h].manifest = cmd[h].scheme
        /\ cmd[h].pc = "analysis" \/ dir[h].sol = [src |-> cmd[h].src, scheme |-> cmd[h].scheme]
        /\ \A f \in Circ(cmd[h].src) : StatusOK(h, f)

FilesOK(h) == \A f \in Names \ cut[h] : InHand(h, f) \/ Sane(Out(h, f))

\* The keys in a directory that no command has completed came with its contract.
ImportedOK(h) ==
    (IF Busy(h) THEN ~Compiles(h) ELSE dir[h].sol = NoFile) /\ dir[h].zkay # NoFile =>
        \A f \in Circ(dir[h].zkay) \ cut[h] :
            /\ OneKey(Out(h, f))
            /\ HasKeys(Out(h, f)) => Out(h, f).vk.circ = Digest(dir[h].zkay, f, dir[h].manifest)

\* The contract was made from the source and the manifest beside it.
MadeFromSource(h) ==
    /\ dir[h].zkay # NoFile /\ dir[h].manifest # NoFile
    /\ dir[h].sol = [src |-> dir[h].zkay, scheme |-> dir[h].manifest]

ReadyOK(h) ==
    ready[h] =>
        /\ ~Busy(h) /\ MadeFromSource(h)
        /\ \A f \in Circ(dir[h].zkay) :
              /\ Out(h, f).hash = Digest(dir[h].zkay, f, dir[h].manifest)
              /\ HasKeys(Out(h, f))
              /\ dir[h].ver[f] = [vk |-> Out(h, f).vk, pk |-> Out(h, f).pk,
                                  scheme |-> dir[h].manifest]

ContractFileOK(h) ==
    ~Busy(h) /\ "contract.zkay" \notin cut[h] /\ dir[h].sol # NoFile => MadeFromSource(h)

\* What is exported fits together, except what it says is cut.
GoodPackage(p) ==
    /\ p \in Packages
    /\ p.keys \in [Circ(p.zkay) -> [KeyFiles -> Keys]]
    /\ \A f \in Circ(p.zkay) \ p.cut :
          /\ p.keys[f].vk = p.keys[f].pk /\ p.keys[f].vk = p.keys[f].bin
          /\ p.keys[f].vk.circ = Digest(p.zkay, f, p.manifest)

PackageOK == pkg # NoFile => GoodPackage(pkg)

\* Where files are extracted there is nothing else than what the archive contains,
\* and the manifest before the keys.
FromArchive(h, p) ==
    /\ cut[h] = p.cut /\ dir[h].zkay = p.zkay /\ dir[h].manifest \in {NoFile, p.manifest}
    /\ dir[h].sol = NoFile
    /\ \A f \in Names :
          /\ Out(h, f).hash = NoFile
          /\ \A x \in KeyFiles : Out(h, f)[x] # NoFile =>
                /\ f \in Circ(p.zkay) /\ dir[h].manifest = p.manifest
                /\ Out(h, f)[x] = p.keys[f][x]

ExtractOK(h) ==
    At(h, "extract") =>
        ~ready[h] /\ GoodPackage(cmd[h].archive) /\ FromArchive(h, cmd[h].archive)

CompTypeOK ==
    /\ dir \in [Hosts -> Dirs]
    /\ cmd \in [Hosts -> AnyCommand]
    /\ \A h \in Hosts : Busy(h) => cmd[h].st \in [Circ(cmd[h].src) -> Statuses]
    /\ ready \in [Hosts -> BOOLEAN]
    /\ cut \in [Hosts -> Cuts]
    /\ keyGens \in Nat

HostOK(h) ==
    /\ CommandOK(h) /\ ExtractOK(h) /\ FilesOK(h) /\ ImportedOK(h) /\ ReadyOK(h)
    /\ ContractFileOK(h)

CompInv == CompTypeOK /\ PackageOK /\ \A h \in Hosts : HostOK(h)

-----------------------------------------------------------------------------
(* Sessions                                                                *)

Sessions ==
    [on : {TRUE}, scheme : Schemes, solc : Solcs, pki : Pkis \cup {None, "empty"},
     libs : {None, "all", "some"}, keys : BOOLEAN]

\* Contract a of h's directory has the verification contract of f in it.
Verifies(h, inst, f, solc) ==
    /\ inst[f] \in DOMAIN chain /\ inst[f] # 0
    /\ chain[inst[f]].kind = "verifier"
    /\ chain[inst[f]].ver = dir[h].ver[f] /\ chain[inst[f]].solc = solc

Deploying(h) ==
    op[h].pc \in {"keys", "verifiers"} =>
        /\ op[h] = [pc |-> op[h].pc, inst |-> op[h].inst]
        /\ dir[h].zkay # NoFile /\ dir[h].sol # NoFile
        /\ op[h].inst \in [DOMAIN op[h].inst -> Nat] /\ DOMAIN op[h].inst \subseteq Circ(dir[h].zkay)
        /\ \A f \in DOMAIN op[h].inst : Verifies(h, op[h].inst, f, rt[h].solc)

Connecting(h) ==
    op[h].pc \in {"compile", "pki", "contracts"} =>
        /\ op[h] = [pc |-> op[h].pc, main |-> op[h].main]
        /\ op[h].main \in DOMAIN chain /\ chain[op[h].main].kind = "main"
        /\ dir[h].zkay # NoFile
        /\ op[h].pc # "compile" => dir[h].sol # NoFile
        /\ op[h].pc = "contracts" => rt[h].pki = chain[op[h].main].pki

Deployed(h) ==
    conn[h].by = "deploy" =>
        /\ dir[h].zkay # NoFile /\ dir[h].sol # NoFile
        /\ Got(h).sol = dir[h].sol
        /\ \A f \in Circ(dir[h].zkay) \cap DOMAIN Got(h).inst :
              Verifies(h, Got(h).inst, f, Got(h).solc)
        /\ ~stuck[h] => Got(h).solc = "manifest"

ConnectedOK(h) ==
    conn[h].by = "connect" =>
        /\ dir[h].zkay # NoFile /\ dir[h].sol # NoFile
        /\ rt[h].pki = Got(h).pki
        /\ Got(h).sol = dir[h].sol
        /\ \A f \in Circ(dir[h].zkay) :
              /\ f \in DOMAIN Got(h).inst /\ Got(h).inst[f] # 0
              /\ chain[Got(h).inst[f]].ver = dir[h].ver[f]
              /\ dir[h].ver[f].pk = Out(h, f).pk

SessionOK(h) ==
    /\ ~rt[h].on => rt[h] = Off /\ op[h] = Nothing /\ conn[h] = NoContract
    /\ rt[h].on =>
        /\ rt[h] \in Sessions /\ rt[h].scheme = dir[h].manifest
        /\ IF op[h].pc = "compile" THEN Running(h) => cmd[h].kind = "connect" ELSE ~Running(h)
        /\ ~stuck[h] => rt[h].solc = "manifest"
    /\ op[h].pc \in {"idle", "keys", "verifiers", "compile", "pki", "contracts"}
    /\ op[h].pc = "idle" => op[h] = Nothing
    /\ op[h] # Nothing => conn[h] = NoContract
    /\ conn[h] # NoContract =>
        /\ conn[h].by \in {"deploy", "connect"}
        /\ conn[h].main \in DOMAIN chain /\ Got(h).kind = "main"
    /\ Deploying(h) /\ Connecting(h) /\ Deployed(h) /\ ConnectedOK(h)

SessionTypeOK ==
    /\ WellFormed(chain)
    /\ rt \in [Hosts -> Sessions \cup {Off}]
    /\ op = [h \in Hosts |-> op[h]] /\ conn = [h \in Hosts |-> conn[h]]
    /\ stuck \in [Hosts -> BOOLEAN]

SessionInv == SessionTypeOK /\ \A h \in Hosts : SessionOK(h)

DepInv == CompInv /\ SessionInv

-----------------------------------------------------------------------------
(* One host's step and the directories of the others                       *)

\* The keys that were there stay keys when others are generated.
LEMMA KeysGrow ==
    ASSUME keyGens \in Nat, keyGens' \in {keyGens, keyGens + 1}
    PROVE  /\ Keys \subseteq Keys' /\ VerificationContracts \subseteq VerificationContracts'
           /\ OutDirs \subseteq OutDirs' /\ Dirs \subseteq Dirs'
<1>1. Keys \subseteq Keys'
  BY DEF Keys
<1>2. VerificationContracts \subseteq VerificationContracts'
  BY <1>1 DEF VerificationContracts
<1>3. OutDirs \subseteq OutDirs'
  BY <1>1 DEF OutDirs
<1>4. Dirs \subseteq Dirs'
  BY <1>2, <1>3 DEF Dirs
<1> QED BY <1>1, <1>2, <1>3, <1>4

\* A step at another host leaves what is known of host k.
LEMMA OtherHost ==
    ASSUME NEW k \in Hosts, HostOK(k),
           dir'[k] = dir[k], cmd'[k] = cmd[k], ready'[k] = ready[k], cut'[k] = cut[k],
           keyGens \in Nat, keyGens' \in {keyGens, keyGens + 1}
    PROVE  HostOK(k)'
<1>1. CommandOK(k)'
  BY DEF HostOK, CommandOK, Busy, Compiles, StatusOK, Now, Out, Wanted
<1>2. FilesOK(k)'
  BY DEF HostOK, FilesOK, InHand, Busy, Now, Out
<1>3. ImportedOK(k)'
  BY DEF HostOK, ImportedOK, Busy, Compiles, Out
<1>4. ReadyOK(k)'
  BY DEF HostOK, ReadyOK, Busy, MadeFromSource, Out
<1>5. ContractFileOK(k)'
  BY DEF HostOK, ContractFileOK, Busy, MadeFromSource
<1>6. ExtractOK(k)'
  <2>1. GoodPackage(cmd[k].archive) => GoodPackage(cmd[k].archive)'
    BY KeysGrow DEF GoodPackage
  <2> QED BY <2>1 DEF HostOK, ExtractOK, FromArchive, At, Out, GoodPackage
<1> QED BY <1>1, <1>2, <1>3, <1>4, <1>5, <1>6 DEF HostOK

\* The types of the files in a directory.
LEMMA DirParts ==
    ASSUME CompTypeOK, NEW h \in Hosts
    PROVE  /\ dir[h] \in Dirs
           /\ dir[h].zkay \in Sources \cup {NoFile} /\ dir[h].sol \in Solidity \cup {NoFile}
           /\ dir[h].manifest \in Schemes \cup {NoFile}
           /\ \A f \in Names : /\ Out(h, f) \in OutDirs
                               /\ dir[h].ver[f] \in VerificationContracts \cup {NoFile}
BY DEF CompTypeOK, Dirs, Out

\* The types of the fields of a running command.
LEMMA CommandParts ==
    ASSUME CompTypeOK, NEW h \in Hosts, Busy(h)
    PROVE  /\ cmd[h] \in Commands /\ cmd[h] # Idle
           /\ cmd[h].pc \in Pcs /\ cmd[h].src \in Sources /\ cmd[h].scheme \in Schemes
           /\ cmd[h].kind \in Kinds /\ cmd[h].modified \subseteq Names
           /\ cmd[h].st \in [Circ(cmd[h].src) -> Statuses]
           /\ Circ(cmd[h].src) \subseteq Names
           /\ \A f \in Circ(cmd[h].src) : Now(h, f) \in Statuses
<1>1. cmd[h] \in Commands /\ cmd[h] # Idle
  BY DEF CompTypeOK, AnyCommand, Extractions, Busy, Idle
<1>2. cmd[h].src \in Sources
  BY <1>1 DEF Commands
<1>3. Circ(cmd[h].src) \subseteq Names
  BY <1>2, CircuitAssumption DEF Circ
<1> QED BY <1>1, <1>2, <1>3 DEF CompTypeOK, Commands, Now

\* Digests are neither file names nor a missing file.
LEMMA DigestType ==
    ASSUME NEW s \in Sources, NEW p \in Schemes, NEW f \in Circ(s)
    PROVE  /\ f \in Names /\ f # "contract.zkay"
           /\ Digest(s, f, p) \in Digests /\ Digest(s, f, p) # NoFile
BY CircuitAssumption, NoFileAssumption DEF Digest, Digests, Circ

\* Writing one file of one verifier changes nothing else.
LEMMA WriteOne ==
    ASSUME CompTypeOK, NEW h \in Hosts, NEW f \in Names, NEW x \in Files, NEW v,
           Write(h, f, x, v), [Out(h, f) EXCEPT ![x] = v] \in OutDirs',
           keyGens' \in {keyGens, keyGens + 1}
    PROVE  /\ dir' \in [Hosts -> Dirs']
           /\ \A k \in Hosts \ {h} : dir'[k] = dir[k]
           /\ dir'[h].zkay = dir[h].zkay /\ dir'[h].sol = dir[h].sol
           /\ dir'[h].manifest = dir[h].manifest /\ dir'[h].ver = dir[h].ver
           /\ \A g \in Names \ {f} : Out(h, g)' = Out(h, g)
           /\ Out(h, f)' = [Out(h, f) EXCEPT ![x] = v]
           /\ Out(h, f)'[x] = v
           /\ \A y \in Files \ {x} : Out(h, f)'[y] = Out(h, f)[y]
<1>1. dir \in [Hosts -> Dirs] /\ Dirs \subseteq Dirs' /\ OutDirs \subseteq OutDirs'
  BY KeysGrow DEF CompTypeOK
<1>2. dir[h] \in Dirs' /\ dir[h].out \in [Names -> OutDirs']
  BY <1>1 DEF Dirs
<1> DEFINE o == [Out(h, f) EXCEPT ![x] = v]
           d == [dir[h] EXCEPT !.out = [dir[h].out EXCEPT ![f] = o]]
<1>3. dir' = [dir EXCEPT ![h] = d]
  BY DEF Write, Out
<1>4. o \in OutDirs'
  OBVIOUS
<1>5. d \in Dirs'
  <2> HIDE DEF o
  <2> QED BY <1>2, <1>4 DEF Dirs
<1>6. dir' \in [Hosts -> Dirs'] /\ dir'[h] = d /\ \A k \in Hosts \ {h} : dir'[k] = dir[k]
  <2> HIDE DEF d
  <2> QED BY <1>1, <1>3, <1>5
<1>7. /\ d.zkay = dir[h].zkay /\ d.sol = dir[h].sol /\ d.manifest = dir[h].manifest
      /\ d.ver = dir[h].ver /\ d.out = [dir[h].out EXCEPT ![f] = o]
  <2> HIDE DEF o
  <2> QED BY <1>2 DEF Dirs
<1>8. Out(h, f)' = o /\ \A g \in Names \ {f} : Out(h, g)' = Out(h, g)
  <2> HIDE DEF o, d
  <2> QED BY <1>2, <1>6, <1>7 DEF Out
<1>9. Out(h, f) \in OutDirs
  BY DirParts
<1>10. o[x] = v /\ \A y \in Files \ {x} : o[y] = Out(h, f)[y]
  BY <1>9 DEF OutDirs, Files
<1> HIDE DEF o, d
<1> QED BY <1>6, <1>7, <1>8, <1>10 DEF o

-----------------------------------------------------------------------------
(* Steps that work on one verifier                                         *)

\* The command goes on; nothing but its statuses and its list has changed.
SameCommand(h) ==
    /\ cmd' \in [Hosts -> AnyCommand]
    /\ \A k \in Hosts \ {h} : cmd'[k] = cmd[k]
    /\ cmd'[h].pc = cmd[h].pc /\ cmd'[h].src = cmd[h].src
    /\ cmd'[h].scheme = cmd[h].scheme /\ cmd'[h].kind = cmd[h].kind
    /\ cmd'[h].st \in [Circ(cmd[h].src) -> Statuses]

\* Marking one verifier changes only its status.
LEMMA MarkOne ==
    ASSUME CompTypeOK, NEW h \in Hosts, Busy(h), NEW f \in Circ(cmd[h].src),
           NEW st \in Statuses, Mark(h, f, st)
    PROVE  /\ SameCommand(h)
           /\ Now(h, f)' = st /\ \A g \in Circ(cmd[h].src) \ {f} : Now(h, g)' = Now(h, g)
           /\ cmd'[h].modified = cmd[h].modified
<1> DEFINE sts == [cmd[h].st EXCEPT ![f] = st]
           c == [cmd[h] EXCEPT !.st = sts]
<1>1. cmd' = [cmd EXCEPT ![h] = c] /\ cmd \in [Hosts -> AnyCommand]
  BY DEF Mark, CompTypeOK
<1>2. /\ cmd[h] \in Commands /\ cmd[h].src \in Sources
      /\ cmd[h].st \in [Circ(cmd[h].src) -> Statuses]
  BY CommandParts
<1>3. /\ sts \in [Circ(cmd[h].src) -> Statuses] /\ sts[f] = st
      /\ \A g \in Circ(cmd[h].src) \ {f} : sts[g] = cmd[h].st[g]
  BY <1>2
<1> HIDE DEF sts
<1>4. /\ c \in Commands /\ c.st = sts /\ c.pc = cmd[h].pc /\ c.src = cmd[h].src
      /\ c.scheme = cmd[h].scheme /\ c.kind = cmd[h].kind /\ c.modified = cmd[h].modified
  <2>1. sts \in UNION {[Circ(s) -> Statuses] : s \in Sources}
    BY <1>2, <1>3
  <2> QED BY <1>2, <2>1 DEF Commands
<1> HIDE DEF c
<1>5. cmd'[h] = c /\ cmd' \in [Hosts -> AnyCommand] /\ \A k \in Hosts \ {h} : cmd'[k] = cmd[k]
  BY <1>1, <1>4 DEF AnyCommand
<1> QED BY <1>3, <1>4, <1>5 DEF SameCommand, Now

\* A step that leaves the commands alone leaves the command of h.
LEMMA CommandKept ==
    ASSUME CompTypeOK, NEW h \in Hosts, Busy(h), cmd' = cmd
    PROVE  SameCommand(h)
BY CommandParts DEF SameCommand, CompTypeOK

\* Everything but the files of f stays as it is: what remains to be shown is
\* that f's status tells the truth, and that its files fit unless it is in hand.
LEMMA OneVerifier ==
    ASSUME CompInv, NEW h \in Hosts, Busy(h), SameCommand(h), UNCHANGED <<ready, pkg>>,
           NEW f \in Circ(cmd[h].src),
           \A g \in Circ(cmd[h].src) \ {f} : Now(h, g)' = Now(h, g),
           dir' \in [Hosts -> Dirs'], \A k \in Hosts \ {h} : dir'[k] = dir[k],
           dir'[h].zkay = dir[h].zkay, dir'[h].sol = dir[h].sol,
           dir'[h].manifest = dir[h].manifest,
           \A g \in Names \ {f} : Out(h, g)' = Out(h, g) /\ dir'[h].ver[g] = dir[h].ver[g],
           cut' \in [Hosts -> Cuts], \A k \in Hosts \ {h} : cut'[k] = cut[k],
           cut'[h] \cup {f} = cut[h] \cup {f},
           keyGens' \in {keyGens, keyGens + 1},
           StatusOK(h, f)', InHand(h, f)' \/ f \in cut'[h] \/ Sane(Out(h, f)'),
           Compiles(h) \/ (cut'[h] = cut[h] /\ \A x \in KeyFiles : Out(h, f)'[x] = Out(h, f)[x])
    PROVE  CompInv'
<1>0. HostOK(h) /\ CompTypeOK /\ f # "contract.zkay" /\ f \in Names
  BY CommandParts, DigestType DEF CompInv
<1>1. CompTypeOK'
  <2>1. Busy(h)' /\ \A k \in Hosts \ {h} : Busy(k)' <=> Busy(k)
    BY DEF SameCommand, Busy
  <2> QED BY <1>0, <2>1 DEF CompTypeOK, SameCommand
<1>2. PackageOK'
  BY <1>0, KeysGrow DEF CompInv, PackageOK, GoodPackage, CompTypeOK
<1>3. ASSUME NEW k \in Hosts \ {h}
      PROVE  HostOK(k)'
  BY <1>0, <1>3, OtherHost DEF CompInv, CompTypeOK, SameCommand
<1>4. /\ Busy(h)' /\ (Compiles(h)' <=> Compiles(h)) /\ cmd'[h].src = cmd[h].src
      /\ Circ(cmd[h].src) \subseteq Names
  BY <1>0, CommandParts DEF SameCommand, Busy, Compiles
<1>5. CommandOK(h)'
  <2>1. ASSUME NEW g \in Circ(cmd[h].src) \ {f}
        PROVE  StatusOK(h, g)'
    <3>1. StatusOK(h, g) /\ g \in Names
      BY <1>0, <1>4 DEF HostOK, CommandOK
    <3>2. /\ Now(h, g)' = Now(h, g) /\ Out(h, g)' = Out(h, g) /\ dir'[h].ver[g] = dir[h].ver[g]
          /\ Wanted(h, g)' = Wanted(h, g) /\ (g \in cut'[h] <=> g \in cut[h])
      BY <1>4, <2>1, <3>1 DEF Wanted, SameCommand
    <3> QED BY <1>4, <3>1, <3>2 DEF StatusOK, SameCommand
  <2> QED BY <1>0, <1>4, <2>1 DEF HostOK, CommandOK, SameCommand
<1>6. FilesOK(h)'
  <2>1. ASSUME NEW g \in Names \ cut'[h], g # f
        PROVE  InHand(h, g)' \/ Sane(Out(h, g)')
    <3>1. g \notin cut[h] /\ Out(h, g)' = Out(h, g)
      BY <2>1
    <3>2. InHand(h, g) => InHand(h, g)'
      BY <1>4, <2>1 DEF InHand
    <3> QED BY <1>0, <2>1, <3>1, <3>2 DEF HostOK, FilesOK
  <2> QED BY <2>1 DEF FilesOK
<1>7. ImportedOK(h)'
  <2>1. CASE Compiles(h)
    BY <1>4, <2>1 DEF ImportedOK
  <2>2. CASE ~Compiles(h)
    <3>1. dir[h].zkay = cmd[h].src
      BY <1>0 DEF HostOK, CommandOK
    <3>2. ASSUME NEW g \in Circ(cmd[h].src)
          PROVE  \A x \in KeyFiles : Out(h, g)'[x] = Out(h, g)[x]
      BY <1>4, <2>2, <3>2
    <3> QED BY <1>0, <1>4, <2>2, <3>1, <3>2 DEF HostOK, ImportedOK, OneKey, HasKeys, KeyFiles
  <2> QED BY <2>1, <2>2
<1>8. ReadyOK(h)' /\ ContractFileOK(h)' /\ ExtractOK(h)'
  BY <1>0, <1>4 DEF HostOK, CommandOK, ReadyOK, ContractFileOK, ExtractOK, Busy, At
<1> QED BY <1>1, <1>2, <1>3, <1>5, <1>6, <1>7, <1>8 DEF CompInv, HostOK

\* The types of a verifier's files, and that they allow each write.
LEMMA OutTypes ==
    ASSUME CompTypeOK, NEW h \in Hosts, NEW f \in Names
    PROVE  /\ Out(h, f) \in OutDirs
           /\ \A x \in Files : Out(h, f)[x] \in IF x \in KeyFiles THEN Keys \cup {NoFile}
                                                ELSE Digests \cup {NoFile}
           /\ \A x \in KeyFiles, v \in Keys \cup {NoFile} : [Out(h, f) EXCEPT ![x] = v] \in OutDirs
           /\ \A x \in Files \ KeyFiles, v \in Digests \cup {NoFile} :
                 [Out(h, f) EXCEPT ![x] = v] \in OutDirs
<1>1. Out(h, f) \in OutDirs
  BY DirParts
<1> QED BY <1>1 DEF OutDirs, Files, KeyFiles

\* What a step on verifier f of the running command starts from.
LEMMA StepContext ==
    ASSUME CompInv, NEW h \in Hosts, Busy(h), NEW f \in Circ(cmd[h].src)
    PROVE  /\ CompTypeOK /\ HostOK(h) /\ StatusOK(h, f) /\ f \in Names
           /\ Wanted(h, f) \in Digests /\ Wanted(h, f) # NoFile
           /\ InHand(h, f) \/ f \in cut[h] \/ Sane(Out(h, f))
           /\ dir' = dir /\ keyGens' = keyGens =>
                 dir' \in [Hosts -> Dirs'] /\ \A g : Out(h, g)' = Out(h, g)
           /\ cut' = cut => cut' \in [Hosts -> Cuts]
<1>1. CompTypeOK /\ HostOK(h)
  BY DEF CompInv
<1>2. StatusOK(h, f)
  BY <1>1 DEF HostOK, CommandOK
<1>3. f \in Names /\ Wanted(h, f) \in Digests /\ Wanted(h, f) # NoFile
  BY <1>1, CommandParts, DigestType DEF Wanted
<1>4. InHand(h, f) \/ f \in cut[h] \/ Sane(Out(h, f))
  BY <1>1, <1>3 DEF HostOK, FilesOK
<1>5. keyGens' = keyGens => Dirs \subseteq Dirs'
  BY <1>1, KeysGrow DEF CompTypeOK
<1> QED BY <1>1, <1>2, <1>3, <1>4, <1>5 DEF CompTypeOK, Out

\* Each step of a compilation preserves the invariant.
LEMMA CompareHashKeeps ==
    ASSUME CompInv, NEW h \in Hosts, NEW f \in Names, CompareHash(h, f)
    PROVE  CompInv'
<1>1. /\ Busy(h) /\ cmd[h].pc = "circuits" /\ f \in Circ(cmd[h].src) /\ Now(h, f) = "new"
      /\ UNCHANGED <<dir, ready, cut, pkg, keyGens>>
  BY DEF CompareHash, At, Busy, Quiet
<1> DEFINE st == IF Unmodified(h, f) THEN "done" ELSE "modified"
<1>2. Mark(h, f, st) /\ st \in Statuses
  BY DEF CompareHash, Statuses
<1>3. CompTypeOK /\ HostOK(h) /\ (InHand(h, f) \/ f \in cut[h] \/ Sane(Out(h, f)))
      /\ dir' \in [Hosts -> Dirs'] /\ cut' \in [Hosts -> Cuts]
      /\ \A g : Out(h, g)' = Out(h, g)
  BY <1>1, StepContext
<1>4. /\ SameCommand(h) /\ Now(h, f)' = st
      /\ \A g \in Circ(cmd[h].src) \ {f} : Now(h, g)' = Now(h, g)
  BY <1>1, <1>2, <1>3, MarkOne
<1>5. StatusOK(h, f)'
  BY <1>1, <1>3, <1>4 DEF StatusOK, SameCommand, Unmodified, Wanted
<1>6. InHand(h, f)' \/ f \in cut'[h] \/ Sane(Out(h, f)')
  BY <1>1, <1>3 DEF InHand
<1> QED BY <1>1, <1>3, <1>4, <1>5, <1>6, OneVerifier

LEMMA RemoveKeyKeeps ==
    ASSUME CompInv, NEW h \in Hosts, NEW f \in Names, NEW x \in KeyFiles, RemoveKey(h, f, x)
    PROVE  CompInv'
<1>1. /\ Busy(h) /\ cmd[h].pc = "circuits" /\ f \in Circ(cmd[h].src) /\ Now(h, f) = "modified"
      /\ cmd' = cmd /\ UNCHANGED <<ready, cut, pkg, keyGens>> /\ Write(h, f, x, NoFile)
      /\ Compiles(h)
  BY DEF RemoveKey, At, Busy, Quiet, ImportKeys, Compiles
<1>2. CompTypeOK /\ HostOK(h) /\ StatusOK(h, f) /\ (InHand(h, f) \/ f \in cut[h] \/ Sane(Out(h, f)))
      /\ cut' \in [Hosts -> Cuts]
  BY <1>1, StepContext
<1>3. x \in Files /\ [Out(h, f) EXCEPT ![x] = NoFile] \in OutDirs'
  <2>1. [Out(h, f) EXCEPT ![x] = NoFile] \in OutDirs
    BY <1>2, OutTypes
  <2> QED BY <1>1, <1>2, <2>1, KeysGrow DEF CompTypeOK, Files, KeyFiles
<1>4. /\ dir' \in [Hosts -> Dirs'] /\ \A k \in Hosts \ {h} : dir'[k] = dir[k]
      /\ dir'[h].zkay = dir[h].zkay /\ dir'[h].sol = dir[h].sol
      /\ dir'[h].manifest = dir[h].manifest /\ dir'[h].ver = dir[h].ver
      /\ \A g \in Names \ {f} : Out(h, g)' = Out(h, g)
      /\ Out(h, f)'[x] = NoFile
      /\ \A y \in Files \ {x} : Out(h, f)'[y] = Out(h, f)[y]
  BY <1>1, <1>2, <1>3, WriteOne DEF CompTypeOK
<1>5. SameCommand(h) /\ Now(h, f)' = Now(h, f) /\ \A g : Now(h, g)' = Now(h, g)
  BY <1>1, <1>2, CommandKept DEF Now
<1>6. StatusOK(h, f)'
  BY <1>1, <1>2, <1>4, <1>5 DEF StatusOK, SameCommand, Wanted
<1>7. f \in cut'[h] \/ Sane(Out(h, f)')
  <2>1. ~InHand(h, f)
    BY <1>1 DEF InHand
  <2> QED BY <1>1, <1>2, <1>4, <2>1 DEF Sane, OneKey, HasKeys, Files, KeyFiles
<1> QED BY <1>1, <1>2, <1>4, <1>5, <1>6, <1>7, OneVerifier

LEMMA CompileJavaKeeps ==
    ASSUME CompInv, NEW h \in Hosts, NEW f \in Names, CompileJava(h, f)
    PROVE  CompInv'
<1>1. /\ Busy(h) /\ cmd[h].pc = "circuits" /\ f \in Circ(cmd[h].src) /\ Now(h, f) = "modified"
      /\ UNCHANGED <<ready, cut, pkg, keyGens>> /\ Write(h, f, "java", Wanted(h, f))
      /\ Mark(h, f, "java") /\ (Compiles(h) => NoKeys(Out(h, f)))
  BY DEF CompileJava, At, Busy, Quiet, ImportKeys, Compiles, Wanted, NoKeys, KeyFiles
<1>2. CompTypeOK /\ HostOK(h) /\ Wanted(h, f) \in Digests /\ cut' \in [Hosts -> Cuts]
  BY <1>1, StepContext
<1>3. "java" \in Files \ KeyFiles /\ [Out(h, f) EXCEPT !["java"] = Wanted(h, f)] \in OutDirs'
  <2>1. "java" \in Files \ KeyFiles
    BY DEF Files, KeyFiles
  <2>2. [Out(h, f) EXCEPT !["java"] = Wanted(h, f)] \in OutDirs
    BY <1>2, <2>1, OutTypes
  <2> QED BY <1>1, <1>2, <2>1, <2>2, KeysGrow DEF CompTypeOK
<1>4. /\ dir' \in [Hosts -> Dirs'] /\ \A k \in Hosts \ {h} : dir'[k] = dir[k]
      /\ dir'[h].zkay = dir[h].zkay /\ dir'[h].sol = dir[h].sol
      /\ dir'[h].manifest = dir[h].manifest /\ dir'[h].ver = dir[h].ver
      /\ \A g \in Names \ {f} : Out(h, g)' = Out(h, g)
      /\ Out(h, f)'["java"] = Wanted(h, f)
      /\ \A y \in Files \ {"java"} : Out(h, f)'[y] = Out(h, f)[y]
  BY <1>1, <1>2, <1>3, WriteOne DEF CompTypeOK
<1>5. /\ SameCommand(h) /\ Now(h, f)' = "java"
      /\ \A g \in Circ(cmd[h].src) \ {f} : Now(h, g)' = Now(h, g)
  BY <1>1, <1>2, MarkOne DEF Statuses
<1>6. \A x \in KeyFiles : Out(h, f)'[x] = Out(h, f)[x]
  BY <1>4 DEF Files, KeyFiles
<1>7. StatusOK(h, f)'
  BY <1>1, <1>2, <1>4, <1>5, <1>6 DEF StatusOK, SameCommand, Wanted, Compiles, NoKeys, KeyFiles
<1>8. InHand(h, f)'
  BY <1>1, <1>5 DEF InHand, SameCommand, Busy
<1> QED BY <1>1, <1>2, <1>4, <1>5, <1>6, <1>7, <1>8, OneVerifier

LEMMA CompileCircuitKeeps ==
    ASSUME CompInv, NEW h \in Hosts, NEW f \in Names, CompileCircuit(h, f)
    PROVE  CompInv'
<1>1. /\ Busy(h) /\ cmd[h].pc = "circuits" /\ f \in Circ(cmd[h].src) /\ Now(h, f) = "java"
      /\ UNCHANGED <<ready, cut, pkg, keyGens>> /\ Write(h, f, "arith", Out(h, f).java)
      /\ Mark(h, f, "arith")
  BY DEF CompileCircuit, At, Busy, Quiet
<1>2. /\ CompTypeOK /\ HostOK(h) /\ StatusOK(h, f) /\ Wanted(h, f) \in Digests
      /\ cut' \in [Hosts -> Cuts]
  BY <1>1, StepContext
<1>3. Out(h, f).java = Wanted(h, f) /\ (Compiles(h) => NoKeys(Out(h, f)))
  BY <1>1, <1>2 DEF StatusOK
<1>4. "arith" \in Files \ KeyFiles /\ [Out(h, f) EXCEPT !["arith"] = Wanted(h, f)] \in OutDirs'
  <2>1. "arith" \in Files \ KeyFiles
    BY DEF Files, KeyFiles
  <2>2. [Out(h, f) EXCEPT !["arith"] = Wanted(h, f)] \in OutDirs
    BY <1>2, <2>1, OutTypes
  <2> QED BY <1>1, <1>2, <2>1, <2>2, KeysGrow DEF CompTypeOK
<1>5. /\ dir' \in [Hosts -> Dirs'] /\ \A k \in Hosts \ {h} : dir'[k] = dir[k]
      /\ dir'[h].zkay = dir[h].zkay /\ dir'[h].sol = dir[h].sol
      /\ dir'[h].manifest = dir[h].manifest /\ dir'[h].ver = dir[h].ver
      /\ \A g \in Names \ {f} : Out(h, g)' = Out(h, g)
      /\ Out(h, f)'["arith"] = Wanted(h, f)
      /\ \A y \in Files \ {"arith"} : Out(h, f)'[y] = Out(h, f)[y]
  BY <1>1, <1>2, <1>3, <1>4, WriteOne DEF CompTypeOK
<1>6. /\ SameCommand(h) /\ Now(h, f)' = "arith"
      /\ \A g \in Circ(cmd[h].src) \ {f} : Now(h, g)' = Now(h, g)
  BY <1>1, <1>2, MarkOne DEF Statuses
<1>7. \A x \in KeyFiles : Out(h, f)'[x] = Out(h, f)[x]
  BY <1>5 DEF Files, KeyFiles
<1>8. StatusOK(h, f)'
  BY <1>1, <1>2, <1>3, <1>5, <1>6, <1>7
     DEF StatusOK, SameCommand, Wanted, Compiles, NoKeys, KeyFiles, Files
<1>9. InHand(h, f)'
  BY <1>1, <1>6 DEF InHand, SameCommand, Busy
<1> QED BY <1>1, <1>2, <1>5, <1>6, <1>7, <1>8, <1>9, OneVerifier

\* The hash is written last: from now on the circuit is that of the source, and
\* the keys are gone or have come with the source.
LEMMA WriteHashKeeps ==
    ASSUME CompInv, NEW h \in Hosts, NEW f \in Names, WriteHash(h, f)
    PROVE  CompInv'
<1>1. /\ Busy(h) /\ cmd[h].pc = "circuits" /\ f \in Circ(cmd[h].src) /\ Now(h, f) = "arith"
      /\ UNCHANGED <<ready, pkg, keyGens>> /\ Write(h, f, "hash", Wanted(h, f))
      /\ cmd' = [cmd EXCEPT ![h].st[f] = "done", ![h].modified = @ \cup {f}]
      /\ cut' = IF Compiles(h) THEN [cut EXCEPT ![h] = @ \ {f}] ELSE cut
  BY DEF WriteHash, At, Busy, ImportKeys, Compiles, Wanted
<1>2. /\ CompTypeOK /\ HostOK(h) /\ StatusOK(h, f) /\ f \in Names
      /\ Wanted(h, f) \in Digests
  BY <1>1, StepContext
<1>3. /\ Out(h, f).java = Wanted(h, f) /\ Out(h, f).arith = Wanted(h, f)
      /\ Compiles(h) => NoKeys(Out(h, f))
  BY <1>1, <1>2 DEF StatusOK
<1>4. "hash" \in Files \ KeyFiles /\ [Out(h, f) EXCEPT !["hash"] = Wanted(h, f)] \in OutDirs'
  <2>1. "hash" \in Files \ KeyFiles
    BY DEF Files, KeyFiles
  <2>2. [Out(h, f) EXCEPT !["hash"] = Wanted(h, f)] \in OutDirs
    BY <1>2, <2>1, OutTypes
  <2> QED BY <1>1, <1>2, <2>1, <2>2, KeysGrow DEF CompTypeOK
<1>5. /\ dir' \in [Hosts -> Dirs'] /\ \A k \in Hosts \ {h} : dir'[k] = dir[k]
      /\ dir'[h].zkay = dir[h].zkay /\ dir'[h].sol = dir[h].sol
      /\ dir'[h].manifest = dir[h].manifest /\ dir'[h].ver = dir[h].ver
      /\ \A g \in Names \ {f} : Out(h, g)' = Out(h, g)
      /\ Out(h, f)'["hash"] = Wanted(h, f)
      /\ \A y \in Files \ {"hash"} : Out(h, f)'[y] = Out(h, f)[y]
  BY <1>1, <1>2, <1>4, WriteOne DEF CompTypeOK
<1> DEFINE sts == [cmd[h].st EXCEPT ![f] = "done"]
           c == [cmd[h] EXCEPT !.st = sts, !.modified = cmd[h].modified \cup {f}]
<1>6. /\ SameCommand(h) /\ Now(h, f)' = "done"
      /\ \A g \in Circ(cmd[h].src) \ {f} : Now(h, g)' = Now(h, g)
  <2>1. /\ cmd[h] \in Commands /\ cmd[h].src \in Sources /\ cmd[h].modified \subseteq Names
        /\ cmd[h].st \in [Circ(cmd[h].src) -> Statuses] /\ cmd \in [Hosts -> AnyCommand]
    BY <1>1, <1>2, CommandParts DEF CompTypeOK
  <2>2. cmd' = [cmd EXCEPT ![h] = c]
    BY <1>1
  <2>3. /\ sts \in [Circ(cmd[h].src) -> Statuses] /\ sts[f] = "done"
        /\ \A g \in Circ(cmd[h].src) \ {f} : sts[g] = cmd[h].st[g]
    BY <1>1, <2>1 DEF Statuses
  <2> HIDE DEF sts
  <2>4. /\ c \in Commands /\ c.st = sts /\ c.pc = cmd[h].pc /\ c.src = cmd[h].src
        /\ c.scheme = cmd[h].scheme /\ c.kind = cmd[h].kind
    <3>1. sts \in UNION {[Circ(s) -> Statuses] : s \in Sources}
      BY <2>1, <2>3
    <3> QED BY <1>2, <2>1, <3>1 DEF Commands
  <2> HIDE DEF c
  <2>5. cmd'[h] = c /\ cmd' \in [Hosts -> AnyCommand] /\ \A k \in Hosts \ {h} : cmd'[k] = cmd[k]
    BY <2>1, <2>2, <2>4 DEF AnyCommand
  <2> QED BY <2>3, <2>4, <2>5 DEF SameCommand, Now
<1> HIDE DEF sts, c
<1>7. /\ cut' \in [Hosts -> Cuts] /\ \A k \in Hosts \ {h} : cut'[k] = cut[k]
      /\ cut'[h] \cup {f} = cut[h] \cup {f} /\ (Compiles(h) \/ cut'[h] = cut[h])
  BY <1>1, <1>2 DEF CompTypeOK, Cuts
<1>8. \A x \in KeyFiles : Out(h, f)'[x] = Out(h, f)[x]
  BY <1>5 DEF Files, KeyFiles
<1>9. Out(h, f)'.java = Wanted(h, f) /\ Out(h, f)'.arith = Wanted(h, f) /\ Wanted(h, f) # NoFile
  BY <1>1, <1>3, <1>5, StepContext DEF Files
<1>10. StatusOK(h, f)'
  BY <1>1, <1>5, <1>6, <1>9 DEF StatusOK, SameCommand, Wanted
<1>11. f \in cut'[h] \/ Sane(Out(h, f)')
  <2>1. CASE Compiles(h)
    <3>1. NoKeys(Out(h, f)')
      BY <1>3, <1>8, <2>1 DEF NoKeys, KeyFiles
    <3> QED BY <1>5, <1>9, <3>1 DEF Sane, OneKey, HasKeys, NoKeys
  <2>2. CASE ~Compiles(h)
    <3>1. dir[h].zkay = cmd[h].src /\ dir[h].manifest = cmd[h].scheme /\ cmd[h].src # NoFile
      BY <1>1, <1>2, <2>2, CommandParts, NoFileAssumption DEF HostOK, CommandOK
    <3>2. f \in cut[h] \/ /\ OneKey(Out(h, f))
                          /\ HasKeys(Out(h, f)) => Out(h, f).vk.circ = Wanted(h, f)
      BY <1>1, <1>2, <2>2, <3>1 DEF HostOK, ImportedOK, Wanted
    <3> QED BY <1>1, <1>5, <1>8, <1>9, <2>2, <3>2 DEF Sane, OneKey, HasKeys, KeyFiles
  <2> QED BY <2>1, <2>2
<1> QED BY <1>1, <1>5, <1>6, <1>7, <1>8, <1>10, <1>11, OneVerifier

\* The circuit handled next is one whose turn it is.
LEMMA NextOne ==
    ASSUME NEW h \in Hosts, NEW sts, NEW f \in Names, f = NextIn(h, sts)
    PROVE  f \in Circ(cmd[h].src) /\ Now(h, f) \in sts
<1> DEFINE rest == {g \in Circ(cmd[h].src) : Now(h, g) \in sts}
<1>1. rest # {}
  BY NoFileAssumption DEF NextIn
<1>2. f \in rest
  BY <1>1 DEF NextIn
<1> QED BY <1>2

LEMMA StartKeyGenerationKeeps ==
    ASSUME CompInv, NEW h \in Hosts, NEW f \in Names, StartKeyGeneration(h, f)
    PROVE  CompInv'
<1> DEFINE new == [id |-> keyGens + 1, circ |-> Out(h, f).arith]
<1>1. /\ Busy(h) /\ cmd[h].pc = "keys" /\ Now(h, f) = "keys"
      /\ UNCHANGED <<ready, cut, pkg>> /\ keyGens' = keyGens + 1
      /\ Write(h, f, "vk", new) /\ Mark(h, f, "generating") /\ f \in Circ(cmd[h].src)
  BY NextOne DEF StartKeyGeneration, At, Busy
<1>2. /\ CompTypeOK /\ HostOK(h) /\ StatusOK(h, f) /\ cut' \in [Hosts -> Cuts]
      /\ InHand(h, f) \/ f \in cut[h] \/ Sane(Out(h, f))
  BY <1>1, StepContext
<1>3. Out(h, f).hash = Wanted(h, f) /\ Out(h, f).arith # NoFile /\ Wanted(h, f) # NoFile
  BY <1>1, <1>2, StepContext DEF StatusOK
<1>4. /\ keyGens \in Nat /\ keyGens' \in {keyGens, keyGens + 1}
      /\ Out(h, f) \in OutDirs' /\ Out(h, f).arith \in Digests
  BY <1>1, <1>2, <1>3, OutTypes, KeysGrow DEF CompTypeOK, OutDirs
<1>5. new \in Keys' /\ new # NoFile /\ new.circ = Out(h, f).arith
  BY <1>1, <1>4, NoFileAssumption DEF Keys
<1> HIDE DEF new
<1>6. "vk" \in Files /\ [Out(h, f) EXCEPT !["vk"] = new] \in OutDirs'
  BY <1>4, <1>5 DEF OutDirs, Files
<1>7. /\ dir' \in [Hosts -> Dirs'] /\ \A k \in Hosts \ {h} : dir'[k] = dir[k]
      /\ dir'[h].zkay = dir[h].zkay /\ dir'[h].sol = dir[h].sol
      /\ dir'[h].manifest = dir[h].manifest /\ dir'[h].ver = dir[h].ver
      /\ \A g \in Names \ {f} : Out(h, g)' = Out(h, g)
      /\ Out(h, f)'["vk"] = new
      /\ \A y \in Files \ {"vk"} : Out(h, f)'[y] = Out(h, f)[y]
  BY <1>1, <1>2, <1>4, <1>6, WriteOne
<1>8. /\ SameCommand(h) /\ Now(h, f)' = "generating"
      /\ \A g \in Circ(cmd[h].src) \ {f} : Now(h, g)' = Now(h, g)
  BY <1>1, <1>2, MarkOne DEF Statuses
<1>9. f \notin cut[h] => Out(h, f).java = Wanted(h, f) /\ Out(h, f).arith = Wanted(h, f)
  <2>1. ~InHand(h, f)
    BY <1>1 DEF InHand
  <2> QED BY <1>2, <1>3, <2>1 DEF Sane
<1>10. StatusOK(h, f)'
  BY <1>1, <1>3, <1>5, <1>7, <1>8, <1>9 DEF StatusOK, SameCommand, Wanted, Files
<1>11. InHand(h, f)'
  BY <1>1, <1>8 DEF InHand, SameCommand, Busy
<1>12. Compiles(h)
  BY <1>1, <1>2 DEF HostOK, CommandOK
<1> QED BY <1>1, <1>2, <1>4, <1>7, <1>8, <1>10, <1>11, <1>12, OneVerifier

\* Writing the last of the three key files ends the generation: the keys are one
\* again, and if they were generated from the right circuit nothing is torn.
LEMMA WriteKeyKeeps ==
    ASSUME CompInv, NEW h \in Hosts, NEW f \in Names, NEW x \in KeyFiles, WriteKey(h, f, x)
    PROVE  CompInv'
<1> DEFINE vk == Out(h, f).vk
           fits == {Out(h, f).java, Out(h, f).arith} = {Wanted(h, f)}
<1>1. /\ Busy(h) /\ cmd[h].pc = "keys" /\ f \in Circ(cmd[h].src) /\ Now(h, f) = "generating"
      /\ UNCHANGED <<ready, pkg, keyGens>> /\ Write(h, f, x, vk)
      /\ x = IF Out(h, f).pk # vk THEN "pk" ELSE "bin"
      /\ IF x = "bin" THEN Mark(h, f, "done") ELSE cmd' = cmd
      /\ cut' = IF x = "bin" /\ fits THEN [cut EXCEPT ![h] = @ \ {f}] ELSE cut
  BY DEF WriteKey, At, Busy, Wanted
<1>2. /\ CompTypeOK /\ HostOK(h) /\ StatusOK(h, f) /\ f \in Names /\ Wanted(h, f) # NoFile
  BY <1>1, StepContext
<1>3. /\ Out(h, f).hash = Wanted(h, f) /\ Out(h, f).arith # NoFile
      /\ vk # NoFile /\ vk.circ = Out(h, f).arith
      /\ f \notin cut[h] => Out(h, f).java = Wanted(h, f) /\ Out(h, f).arith = Wanted(h, f)
  BY <1>1, <1>2 DEF StatusOK
<1>4. x \in Files /\ [Out(h, f) EXCEPT ![x] = vk] \in OutDirs'
  <2>1. vk \in Keys
    BY <1>2, <1>3, OutTypes DEF OutDirs
  <2>2. [Out(h, f) EXCEPT ![x] = vk] \in OutDirs
    BY <1>2, <2>1, OutTypes
  <2> QED BY <1>1, <1>2, <2>2, KeysGrow DEF CompTypeOK, Files, KeyFiles
<1>5. /\ dir' \in [Hosts -> Dirs'] /\ \A k \in Hosts \ {h} : dir'[k] = dir[k]
      /\ dir'[h].zkay = dir[h].zkay /\ dir'[h].sol = dir[h].sol
      /\ dir'[h].manifest = dir[h].manifest /\ dir'[h].ver = dir[h].ver
      /\ \A g \in Names \ {f} : Out(h, g)' = Out(h, g)
      /\ Out(h, f)'[x] = vk
      /\ \A y \in Files \ {x} : Out(h, f)'[y] = Out(h, f)[y]
  BY <1>1, <1>2, <1>4, WriteOne DEF CompTypeOK
<1>6. /\ Out(h, f)'.vk = vk /\ Out(h, f)'.hash = Out(h, f).hash
      /\ Out(h, f)'.java = Out(h, f).java /\ Out(h, f)'.arith = Out(h, f).arith
  BY <1>1, <1>5 DEF Files
<1>7. /\ SameCommand(h) /\ Now(h, f)' = IF x = "bin" THEN "done" ELSE "generating"
      /\ \A g \in Circ(cmd[h].src) \ {f} : Now(h, g)' = Now(h, g)
  <2>1. CASE x = "bin"
    BY <1>1, <1>2, <2>1, MarkOne DEF Statuses
  <2>2. CASE x # "bin"
    BY <1>1, <1>2, <2>2, CommandKept DEF Now
  <2> QED BY <2>1, <2>2
<1>8. /\ cut' \in [Hosts -> Cuts] /\ \A k \in Hosts \ {h} : cut'[k] = cut[k]
      /\ cut'[h] \cup {f} = cut[h] \cup {f}
      /\ f \notin cut'[h] => f \notin cut[h] \/ (x = "bin" /\ fits)
  BY <1>1, <1>2 DEF CompTypeOK, Cuts
<1>9. f \notin cut'[h] => Out(h, f).java = Wanted(h, f) /\ Out(h, f).arith = Wanted(h, f)
  BY <1>3, <1>8
<1>10. x = "bin" => Out(h, f)'.pk = vk /\ Out(h, f)'.bin = vk
  BY <1>1, <1>5 DEF Files
<1> HIDE DEF vk, fits
<1>11. StatusOK(h, f)'
  BY <1>1, <1>3, <1>6, <1>7, <1>9, <1>10 DEF StatusOK, SameCommand, Wanted, HasKeys
<1>12. InHand(h, f)' \/ f \in cut'[h] \/ Sane(Out(h, f)')
  <2>1. CASE x # "bin"
    BY <1>1, <1>7, <2>1 DEF InHand, SameCommand, Busy
  <2>2. CASE x = "bin"
    BY <1>3, <1>6, <1>9, <1>10, <2>2 DEF Sane, OneKey
  <2> QED BY <2>1, <2>2
<1>13. Compiles(h)
  BY <1>1, <1>2 DEF HostOK, CommandOK
<1> QED BY <1>1, <1>2, <1>5, <1>7, <1>8, <1>11, <1>12, <1>13, OneVerifier

LEMMA WriteVerifierKeeps ==
    ASSUME CompInv, NEW h \in Hosts, NEW f \in Names, WriteVerifier(h, f)
    PROVE  CompInv'
<1> DEFINE c == [vk |-> Out(h, f).vk, pk |-> Out(h, f).pk, scheme |-> cmd[h].scheme]
           d == [dir[h] EXCEPT !.ver = [dir[h].ver EXCEPT ![f] = c]]
<1>1. /\ Busy(h) /\ cmd[h].pc = "verifiers" /\ f \in Circ(cmd[h].src) /\ Now(h, f) = "done"
      /\ UNCHANGED <<ready, cut, pkg, keyGens>> /\ Mark(h, f, "written")
      /\ dir' = [dir EXCEPT ![h] = d]
  BY NextOne DEF WriteVerifier, At, Busy, Quiet
<1>2. /\ CompTypeOK /\ HostOK(h) /\ StatusOK(h, f) /\ cut' \in [Hosts -> Cuts] /\ f \in Names
      /\ InHand(h, f) \/ f \in cut[h] \/ Sane(Out(h, f))
  BY <1>1, StepContext
<1>3. /\ Out(h, f).hash = Wanted(h, f) /\ Out(h, f).arith # NoFile /\ HasKeys(Out(h, f))
  BY <1>1, <1>2 DEF StatusOK
<1>4. c \in VerificationContracts
  BY <1>1, <1>2, <1>3, OutTypes, CommandParts DEF OutDirs, HasKeys, VerificationContracts
<1>5. dir[h] \in Dirs /\ Dirs \subseteq Dirs' /\ dir \in [Hosts -> Dirs]
  BY <1>1, <1>2, DirParts, KeysGrow DEF CompTypeOK
<1> HIDE DEF c
<1>6. /\ d \in Dirs /\ d.out = dir[h].out /\ d.zkay = dir[h].zkay /\ d.sol = dir[h].sol
      /\ d.manifest = dir[h].manifest /\ d.ver[f] = c
      /\ \A g \in Names \ {f} : d.ver[g] = dir[h].ver[g]
  BY <1>2, <1>4, <1>5 DEF Dirs
<1> HIDE DEF d
<1>7. dir' \in [Hosts -> Dirs'] /\ dir'[h] = d /\ \A k \in Hosts \ {h} : dir'[k] = dir[k]
  BY <1>1, <1>5, <1>6
<1>8. \A g : Out(h, g)' = Out(h, g)
  BY <1>6, <1>7 DEF Out
<1>9. /\ SameCommand(h) /\ Now(h, f)' = "written"
      /\ \A g \in Circ(cmd[h].src) \ {f} : Now(h, g)' = Now(h, g)
  BY <1>1, <1>2, MarkOne DEF Statuses
<1>10. StatusOK(h, f)'
  BY <1>1, <1>3, <1>6, <1>7, <1>8, <1>9 DEF StatusOK, SameCommand, Wanted, c
<1>11. f \in cut'[h] \/ Sane(Out(h, f)')
  <2>1. ~InHand(h, f)
    BY <1>1 DEF InHand
  <2> QED BY <1>1, <1>2, <1>8, <2>1
<1> QED BY <1>1, <1>2, <1>6, <1>7, <1>8, <1>9, <1>10, <1>11, OneVerifier

-----------------------------------------------------------------------------
(* Steps of a whole command                                                *)

\* What has to be shown of a step that changes one host only.
LEMMA OneHost ==
    ASSUME CompInv, NEW h \in Hosts, NEW d \in Dirs, dir' = [dir EXCEPT ![h] = d],
           NEW c \in AnyCommand, cmd' = [cmd EXCEPT ![h] = c],
           c.pc \notin {"idle", "extract"} => c.st \in [Circ(c.src) -> Statuses],
           NEW r \in BOOLEAN, ready' = [ready EXCEPT ![h] = r],
           NEW ct \in Cuts, cut' = [cut EXCEPT ![h] = ct],
           UNCHANGED <<pkg, keyGens>>
    PROVE  /\ dir'[h] = d /\ cmd'[h] = c /\ ready'[h] = r /\ cut'[h] = ct
           /\ HostOK(h)' => CompInv'
<1>1. /\ dir'[h] = d /\ cmd'[h] = c /\ ready'[h] = r /\ cut'[h] = ct
      /\ \A k \in Hosts \ {h} : /\ dir'[k] = dir[k] /\ cmd'[k] = cmd[k]
                                /\ ready'[k] = ready[k] /\ cut'[k] = cut[k]
  BY DEF CompInv, CompTypeOK
<1>2. CompTypeOK'
  <2>1. Dirs' = Dirs
    BY DEF Dirs, OutDirs, VerificationContracts, Keys
  <2>2. /\ dir' \in [Hosts -> Dirs'] /\ cmd' \in [Hosts -> AnyCommand]
        /\ ready' \in [Hosts -> BOOLEAN] /\ cut' \in [Hosts -> Cuts] /\ keyGens' \in Nat
    BY <2>1 DEF CompInv, CompTypeOK
  <2>3. \A k \in Hosts : Busy(k)' => cmd'[k].st \in [Circ(cmd'[k].src) -> Statuses]
    BY <1>1 DEF CompInv, CompTypeOK, Busy
  <2> QED BY <2>2, <2>3 DEF CompTypeOK
<1>3. PackageOK'
  BY DEF CompInv, PackageOK, GoodPackage, Keys
<1>4. \A k \in Hosts \ {h} : HostOK(k)'
  BY <1>1, OtherHost DEF CompInv, CompTypeOK
<1> QED BY <1>1, <1>2, <1>3, <1>4 DEF CompInv

\* Steps that compile nothing preserve the invariant of compilations.
LEMMA CompUnchanged ==
    ASSUME CompInv, UNCHANGED compVars
    PROVE  CompInv'
<1>1. CompTypeOK'
  BY DEF CompInv, CompTypeOK, compVars, Busy, Dirs, OutDirs, VerificationContracts, Keys
<1>2. PackageOK'
  BY DEF CompInv, PackageOK, GoodPackage, compVars, Keys
<1>3. \A k \in Hosts : HostOK(k)'
  BY OtherHost DEF CompInv, CompTypeOK, compVars
<1> QED BY <1>1, <1>2, <1>3 DEF CompInv

\* A command starts with every verifier new.
LEMMA CommandBegun ==
    ASSUME NEW s \in Sources, NEW p \in Schemes, NEW kind \in Kinds
    PROVE  /\ Command(s, p, kind) \in Commands /\ Command(s, p, kind) # Idle
           /\ Command(s, p, kind) \in AnyCommand
           /\ Command(s, p, kind).st \in [Circ(s) -> Statuses]
           /\ Command(s, p, kind).src = s /\ Command(s, p, kind).scheme = p
           /\ Command(s, p, kind).kind = kind /\ Command(s, p, kind).pc = "analysis"
           /\ \A f \in Circ(s) : Command(s, p, kind).st[f] = "new"
<1> DEFINE sts == [f \in Circ(s) |-> "new"]
<1>1. sts \in [Circ(s) -> Statuses] /\ sts \in UNION {[Circ(t) -> Statuses] : t \in Sources}
  <2>1. sts \in [Circ(s) -> Statuses]
    BY DEF Statuses
  <2> QED BY <2>1
<1>2. \A f \in Circ(s) : sts[f] = "new"
  OBVIOUS
<1> HIDE DEF sts
<1>3. Command(s, p, kind) =
          [pc |-> "analysis", src |-> s, scheme |-> p, kind |-> kind, st |-> sts, modified |-> {}]
  BY DEF Command, sts
<1>4. Command(s, p, kind) \in Commands /\ Command(s, p, kind).pc # Idle.pc
  BY <1>1, <1>3 DEF Commands, Pcs, Idle
<1>5. Command(s, p, kind) \in AnyCommand
  BY <1>4 DEF AnyCommand
<1> QED BY <1>1, <1>2, <1>3, <1>4, <1>5

\* A host without a command has no verifier in hand.
LEMMA NotBusy ==
    ASSUME NEW h \in Hosts, cmd[h] = Idle
    PROVE  ~Running(h) /\ ~Busy(h) /\ \A f : ~InHand(h, f)
BY DEF Running, Busy, Idle, InHand

\* A command that begins has touched none of the verifiers.
LEMMA Begun ==
    ASSUME CompInv, NEW h \in Hosts, NEW s \in Sources, NEW p \in Schemes, NEW kind \in Kinds,
           dir'[h].zkay = s, kind # "compile" => dir'[h].manifest = p,
           cmd'[h] = Command(s, p, kind), ready'[h] = FALSE,
           \A f \in Names \ cut'[h] : Sane(Out(h, f)'),
           kind # "compile" =>
              \A f \in Circ(s) \ cut'[h] :
                 HasKeys(Out(h, f)') => Out(h, f)'.vk.circ = Digest(s, f, p)
    PROVE  HostOK(h)'
<1>1. /\ cmd'[h].src = s /\ cmd'[h].scheme = p /\ cmd'[h].kind = kind /\ cmd'[h].pc = "analysis"
      /\ \A f \in Circ(s) : cmd'[h].st[f] = "new"
      /\ Busy(h)' /\ (Compiles(h)' <=> kind = "compile")
  BY CommandBegun DEF Busy, Compiles
<1>2. CommandOK(h)'
  BY <1>1 DEF CommandOK, StatusOK, Now
<1>3. FilesOK(h)' /\ ReadyOK(h)' /\ ContractFileOK(h)' /\ ExtractOK(h)'
  BY <1>1 DEF FilesOK, ReadyOK, ContractFileOK, ExtractOK, At
<1>4. ImportedOK(h)'
  BY <1>1, CircuitAssumption DEF ImportedOK, Sane, Circ
<1> QED BY <1>2, <1>3, <1>4 DEF HostOK

LEMMA CompileKeeps ==
    ASSUME CompInv, NEW h \in Hosts, NEW s \in Sources, NEW p \in Schemes, Compile(h, s, p)
    PROVE  CompInv'
<1> DEFINE d == [dir[h] EXCEPT !.zkay = s]
           c == Command(s, p, "compile")
<1>1. /\ cmd[h] = Idle /\ dir' = [dir EXCEPT ![h] = d] /\ cmd' = [cmd EXCEPT ![h] = c]
      /\ ready' = [ready EXCEPT ![h] = FALSE] /\ UNCHANGED <<cut, pkg, keyGens>>
  BY DEF Compile, Begin
<1>2. CompTypeOK /\ HostOK(h) /\ dir[h] \in Dirs
  BY DirParts DEF CompInv
<1>3. d \in Dirs /\ d.out = dir[h].out /\ d.zkay = s
  BY <1>2 DEF Dirs
<1>4. c \in AnyCommand /\ c.st \in [Circ(c.src) -> Statuses] /\ "compile" \in Kinds
  BY CommandBegun DEF Kinds
<1> HIDE DEF d, c
<1>5. cut' = [cut EXCEPT ![h] = cut[h]] /\ cut[h] \in Cuts
  BY <1>1, <1>2 DEF CompTypeOK
<1>6. /\ dir'[h] = d /\ cmd'[h] = c /\ ready'[h] = FALSE /\ cut'[h] = cut[h]
      /\ HostOK(h)' => CompInv'
  BY <1>1, <1>3, <1>4, <1>5, OneHost
<1>7. \A f \in Names \ cut[h] : Sane(Out(h, f)) /\ Out(h, f)' = Out(h, f)
  BY <1>1, <1>2, <1>3, <1>6, NotBusy DEF HostOK, FilesOK, Out
<1>8. HostOK(h)'
  BY <1>3, <1>4, <1>6, <1>7, Begun DEF c
<1> QED BY <1>6, <1>8

\* The command for a connection takes the files where they are.
LEMMA ConnectBeginKeeps ==
    ASSUME CompInv, NEW h \in Hosts, NEW s \in Sources, NEW p \in Schemes,
           dir[h].zkay = s, dir[h].sol = NoFile, dir[h].manifest = p,
           Begin(h, Command(s, p, "connect")), UNCHANGED <<dir, cut, pkg, keyGens>>
    PROVE  CompInv'
<1> DEFINE c == Command(s, p, "connect")
<1>1. /\ cmd[h] = Idle /\ cmd' = [cmd EXCEPT ![h] = c]
      /\ ready' = [ready EXCEPT ![h] = FALSE]
  BY DEF Begin
<1>2. CompTypeOK /\ HostOK(h) /\ dir[h] \in Dirs
  BY DirParts DEF CompInv
<1>3. c \in AnyCommand /\ c.st \in [Circ(c.src) -> Statuses] /\ "connect" \in Kinds
  BY CommandBegun DEF Kinds
<1> HIDE DEF c
<1>4. /\ cut' = [cut EXCEPT ![h] = cut[h]] /\ cut[h] \in Cuts
      /\ dir' = [dir EXCEPT ![h] = dir[h]]
  BY <1>2 DEF CompTypeOK
<1>5. cmd'[h] = c /\ ready'[h] = FALSE /\ cut'[h] = cut[h] /\ dir'[h] = dir[h]
  BY <1>1, <1>2, <1>4, OneHost DEF CompTypeOK
<1>6. /\ \A f \in Names \ cut[h] : Sane(Out(h, f))
      /\ \A f : Out(h, f)' = Out(h, f)
  BY <1>1, <1>2, NotBusy DEF HostOK, FilesOK, Out
<1>7. \A f \in Circ(s) \ cut[h] : HasKeys(Out(h, f)) => Out(h, f).vk.circ = Digest(s, f, p)
  BY <1>1, <1>2, NotBusy, NoFileAssumption DEF HostOK, ImportedOK
<1>8. /\ \A f \in Names \ cut'[h] : Sane(Out(h, f)')
      /\ \A f \in Circ(s) \ cut'[h] :
            HasKeys(Out(h, f)') => Out(h, f)'.vk.circ = Digest(s, f, p)
  <2>1. Circ(s) \subseteq Names
    BY CircuitAssumption DEF Circ
  <2> QED BY <1>5, <1>6, <1>7, <2>1
<1>9. HostOK(h)'
  <2>1. dir'[h].zkay = s /\ dir'[h].manifest = p
    BY <1>5
  <2> QED BY <1>3, <1>5, <1>8, <2>1, Begun DEF c
<1> QED BY <1>1, <1>2, <1>3, <1>4, <1>9, OneHost

\* What is exported from a completed directory fits together; what is exported
\* from another one is not trusted.
LEMMA ExportKeeps ==
    ASSUME CompInv, NEW h \in Hosts, Export(h)
    PROVE  CompInv'
<1> DEFINE s == dir[h].zkay
           ct == IF ready[h] THEN cut[h] ELSE Names
           keys == [f \in Circ(s) |-> [x \in KeyFiles |-> Out(h, f)[x]]]
<1>1. /\ s # NoFile /\ dir[h].manifest # NoFile /\ KeysComplete(h, s)
      /\ pkg' = [zkay |-> s, manifest |-> dir[h].manifest, keys |-> keys, cut |-> ct]
      /\ UNCHANGED <<dir, cmd, ready, cut, keyGens>>
  BY DEF Export
<1>2. /\ CompTypeOK /\ HostOK(h) /\ s \in Sources /\ dir[h].manifest \in Schemes
      /\ Circ(s) \subseteq Names /\ ct \in Cuts
  <2>1. CompTypeOK /\ HostOK(h)
    BY DEF CompInv
  <2>2. s \in Sources /\ dir[h].manifest \in Schemes
    BY <1>1, <2>1, DirParts
  <2> QED BY <2>1, <2>2, CircuitAssumption DEF Circ, CompTypeOK, Cuts
<1>3. /\ keys \in [Circ(s) -> [KeyFiles -> Keys]]
      /\ \A f \in Circ(s) : /\ keys[f].vk = Out(h, f).vk /\ keys[f].pk = Out(h, f).pk
                            /\ keys[f].bin = Out(h, f).bin
  <2>1. ASSUME NEW f \in Circ(s), NEW x \in KeyFiles
        PROVE  Out(h, f)[x] \in Keys
    BY <1>1, <1>2, OutTypes DEF KeysComplete, Files, KeyFiles
  <2> QED BY <2>1 DEF KeyFiles
<1>4. ASSUME NEW f \in Circ(s) \ ct
      PROVE  /\ Out(h, f).vk = Out(h, f).pk /\ Out(h, f).vk = Out(h, f).bin
             /\ Out(h, f).vk.circ = Digest(s, f, dir[h].manifest)
  <2>1. ready[h] /\ f \notin cut[h] /\ f \in Names
    BY <1>2
  <2>2. /\ ~Busy(h) /\ HasKeys(Out(h, f))
        /\ Out(h, f).hash = Digest(s, f, dir[h].manifest)
    BY <1>2, <2>1 DEF HostOK, ReadyOK
  <2>3. Sane(Out(h, f)) /\ Digest(s, f, dir[h].manifest) # NoFile
    BY <1>2, <2>1, <2>2, DigestType DEF HostOK, FilesOK, InHand
  <2> QED BY <2>2, <2>3 DEF Sane, OneKey
<1> HIDE DEF s, ct, keys
<1>5. /\ pkg'.zkay = s /\ pkg'.manifest = dir[h].manifest /\ pkg'.keys = keys /\ pkg'.cut = ct
  BY <1>1
<1>6. PackageOK'
  <2>1. Keys' = Keys
    BY <1>1 DEF Keys
  <2>2. keys \in UNION {[Circ(t) -> [KeyFiles -> SomeKeys]] : t \in Sources}
    BY <1>2, <1>3 DEF Keys, SomeKeys, CompTypeOK
  <2>3. pkg' \in Packages
    BY <1>1, <1>2, <2>2 DEF Packages
  <2> QED BY <1>2, <1>3, <1>4, <1>5, <2>1, <2>3 DEF PackageOK, GoodPackage
<1>7. CompTypeOK'
  BY <1>1, <1>2 DEF CompTypeOK, Busy, Dirs, OutDirs, VerificationContracts, Keys
<1>8. \A k \in Hosts : HostOK(k)'
  BY <1>1, <1>2, OtherHost DEF CompInv, CompTypeOK
<1> QED BY <1>6, <1>7, <1>8 DEF CompInv

\* What has to be shown of a step of an extraction: that what is there comes from
\* the archive. It fits together then, as far as it is there.
LEMMA Extracts ==
    ASSUME CompInv, NEW h \in Hosts, NEW c \in Extractions, cmd' = [cmd EXCEPT ![h] = c],
           NEW d \in Dirs, dir' = [dir EXCEPT ![h] = d], ready' = [ready EXCEPT ![h] = FALSE],
           cut' = [cut EXCEPT ![h] = c.archive.cut], UNCHANGED <<pkg, keyGens>>,
           GoodPackage(c.archive), FromArchive(h, c.archive)'
    PROVE  CompInv'
<1> DEFINE p == c.archive
<1>1. /\ c \in AnyCommand /\ c.pc = "extract" /\ p \in Packages /\ p.cut \in Cuts
      /\ cut' = [cut EXCEPT ![h] = p.cut] /\ GoodPackage(p) /\ FromArchive(h, p)'
  BY DEF AnyCommand, Extractions, Packages
<1>0. p = c.archive
  OBVIOUS
<1> HIDE DEF p
<1>2. /\ cmd'[h] = c /\ ready'[h] = FALSE /\ dir'[h] = d /\ cut'[h] = p.cut
      /\ HostOK(h)' => CompInv'
  <2> DEFINE ct == p.cut
             r == FALSE
  <2>1. /\ c \in AnyCommand /\ c.pc \in {"idle", "extract"} /\ ct \in Cuts /\ r \in BOOLEAN
        /\ cut' = [cut EXCEPT ![h] = ct] /\ ready' = [ready EXCEPT ![h] = r]
        /\ UNCHANGED <<pkg, keyGens>>
    BY <1>1
  <2> HIDE DEF ct, r
  <2>2. dir'[h] = d /\ cmd'[h] = c /\ ready'[h] = r /\ cut'[h] = ct
    BY <2>1 DEF CompInv, CompTypeOK
  <2>3. HostOK(h)' => CompInv'
    BY <2>1, OneHost
  <2> QED BY <2>2, <2>3 DEF ct, r
<1>3. ~Busy(h)' /\ At(h, "extract")' /\ (\A f : ~InHand(h, f)')
  BY <1>1, <1>2 DEF Busy, At, InHand
<1>4. GoodPackage(p)'
  BY <1>1 DEF GoodPackage, Keys
<1>5. ASSUME NEW f \in Names \ p.cut
      PROVE  /\ Sane(Out(h, f)')
             /\ HasKeys(Out(h, f)') => Out(h, f)'.vk.circ = Digest(p.zkay, f, p.manifest)
                                        /\ dir'[h].manifest = p.manifest
  BY <1>1, <1>5 DEF FromArchive, GoodPackage, Sane, OneKey, HasKeys, KeyFiles
<1>6. dir'[h].zkay = p.zkay /\ dir'[h].sol = NoFile /\ p.zkay \in Sources
  BY <1>1 DEF FromArchive, Packages
<1>7. ImportedOK(h)'
  BY <1>2, <1>3, <1>5, <1>6, CircuitAssumption DEF ImportedOK, Sane, Circ
<1>8. HostOK(h)'
  BY <1>0, <1>1, <1>2, <1>3, <1>4, <1>5, <1>6, <1>7
     DEF HostOK, CommandOK, ExtractOK, FilesOK, ReadyOK, ContractFileOK
<1> QED BY <1>2, <1>8

LEMMA ImportKeeps ==
    ASSUME CompInv, NEW h \in Hosts, Import(h)
    PROVE  CompInv'
<1> DEFINE c == [pc |-> "extract", kind |-> "import", archive |-> pkg]
           d == [dir[h] EXCEPT !.zkay = pkg.zkay]
<1>1. /\ pkg # NoFile /\ dir[h] = EmptyDir /\ cmd' = [cmd EXCEPT ![h] = c]
      /\ dir' = [dir EXCEPT ![h] = d] /\ ready' = [ready EXCEPT ![h] = FALSE]
      /\ cut' = [cut EXCEPT ![h] = pkg.cut] /\ UNCHANGED <<pkg, keyGens>>
  BY DEF Import, Begin
<1>2. /\ CompTypeOK /\ dir[h] \in Dirs /\ GoodPackage(pkg) /\ pkg \in Packages
      /\ pkg.zkay \in Sources
  BY <1>1, DirParts DEF CompInv, PackageOK, GoodPackage, Packages
<1>3. c \in Extractions /\ c.archive = pkg
  BY <1>2 DEF Extractions
<1>4. /\ d \in Dirs /\ d.zkay = pkg.zkay /\ d.out = [f \in Names |-> NoFiles]
      /\ d.sol = NoFile /\ d.manifest = NoFile
  BY <1>1, <1>2 DEF Dirs, EmptyDir
<1> HIDE DEF c, d
<1>5. dir'[h] = d /\ cut'[h] = pkg.cut
  BY <1>1, <1>2 DEF CompTypeOK
<1>6. FromArchive(h, pkg)'
  BY <1>1, <1>4, <1>5 DEF FromArchive, Out, NoFiles, Files, KeyFiles
<1> QED BY <1>1, <1>2, <1>3, <1>4, <1>6, Extracts

\* A file is extracted from the archive that was opened.
LEMMA ExtractionContext ==
    ASSUME CompInv, NEW h \in Hosts, At(h, "extract")
    PROVE  /\ CompTypeOK /\ HostOK(h) /\ dir[h] \in Dirs /\ cmd[h] \in Extractions
           /\ GoodPackage(cmd[h].archive) /\ FromArchive(h, cmd[h].archive) /\ ~Busy(h)
           /\ cmd' = cmd => cmd' = [cmd EXCEPT ![h] = cmd[h]]
           /\ ready' = ready => ready' = [ready EXCEPT ![h] = FALSE]
           /\ cut' = cut => cut' = [cut EXCEPT ![h] = cmd[h].archive.cut]
<1>1. CompTypeOK /\ HostOK(h) /\ dir[h] \in Dirs /\ ~Busy(h)
  BY DirParts DEF CompInv, Busy, At
<1>2. cmd[h] \in Extractions
  BY <1>1 DEF CompTypeOK, AnyCommand, Commands, Pcs, Idle, At
<1>3. ~ready[h] /\ GoodPackage(cmd[h].archive) /\ FromArchive(h, cmd[h].archive)
  BY <1>1 DEF HostOK, ExtractOK
<1> QED BY <1>1, <1>2, <1>3 DEF CompTypeOK, FromArchive

LEMMA ExtractManifestKeeps ==
    ASSUME CompInv, NEW h \in Hosts, ExtractManifest(h)
    PROVE  CompInv'
<1> DEFINE p == cmd[h].archive
           d == [dir[h] EXCEPT !.manifest = p.manifest]
<1>1. /\ At(h, "extract") /\ dir[h].manifest = NoFile /\ dir' = [dir EXCEPT ![h] = d]
      /\ UNCHANGED <<cmd, ready, cut, pkg, keyGens>>
  BY DEF ExtractManifest, Quiet
<1>2. /\ CompTypeOK /\ dir[h] \in Dirs /\ cmd[h] \in Extractions /\ GoodPackage(p)
      /\ FromArchive(h, p) /\ p.manifest \in Schemes
  BY <1>1, ExtractionContext DEF GoodPackage, Packages
<1>3. d \in Dirs /\ d.manifest = p.manifest /\ d.out = dir[h].out /\ d.zkay = dir[h].zkay
      /\ d.sol = dir[h].sol
  BY <1>2 DEF Dirs
<1> HIDE DEF d
<1>4. dir'[h] = d /\ cut'[h] = cut[h]
  BY <1>1, <1>2 DEF CompTypeOK
<1>5. FromArchive(h, p)'
  BY <1>1, <1>2, <1>3, <1>4 DEF FromArchive, Out
<1> QED BY <1>1, <1>2, <1>3, <1>5, ExtractionContext, Extracts

LEMMA ExtractKeyKeeps ==
    ASSUME CompInv, NEW h \in Hosts, NEW f \in Names, NEW x \in KeyFiles, ExtractKey(h, f, x)
    PROVE  CompInv'
<1> DEFINE p == cmd[h].archive
           key == p.keys[f][x]
<1>1. /\ At(h, "extract") /\ dir[h].manifest # NoFile /\ f \in DOMAIN p.keys
      /\ Write(h, f, x, key) /\ UNCHANGED <<cmd, ready, cut, pkg, keyGens>>
  BY DEF ExtractKey, Quiet
<1>2. /\ CompTypeOK /\ cmd[h] \in Extractions /\ GoodPackage(p) /\ FromArchive(h, p)
      /\ dir[h].manifest = p.manifest
  BY <1>1, ExtractionContext DEF FromArchive
<1>3. f \in Circ(p.zkay) /\ key \in Keys /\ x \in Files
  BY <1>1, <1>2 DEF GoodPackage, KeyFiles, Files
<1>4. [Out(h, f) EXCEPT ![x] = key] \in OutDirs'
  BY <1>1, <1>2, <1>3, OutTypes DEF OutDirs, Keys
<1> HIDE DEF key
<1>5. /\ dir' \in [Hosts -> Dirs'] /\ \A k \in Hosts \ {h} : dir'[k] = dir[k]
      /\ dir'[h].zkay = dir[h].zkay /\ dir'[h].sol = dir[h].sol
      /\ dir'[h].manifest = dir[h].manifest
      /\ \A g \in Names \ {f} : Out(h, g)' = Out(h, g)
      /\ Out(h, f)'[x] = key /\ \A y \in Files \ {x} : Out(h, f)'[y] = Out(h, f)[y]
  BY <1>1, <1>2, <1>3, <1>4, WriteOne DEF CompTypeOK
<1>6. dir'[h] \in Dirs /\ dir' = [dir EXCEPT ![h] = dir'[h]]
  BY <1>1, <1>2, <1>5 DEF CompTypeOK, Dirs, OutDirs, VerificationContracts, Keys
<1>7. FromArchive(h, p)'
  <2>1. Out(h, f)'.hash = NoFile
    BY <1>2, <1>3, <1>5 DEF FromArchive, Files, KeyFiles
  <2>2. ASSUME NEW y \in KeyFiles, Out(h, f)'[y] # NoFile
        PROVE  Out(h, f)'[y] = p.keys[f][y]
    BY <1>2, <1>5, <2>2 DEF FromArchive, Files, KeyFiles, key
  <2> QED BY <1>1, <1>2, <1>3, <1>5, <2>1, <2>2 DEF FromArchive
<1> QED BY <1>1, <1>2, <1>6, <1>7, ExtractionContext, Extracts

\* The compilation of what was extracted finds the keys of the archive.
LEMMA EndExtractionKeeps ==
    ASSUME CompInv, NEW h \in Hosts, EndExtraction(h)
    PROVE  CompInv'
<1> DEFINE s == dir[h].zkay
           m == dir[h].manifest
           c == Command(s, m, "import")
<1>1. /\ At(h, "extract") /\ m # NoFile /\ cmd' = [cmd EXCEPT ![h] = c]
      /\ UNCHANGED <<dir, ready, cut, pkg, keyGens>>
  BY DEF EndExtraction, Quiet
<1>2. /\ CompTypeOK /\ HostOK(h) /\ dir[h] \in Dirs /\ ~Busy(h) /\ dir[h].sol = NoFile
      /\ s \in Sources /\ m \in Schemes /\ ready' = [ready EXCEPT ![h] = FALSE]
      /\ cut' = [cut EXCEPT ![h] = cut[h]] /\ cut[h] \in Cuts
      /\ dir' = [dir EXCEPT ![h] = dir[h]]
  BY <1>1, ExtractionContext DEF FromArchive, GoodPackage, Packages, CompTypeOK
<1>3. /\ c \in AnyCommand /\ c.st \in [Circ(c.src) -> Statuses] /\ "import" \in Kinds
      /\ c.pc = "analysis"
  BY <1>2, CommandBegun DEF Kinds
<1> HIDE DEF c
<1>4. /\ cmd'[h] = c /\ dir'[h] = dir[h] /\ ready'[h] = FALSE /\ cut'[h] = cut[h]
      /\ HostOK(h)' => CompInv'
  <2>1. cmd' = [cmd EXCEPT ![h] = c] /\ UNCHANGED <<pkg, keyGens>>
    BY <1>1
  <2> QED BY <1>2, <1>3, <2>1, OneHost
<1>5. \A f \in Names \ cut[h] : Sane(Out(h, f))
  BY <1>2 DEF HostOK, FilesOK, InHand
<1>6. \A f \in Circ(s) \ cut[h] : HasKeys(Out(h, f)) => Out(h, f).vk.circ = Digest(s, f, m)
  BY <1>2, NoFileAssumption DEF HostOK, ImportedOK
<1>7. HostOK(h)'
  <2>1. \A f \in Names \ cut'[h] : Sane(Out(h, f)')
    BY <1>4, <1>5 DEF Out
  <2>2. \A f \in Circ(s) \ cut'[h] : HasKeys(Out(h, f)') => Out(h, f)'.vk.circ = Digest(s, f, m)
    BY <1>4, <1>6 DEF Out
  <2>3. cmd'[h] = Command(s, m, "import")
    BY <1>4 DEF c
  <2>4. dir'[h].zkay = s /\ dir'[h].manifest = m
    BY <1>4
  <2> HIDE DEF s, m
  <2> QED BY <1>2, <1>3, <1>4, <2>1, <2>2, <2>3, <2>4, Begun
<1> QED BY <1>4, <1>7

\* The pc and the statuses of the command have moved on, and what the new ones
\* say is true; no file of a verifier and nothing that ReadyOK speaks of changed.
LEMMA CommandMoves ==
    ASSUME CompInv, NEW h \in Hosts, Busy(h), Busy(h)',
           NEW d \in Dirs, dir' = [dir EXCEPT ![h] = d],
           d.out = dir[h].out, d.zkay = dir[h].zkay,
           Compiles(h) \/ d.manifest = dir[h].manifest,
           NEW c \in Commands, cmd' = [cmd EXCEPT ![h] = c],
           c.src = cmd[h].src, c.kind = cmd[h].kind, c.st \in [Circ(c.src) -> Statuses],
           NEW ct \in Cuts, cut' = [cut EXCEPT ![h] = ct], ct \cap Names = cut[h] \cap Names,
           UNCHANGED <<ready, pkg, keyGens>>,
           \A f \in Circ(cmd[h].src) : ~InHand(h, f),
           CommandOK(h)'
    PROVE  CompInv'
<1>1. CompTypeOK /\ HostOK(h)
  BY DEF CompInv
<1>2. ready' = [ready EXCEPT ![h] = FALSE] /\ ready[h] = FALSE
  BY <1>1 DEF CompTypeOK, HostOK, CommandOK
<1>3. /\ dir'[h] = d /\ cmd'[h] = c /\ ready'[h] = FALSE /\ cut'[h] = ct
  BY <1>1, <1>2 DEF CompTypeOK
<1>4. /\ \A f : Out(h, f)' = Out(h, f)
      /\ \A f \in Names : f \in cut'[h] <=> f \in cut[h]
      /\ Circ(cmd[h].src) \subseteq Names
      /\ (Compiles(h)' <=> Compiles(h)) /\ dir'[h].zkay = dir[h].zkay
      /\ dir[h].zkay = cmd[h].src
  BY <1>1, <1>3, CommandParts DEF Out, Compiles, HostOK, CommandOK
<1>5. FilesOK(h)'
  <2>1. \A f \in Names \ cut[h] : Sane(Out(h, f))
    BY <1>1 DEF HostOK, FilesOK, InHand
  <2> QED BY <1>4, <2>1 DEF FilesOK
<1>6. ImportedOK(h)'
  <2>1. CASE Compiles(h)
    BY <1>4, <2>1 DEF ImportedOK
  <2>2. CASE ~Compiles(h)
    <3>1. dir'[h].manifest = dir[h].manifest
      BY <1>3, <2>2
    <3> QED BY <1>1, <1>4, <2>2, <3>1 DEF HostOK, ImportedOK
  <2> QED BY <2>1, <2>2
<1>7. ReadyOK(h)' /\ ContractFileOK(h)' /\ ExtractOK(h)'
  BY <1>3 DEF ReadyOK, ContractFileOK, ExtractOK, Busy, At
<1>8. HostOK(h)'
  BY <1>5, <1>6, <1>7 DEF HostOK
<1>9. c \in AnyCommand
  BY DEF AnyCommand
<1> QED BY <1>2, <1>8, <1>9, OneHost

LEMMA WriteSolidityKeeps ==
    ASSUME CompInv, NEW h \in Hosts, WriteSolidity(h)
    PROVE  CompInv'
<1> DEFINE sol == [src |-> cmd[h].src, scheme |-> cmd[h].scheme]
           pc == IF ImportKeys(h) THEN "circuits" ELSE "manifest"
           d == [dir[h] EXCEPT !.sol = sol]
           c == [cmd[h] EXCEPT !.pc = pc]
<1>1. /\ cmd[h].pc = "analysis" /\ Busy(h)
      /\ dir' = [dir EXCEPT ![h] = d] /\ cmd' = [cmd EXCEPT ![h] = c]
      /\ UNCHANGED <<ready, cut, pkg, keyGens>>
  BY DEF WriteSolidity, At, Busy, Goto, Quiet
<1>2. /\ CompTypeOK /\ HostOK(h) /\ dir[h] \in Dirs /\ cmd[h] \in Commands
      /\ cmd[h].src \in Sources /\ cmd[h].scheme \in Schemes
      /\ cmd[h].st \in [Circ(cmd[h].src) -> Statuses]
  BY <1>1, DirParts, CommandParts DEF CompInv
<1>3. sol \in Solidity
  BY <1>2 DEF Solidity
<1> HIDE DEF sol
<1>4. /\ d \in Dirs /\ d.out = dir[h].out /\ d.zkay = dir[h].zkay /\ d.sol = sol
      /\ d.manifest = dir[h].manifest /\ d.ver = dir[h].ver
  BY <1>2, <1>3 DEF Dirs
<1>5. /\ c \in Commands /\ c.src = cmd[h].src /\ c.kind = cmd[h].kind
      /\ c.scheme = cmd[h].scheme /\ c.st = cmd[h].st
      /\ c.pc = IF Compiles(h) THEN "manifest" ELSE "circuits"
  BY <1>2 DEF Commands, Pcs, ImportKeys, Compiles
<1> HIDE DEF d, c
<1>6. /\ dir'[h] = d /\ cmd'[h] = c /\ ready'[h] = ready[h] /\ cut'[h] = cut[h]
      /\ cut' = [cut EXCEPT ![h] = cut[h]] /\ cut[h] \in Cuts
  BY <1>1, <1>2 DEF CompTypeOK
<1>7. \A f \in Circ(cmd[h].src) : Now(h, f) = "new" /\ cmd'[h].st[f] = "new"
  <2>1. \A f \in Circ(cmd[h].src) : Now(h, f) = "new"
    BY <1>1, <1>2 DEF HostOK, CommandOK, StatusOK
  <2> QED BY <1>5, <1>6, <2>1 DEF Now
<1>8. CommandOK(h)'
  BY <1>1, <1>2, <1>4, <1>5, <1>6, <1>7 DEF sol, HostOK, CommandOK, StatusOK, Now, Compiles
<1>9. Busy(h)' /\ \A f \in Circ(cmd[h].src) : ~InHand(h, f)
  BY <1>5, <1>6, <1>7 DEF Busy, InHand
<1> QED BY <1>1, <1>2, <1>4, <1>5, <1>6, <1>8, <1>9, CommandMoves

LEMMA WriteManifestKeeps ==
    ASSUME CompInv, NEW h \in Hosts, WriteManifest(h)
    PROVE  CompInv'
<1> DEFINE d == [dir[h] EXCEPT !.manifest = cmd[h].scheme]
           c == [cmd[h] EXCEPT !.pc = "circuits"]
           ct == cut[h] \ {"contract.zkay"}
<1>1. /\ cmd[h].pc = "manifest" /\ Busy(h)
      /\ dir' = [dir EXCEPT ![h] = d] /\ cmd' = [cmd EXCEPT ![h] = c]
      /\ cut' = [cut EXCEPT ![h] = ct] /\ UNCHANGED <<ready, pkg, keyGens>>
  BY DEF WriteManifest, At, Busy, Goto
<1>2. /\ CompTypeOK /\ HostOK(h) /\ dir[h] \in Dirs /\ cmd[h] \in Commands
      /\ cmd[h].src \in Sources /\ cmd[h].scheme \in Schemes
      /\ cmd[h].st \in [Circ(cmd[h].src) -> Statuses]
  BY <1>1, DirParts, CommandParts DEF CompInv
<1>3. /\ d \in Dirs /\ d.out = dir[h].out /\ d.zkay = dir[h].zkay /\ d.sol = dir[h].sol
      /\ d.manifest = cmd[h].scheme
  BY <1>2 DEF Dirs
<1>4. /\ c \in Commands /\ c.src = cmd[h].src /\ c.kind = cmd[h].kind
      /\ c.scheme = cmd[h].scheme /\ c.st = cmd[h].st /\ c.pc = "circuits"
  BY <1>2 DEF Commands, Pcs
<1>5. ct \in Cuts /\ ct \cap Names = cut[h] \cap Names
  BY <1>2, CircuitAssumption DEF CompTypeOK, Cuts
<1> HIDE DEF d, c, ct
<1>6. /\ dir'[h] = d /\ cmd'[h] = c /\ ready'[h] = ready[h]
  BY <1>1, <1>2 DEF CompTypeOK
<1>7. \A f \in Circ(cmd[h].src) : Now(h, f) = "new" /\ cmd'[h].st[f] = "new"
  <2>1. \A f \in Circ(cmd[h].src) : Now(h, f) = "new"
    BY <1>1, <1>2 DEF HostOK, CommandOK, StatusOK
  <2> QED BY <1>4, <1>6, <2>1 DEF Now
<1>8. Compiles(h)
  BY <1>1, <1>2 DEF HostOK, CommandOK
<1>9. CommandOK(h)'
  BY <1>1, <1>2, <1>3, <1>4, <1>6, <1>7, <1>8 DEF HostOK, CommandOK, StatusOK, Now, Compiles
<1>10. Busy(h)' /\ \A f \in Circ(cmd[h].src) : ~InHand(h, f)
  BY <1>4, <1>6, <1>7 DEF Busy, InHand
<1> QED BY <1>1, <1>2, <1>3, <1>4, <1>5, <1>8, <1>9, <1>10, CommandMoves

\* Circuits with a key file missing, or compiled again, get new keys.
LEMMA CircuitsDoneKeeps ==
    ASSUME CompInv, NEW h \in Hosts, CircuitsDone(h)
    PROVE  CompInv'
<1> DEFINE next(f) == IF f \in Outdated(h) /\ ~ImportKeys(h) THEN "keys" ELSE "done"
           sts == [f \in DOMAIN cmd[h].st |-> next(f)]
           pc == IF ImportKeys(h) THEN "verifiers" ELSE "keys"
           c == [cmd[h] EXCEPT !.pc = pc, !.st = sts]
<1>1. /\ cmd[h].pc = "circuits" /\ Busy(h) /\ \A f \in Circ(cmd[h].src) : Now(h, f) = "done"
      /\ ~Compiles(h) => KeysComplete(h, cmd[h].src)
      /\ cmd' = [cmd EXCEPT ![h] = c]
      /\ UNCHANGED <<dir, ready, cut, pkg, keyGens>>
  BY DEF CircuitsDone, At, Busy, Quiet, Compiles, ImportKeys
<1>2. /\ CompTypeOK /\ HostOK(h) /\ dir[h] \in Dirs /\ cmd[h] \in Commands
      /\ cmd[h].src \in Sources /\ cmd[h].st \in [Circ(cmd[h].src) -> Statuses]
  BY <1>1, DirParts, CommandParts DEF CompInv
<1>3. /\ sts \in [Circ(cmd[h].src) -> Statuses]
      /\ sts \in UNION {[Circ(s) -> Statuses] : s \in Sources}
      /\ \A f \in Circ(cmd[h].src) : sts[f] = next(f) /\ next(f) \in {"keys", "done"}
  <2>1. sts \in [Circ(cmd[h].src) -> Statuses]
    BY <1>2 DEF Statuses
  <2>2. \A f \in Circ(cmd[h].src) : sts[f] = next(f) /\ next(f) \in {"keys", "done"}
    BY <1>2
  <2> HIDE DEF sts
  <2> QED BY <1>2, <2>1, <2>2
<1>4. ASSUME NEW f \in Circ(cmd[h].src), next(f) = "done"
      PROVE  HasKeys(Out(h, f))
  BY <1>1, <1>4 DEF Outdated, KeysComplete, HasKeys, KeyFiles, ImportKeys, Compiles
<1>5. ~Compiles(h) => \A f \in Circ(cmd[h].src) : next(f) = "done"
  BY DEF ImportKeys, Compiles
<1> HIDE DEF next, sts
<1>6. /\ c \in Commands /\ c.src = cmd[h].src /\ c.kind = cmd[h].kind
      /\ c.scheme = cmd[h].scheme /\ c.st = sts
      /\ c.pc = IF Compiles(h) THEN "keys" ELSE "verifiers"
  BY <1>2, <1>3 DEF Commands, Pcs, ImportKeys, Compiles
<1> HIDE DEF c
<1>7. /\ dir'[h] = dir[h] /\ cmd'[h] = c /\ ready'[h] = ready[h]
      /\ dir' = [dir EXCEPT ![h] = dir[h]]
      /\ cut' = [cut EXCEPT ![h] = cut[h]] /\ cut[h] \in Cuts
      /\ \A f : Out(h, f)' = Out(h, f)
  BY <1>1, <1>2 DEF CompTypeOK, Out
<1>8. ASSUME NEW f \in Circ(cmd[h].src)
      PROVE  StatusOK(h, f)'
  <2>1. Now(h, f)' = next(f) /\ Wanted(h, f)' = Wanted(h, f)
    BY <1>3, <1>6, <1>7 DEF Now, Wanted
  <2>2. Out(h, f).hash = Wanted(h, f) /\ Out(h, f).arith # NoFile
    BY <1>1, <1>2 DEF HostOK, CommandOK, StatusOK
  <2> QED BY <1>3, <1>4, <1>5, <1>6, <1>7, <2>1, <2>2 DEF StatusOK, Compiles
<1>9. CommandOK(h)'
  BY <1>1, <1>2, <1>6, <1>7, <1>8 DEF HostOK, CommandOK, Compiles
<1>10. Busy(h)' /\ \A f \in Circ(cmd[h].src) : ~InHand(h, f)
  BY <1>1, <1>6, <1>7 DEF Busy, InHand
<1> QED BY <1>1, <1>2, <1>3, <1>6, <1>7, <1>9, <1>10, CommandMoves

LEMMA KeysDoneKeeps ==
    ASSUME CompInv, NEW h \in Hosts, KeysDone(h)
    PROVE  CompInv'
<1> DEFINE c == [cmd[h] EXCEPT !.pc = "verifiers"]
<1>1. /\ cmd[h].pc = "keys" /\ Busy(h) /\ \A f \in Circ(cmd[h].src) : Now(h, f) = "done"
      /\ cmd' = [cmd EXCEPT ![h] = c] /\ UNCHANGED <<dir, ready, cut, pkg, keyGens>>
  BY DEF KeysDone, At, Busy, Goto, Quiet
<1>2. /\ CompTypeOK /\ HostOK(h) /\ dir[h] \in Dirs /\ cmd[h] \in Commands
      /\ cmd[h].src \in Sources /\ cmd[h].st \in [Circ(cmd[h].src) -> Statuses]
  BY <1>1, DirParts, CommandParts DEF CompInv
<1>3. /\ c \in Commands /\ c.src = cmd[h].src /\ c.kind = cmd[h].kind
      /\ c.scheme = cmd[h].scheme /\ c.st = cmd[h].st /\ c.pc = "verifiers"
  BY <1>2 DEF Commands, Pcs
<1> HIDE DEF c
<1>4. /\ dir'[h] = dir[h] /\ cmd'[h] = c /\ ready'[h] = ready[h]
      /\ dir' = [dir EXCEPT ![h] = dir[h]]
      /\ cut' = [cut EXCEPT ![h] = cut[h]] /\ cut[h] \in Cuts
      /\ \A f : Out(h, f)' = Out(h, f)
  BY <1>1, <1>2 DEF CompTypeOK, Out
<1>5. ASSUME NEW f \in Circ(cmd[h].src)
      PROVE  StatusOK(h, f)'
  <2>1. /\ Out(h, f).hash = Wanted(h, f) /\ Out(h, f).arith # NoFile /\ HasKeys(Out(h, f))
    BY <1>1, <1>2 DEF HostOK, CommandOK, StatusOK
  <2>2. Now(h, f)' = "done" /\ Wanted(h, f)' = Wanted(h, f)
    BY <1>1, <1>3, <1>4 DEF Now, Wanted
  <2> QED BY <1>3, <1>4, <2>1, <2>2 DEF StatusOK
<1>6. CommandOK(h)'
  BY <1>1, <1>2, <1>3, <1>4, <1>5 DEF HostOK, CommandOK, Compiles
<1>7. Busy(h)' /\ \A f \in Circ(cmd[h].src) : ~InHand(h, f)
  BY <1>1, <1>3, <1>4 DEF Busy, InHand
<1> QED BY <1>1, <1>2, <1>3, <1>4, <1>6, <1>7, CommandMoves

-----------------------------------------------------------------------------
(* The end of a command                                                    *)

\* What has to be shown of a command that ends with its directory unchanged.
LEMMA CommandEnds ==
    ASSUME CompInv, NEW h \in Hosts, cmd' = [cmd EXCEPT ![h] = Idle],
           dir' = dir, NEW r \in BOOLEAN, ready' = [ready EXCEPT ![h] = r],
           NEW ct \in Cuts, cut' = [cut EXCEPT ![h] = ct], UNCHANGED <<pkg, keyGens>>,
           \A f \in Names \ ct : Sane(Out(h, f)),
           ImportedOK(h)', ReadyOK(h)', ContractFileOK(h)'
    PROVE  CompInv'
<1>1. CompTypeOK /\ dir[h] \in Dirs /\ dir' = [dir EXCEPT ![h] = dir[h]] /\ Idle \in AnyCommand
  BY DirParts DEF CompInv, CompTypeOK, AnyCommand
<1>2. cmd'[h] = Idle /\ cut'[h] = ct
  BY <1>1 DEF CompTypeOK
<1>3. ~Busy(h)' /\ ExtractOK(h)'
  BY <1>2 DEF Busy, Idle, ExtractOK, At
<1>4. CommandOK(h)'
  BY <1>3 DEF CommandOK
<1>5. FilesOK(h)'
  BY <1>2 DEF FilesOK, Out
<1>6. HostOK(h)'
  BY <1>3, <1>4, <1>5 DEF HostOK
<1>7. Idle.pc = "idle"
  BY DEF Idle
<1> QED BY <1>1, <1>6, <1>7, OneHost

\* All verification contracts are written from files that the statuses vouch for.
LEMMA FinishKeeps ==
    ASSUME CompInv, NEW h \in Hosts, Finish(h)
    PROVE  CompInv'
<1>1. /\ cmd[h].pc = "verifiers" /\ Busy(h)
      /\ \A f \in Circ(cmd[h].src) : Now(h, f) = "written"
      /\ cmd' = [cmd EXCEPT ![h] = Idle] /\ ready' = [ready EXCEPT ![h] = TRUE]
      /\ UNCHANGED <<dir, cut, pkg, keyGens>>
  BY DEF Finish, At, Busy
<1>2. /\ CompTypeOK /\ HostOK(h) /\ cmd[h].src \in Sources /\ cmd[h].scheme \in Schemes
      /\ Circ(cmd[h].src) \subseteq Names
  BY <1>1, CommandParts DEF CompInv
<1>3. /\ cmd'[h] = Idle /\ ready'[h] = TRUE
      /\ cut' = [cut EXCEPT ![h] = cut[h]] /\ cut[h] \in Cuts
      /\ \A f : Out(h, f)' = Out(h, f)
  BY <1>1, <1>2 DEF CompTypeOK, Out
<1>4. ~Busy(h)'
  BY <1>3 DEF Busy, Idle
<1>5. MadeFromSource(h)' /\ dir[h].zkay = cmd[h].src /\ dir[h].manifest = cmd[h].scheme
  BY <1>1, <1>2, NoFileAssumption DEF HostOK, CommandOK, MadeFromSource
<1>6. dir'[h].sol # NoFile
  <2>1. dir[h].sol \in Solidity
    BY <1>1, <1>2 DEF HostOK, CommandOK, Solidity
  <2> QED BY <1>1, <2>1, NoFileAssumption
<1>7. ReadyOK(h)'
  <2>1. ASSUME NEW f \in Circ(cmd[h].src)
        PROVE  /\ Out(h, f).hash = Wanted(h, f) /\ HasKeys(Out(h, f))
               /\ dir[h].ver[f] = [vk |-> Out(h, f).vk, pk |-> Out(h, f).pk,
                                   scheme |-> cmd[h].scheme]
    BY <1>1, <1>2 DEF HostOK, CommandOK, StatusOK
  <2> QED BY <1>1, <1>3, <1>4, <1>5, <2>1 DEF ReadyOK, Wanted
<1>8. ImportedOK(h)' /\ ContractFileOK(h)'
  BY <1>4, <1>5, <1>6 DEF ImportedOK, ContractFileOK
<1>9. \A f \in Names \ cut[h] : Sane(Out(h, f))
  BY <1>1, <1>2 DEF HostOK, FilesOK, InHand
<1> QED BY <1>1, <1>3, <1>7, <1>8, <1>9, CommandEnds

\* Wherever a compilation is cut off, what does not fit together is torn.
LEMMA TornApart ==
    ASSUME CompInv, NEW h \in Hosts, Busy(h),
           NEW f \in Names \ (cut[h] \cup Torn(h))
    PROVE  Sane(Out(h, f))
<1>1. CompTypeOK /\ HostOK(h) /\ Circ(cmd[h].src) \subseteq Names
  BY CommandParts DEF CompInv
<1>2. CASE ~InHand(h, f)
  BY <1>1, <1>2 DEF HostOK, FilesOK
<1>3. CASE InHand(h, f)
  <2>1. /\ f \in Circ(cmd[h].src) /\ StatusOK(h, f) /\ dir[h].zkay = cmd[h].src
        /\ cmd[h].src \in Sources /\ Now(h, f) \in {"java", "arith", "generating"}
        /\ ~Compiles(h) => dir[h].manifest = cmd[h].scheme
    BY <1>1, <1>3, CommandParts DEF HostOK, CommandOK, InHand
  <2>2. /\ f \notin Replaced(h)
        /\ At(h, "circuits") \/ At(h, "keys")
    BY <1>1, <2>1, CommandParts DEF Torn, At, StatusOK, Pcs
  <2>3. CASE Now(h, f) = "generating"
    BY <1>1, <2>1, <2>2, <2>3 DEF Replaced, KeyFiles, Sane, OneKey, HasKeys, StatusOK
  <2>4. CASE Now(h, f) \in {"java", "arith"} /\ Compiles(h)
    BY <2>1, <2>2, <2>4 DEF Replaced, Sane, OneKey, HasKeys, NoKeys, StatusOK
  <2>5. CASE Now(h, f) \in {"java", "arith"} /\ ~Compiles(h)
    <3>1. OneKey(Out(h, f))
      BY <1>1, <2>1, <2>5, NoFileAssumption DEF HostOK, ImportedOK, InHand, Busy
    <3> QED BY <2>1, <2>2, <2>5, <3>1 DEF Replaced, Sane
  <2> QED BY <2>1, <2>3, <2>4, <2>5
<1> QED BY <1>2, <1>3

\* An extraction that is cut off leaves what it has extracted.
LEMMA CutOffKeeps ==
    ASSUME CompInv, NEW h \in Hosts, CutOff(h)
    PROVE  CompInv'
<1> DEFINE ct == cut[h] \cup Torn(h)
<1>1. /\ cmd[h] # Idle /\ cmd' = [cmd EXCEPT ![h] = Idle]
      /\ cut' = [cut EXCEPT ![h] = ct] /\ UNCHANGED <<dir, ready, pkg, keyGens>>
  BY DEF CutOff
<1>2. CompTypeOK /\ HostOK(h)
  BY DEF CompInv
<1>3. Busy(h) \/ At(h, "extract")
  BY <1>1, <1>2 DEF CompTypeOK, AnyCommand, Commands, Extractions, Busy, Pcs, Idle, At
<1>4. /\ cut[h] \in Cuts /\ cut[h] \subseteq ct /\ ready[h] = FALSE
  BY <1>2, <1>3, ExtractionContext DEF HostOK, CommandOK, ExtractOK, CompTypeOK
<1>5. Busy(h) => /\ cmd[h].src \in Sources /\ cmd[h].scheme \in Schemes
                 /\ cmd[h].kind \in Kinds /\ Circ(cmd[h].src) \subseteq Names
                 /\ dir[h].zkay = cmd[h].src
  BY <1>2, CommandParts DEF HostOK, CommandOK
<1>6. ct \in Cuts
  <2>1. CASE Busy(h)
    <3>1. Replaced(h) \subseteq Names
      BY <1>5, <2>1 DEF Replaced
    <3> QED BY <1>4, <3>1 DEF Cuts, Torn
  <2>2. CASE At(h, "extract")
    BY <1>4, <2>2 DEF Cuts, Torn, At
  <2> QED BY <1>3, <2>1, <2>2
<1>7. /\ cmd'[h] = Idle /\ ready'[h] = FALSE /\ ready' = [ready EXCEPT ![h] = FALSE]
      /\ cut'[h] = ct /\ dir'[h] = dir[h] /\ \A f : Out(h, f)' = Out(h, f)
  BY <1>1, <1>2, <1>4 DEF CompTypeOK, Out
<1>8. ~Busy(h)' /\ ReadyOK(h)'
  BY <1>7 DEF Busy, Idle, ReadyOK
<1>9. CASE At(h, "extract")
  <2>1. dir[h].sol = NoFile /\ ~Busy(h)
    BY <1>9, ExtractionContext DEF FromArchive
  <2>2. \A f \in Names \ ct : Sane(Out(h, f))
    BY <1>2, <1>4, <2>1 DEF HostOK, FilesOK, InHand
  <2>3. ContractFileOK(h)'
    BY <1>7, <2>1 DEF ContractFileOK
  <2>4. ImportedOK(h)'
    BY <1>2, <1>4, <1>7, <1>8, <2>1 DEF HostOK, ImportedOK
  <2> HIDE DEF ct
  <2> QED BY <1>1, <1>6, <1>7, <1>8, <2>2, <2>3, <2>4, CommandEnds
<1>10. CASE Busy(h)
  <2>1. \A f \in Names \ ct : Sane(Out(h, f))
    BY <1>10, TornApart
  <2>2. ContractFileOK(h)'
    <3>1. "contract.zkay" \notin ct => ~At(h, "analysis") /\ ~At(h, "manifest")
      BY DEF Torn
    <3> QED BY <1>2, <1>5, <1>7, <1>8, <1>10, <3>1, NoFileAssumption
            DEF ContractFileOK, MadeFromSource, HostOK, CommandOK, At
  <2>3. ImportedOK(h)'
    <3> SUFFICES ASSUME dir[h].sol = NoFile, NEW f \in Circ(cmd[h].src) \ ct
                 PROVE  HasKeys(Out(h, f)) => Out(h, f).vk.circ = Digest(dir[h].zkay, f, dir[h].manifest)
      <4>1. \A f \in Circ(cmd[h].src) \ ct : OneKey(Out(h, f))
        BY <1>5, <1>10, <2>1 DEF Sane
      <4> QED BY <1>5, <1>7, <1>8, <1>10, <4>1 DEF ImportedOK
    <3>1. At(h, "analysis")
      <4>1. [src |-> cmd[h].src, scheme |-> cmd[h].scheme] \in Solidity
        BY <1>5, <1>10 DEF Solidity
      <4> QED BY <1>2, <1>10, <4>1, NoFileAssumption DEF HostOK, CommandOK, At
    <3>2. CASE Compiles(h)
      BY <1>5, <1>10, <3>1, <3>2 DEF Torn, Compiles, HasKeys, KeyFiles
    <3>3. CASE ~Compiles(h)
      BY <1>2, <1>4, <1>5, <1>10, <3>3, NoFileAssumption DEF HostOK, ImportedOK
    <3> QED BY <3>2, <3>3
  <2> HIDE DEF ct
  <2> QED BY <1>1, <1>6, <1>7, <1>8, <2>1, <2>2, <2>3, CommandEnds
<1> QED BY <1>3, <1>9, <1>10

LEMMA ImportFailsKeeps ==
    ASSUME CompInv, NEW h \in Hosts, ImportFails(h)
    PROVE  CompInv'
<1>1. /\ cmd[h] # Idle /\ cmd' = [cmd EXCEPT ![h] = Idle] /\ dir' = [dir EXCEPT ![h] = EmptyDir]
      /\ cut' = [cut EXCEPT ![h] = {}] /\ UNCHANGED <<ready, pkg, keyGens>>
  BY DEF ImportFails
<1>2. CompTypeOK /\ HostOK(h)
  BY DEF CompInv
<1>3. ready[h] = FALSE
  <2>1. Busy(h) \/ At(h, "extract")
    BY <1>1, <1>2 DEF CompTypeOK, AnyCommand, Commands, Extractions, Busy, Pcs, Idle, At
  <2> QED BY <1>2, <2>1 DEF HostOK, CommandOK, ExtractOK, CompTypeOK
<1>4. /\ EmptyDir \in Dirs /\ {} \in Cuts /\ Idle \in AnyCommand /\ Idle.pc = "idle"
      /\ FALSE \in BOOLEAN
  BY DEF EmptyDir, Dirs, NoFiles, OutDirs, Files, Cuts, AnyCommand, Idle
<1>5. ready' = [ready EXCEPT ![h] = FALSE]
  BY <1>1, <1>2, <1>3 DEF CompTypeOK
<1>6. dir'[h] = EmptyDir /\ cmd'[h] = Idle /\ ready'[h] = FALSE /\ cut'[h] = {}
  BY <1>1, <1>2, <1>5 DEF CompTypeOK
<1>7. ~Busy(h)' /\ ExtractOK(h)'
  BY <1>6 DEF Busy, Idle, ExtractOK, At
<1>8. \A f \in Names : Sane(Out(h, f)')
  BY <1>6 DEF Out, EmptyDir, NoFiles, Files, Sane, OneKey, HasKeys
<1>9. dir'[h].zkay = NoFile /\ dir'[h].sol = NoFile
  BY <1>6 DEF EmptyDir
<1>10. HostOK(h)'
  BY <1>6, <1>7, <1>8, <1>9
     DEF HostOK, CommandOK, FilesOK, ImportedOK, ReadyOK, ContractFileOK
<1> QED BY <1>1, <1>4, <1>5, <1>10, OneHost

\* Compilations start in the invariant and stay in it.
LEMMA CompInitial ==
    ASSUME CompInit
    PROVE  CompInv
<1>1. /\ dir = [h \in Hosts |-> EmptyDir] /\ cmd = [h \in Hosts |-> Idle]
      /\ ready = [h \in Hosts |-> FALSE] /\ cut = [h \in Hosts |-> {}]
      /\ pkg = NoFile /\ keyGens = 0
  BY DEF CompInit
<1>2. EmptyDir \in Dirs /\ {} \in Cuts
  BY DEF EmptyDir, Dirs, NoFiles, OutDirs, Files, Cuts
<1>3. \A h \in Hosts : ~Busy(h) /\ ExtractOK(h)
  BY <1>1 DEF Busy, Idle, ExtractOK, At
<1>4. CompTypeOK
  BY <1>1, <1>2, <1>3 DEF CompTypeOK, AnyCommand
<1>5. ASSUME NEW h \in Hosts
      PROVE  HostOK(h)
  <2>1. \A f \in Names : Sane(Out(h, f))
    BY <1>1 DEF Out, EmptyDir, NoFiles, Files, Sane, OneKey, HasKeys
  <2>2. dir[h].zkay = NoFile /\ dir[h].sol = NoFile /\ ~ready[h]
    BY <1>1 DEF EmptyDir
  <2> QED BY <1>3, <2>1, <2>2
          DEF HostOK, CommandOK, FilesOK, ImportedOK, ReadyOK, ContractFileOK
<1>6. PackageOK
  BY <1>1 DEF PackageOK
<1> QED BY <1>4, <1>5, <1>6 DEF CompInv

LEMMA CompileStepKeeps ==
    ASSUME CompInv, NEW h \in Hosts, CompileStep(h)
    PROVE  CompInv'
<1>1. ASSUME NEW f \in Names, CircuitStep(h, f)
      PROVE  CompInv'
  BY <1>1, CompareHashKeeps, RemoveKeyKeeps, CompileJavaKeeps, CompileCircuitKeeps, WriteHashKeeps
     DEF CircuitStep
<1>2. ASSUME NEW f \in Names, KeyStep(h, f)
      PROVE  CompInv'
  BY <1>2, StartKeyGenerationKeeps, WriteKeyKeeps DEF KeyStep
<1> QED BY <1>1, <1>2, WriteSolidityKeeps, WriteManifestKeeps, CircuitsDoneKeeps, KeysDoneKeeps,
           FinishKeeps, WriteVerifierKeeps DEF CompileStep

LEMMA CompNextKeeps ==
    ASSUME CompInv, NEW h \in Hosts, CompNext(h)
    PROVE  CompInv'
<1>1. ASSUME NEW p \in Projects, Compile(h, p[1], p[2])
      PROVE  CompInv'
  <2>1. p[1] \in Sources /\ p[2] \in Schemes
    BY CircuitAssumption
  <2> QED BY <1>1, <2>1, CompileKeeps
<1> QED BY <1>1, ExportKeeps, ImportKeeps, ExtractManifestKeeps, ExtractKeyKeeps,
        EndExtractionKeeps, CompileStepKeeps, CutOffKeeps, ImportFailsKeeps
        DEF CompNext, ExtractStep

\* A command works in the directory of its host.
LEMMA CompFrame ==
    ASSUME CompTypeOK, NEW h \in Hosts, CompNext(h), NEW k \in Hosts \ {h}
    PROVE  dir'[k] = dir[k] /\ cmd'[k] = cmd[k]
<1>1. DOMAIN dir = Hosts /\ DOMAIN cmd = Hosts
  BY DEF CompTypeOK
<1>2. CASE \E p \in Projects : Compile(h, p[1], p[2])
  BY <1>1, <1>2 DEF Compile, Begin
<1>3. CASE Export(h) \/ Import(h)
  BY <1>1, <1>3 DEF Export, Import, Begin
<1>4. CASE CompileStep(h)
  <2>1. CASE \E f \in Names : CircuitStep(h, f)
    BY <1>1, <2>1 DEF CircuitStep, CompareHash, RemoveKey, CompileJava, CompileCircuit, WriteHash,
       Mark, Write
  <2>2. CASE \E f \in Names : KeyStep(h, f) \/ WriteVerifier(h, f)
    BY <1>1, <2>2 DEF KeyStep, StartKeyGeneration, WriteKey, WriteVerifier, Mark, Write
  <2>3. CASE WriteSolidity(h) \/ WriteManifest(h) \/ CircuitsDone(h) \/ KeysDone(h) \/ Finish(h)
    BY <1>1, <2>3 DEF WriteSolidity, WriteManifest, CircuitsDone, KeysDone, Finish, Goto
  <2> QED BY <1>4, <2>1, <2>2, <2>3 DEF CompileStep
<1>5. CASE CutOff(h) \/ ImportFails(h)
  BY <1>1, <1>5 DEF CutOff, ImportFails
<1>6. CASE ExtractStep(h)
  BY <1>1, <1>6 DEF ExtractStep, ExtractManifest, ExtractKey, EndExtraction, Write
<1> QED BY <1>2, <1>3, <1>4, <1>5, <1>6 DEF CompNext

\* The command begun by connect replaces neither the source nor the manifest.
LEMMA ConnectCommand ==
    ASSUME CompInv, NEW h \in Hosts, cmd[h] = Idle \/ (Running(h) /\ cmd[h].kind = "connect"),
           CompileStep(h) \/ CutOff(h)
    PROVE  /\ dir'[h].zkay = dir[h].zkay /\ dir'[h].manifest = dir[h].manifest
           /\ cmd'[h] = Idle \/ (Running(h)' /\ cmd'[h].kind = "connect")
<1>1. /\ CompTypeOK /\ DOMAIN dir = Hosts /\ DOMAIN cmd = Hosts /\ dir[h] \in Dirs
      /\ DOMAIN dir[h] = {"zkay", "sol", "manifest", "out", "ver"}
  BY DirParts DEF CompInv, CompTypeOK, Dirs
<1>2. CASE CutOff(h)
  BY <1>1, <1>2 DEF CutOff
<1>3. CASE CompileStep(h)
  <2>1. Busy(h)
    BY <1>3 DEF CompileStep, CircuitStep, CompareHash, RemoveKey, CompileJava, CompileCircuit,
       WriteHash, KeyStep, StartKeyGeneration, WriteKey, WriteVerifier, WriteSolidity, WriteManifest,
       CircuitsDone, KeysDone, Finish, At, Busy
  <2>2. /\ cmd[h].kind = "connect" /\ cmd[h] \in Commands /\ ~Compiles(h)
        /\ DOMAIN cmd[h] = {"pc", "src", "scheme", "kind", "st", "modified"}
    BY <1>1, <2>1, CommandParts DEF Busy, Idle, Compiles, Commands
  <2>3. CASE \E f \in Names : CircuitStep(h, f)
    BY <1>1, <2>1, <2>2, <2>3 DEF CircuitStep, CompareHash, RemoveKey, CompileJava, CompileCircuit,
       WriteHash, Mark, Write, Running, Busy
  <2>4. CASE \E f \in Names : KeyStep(h, f) \/ WriteVerifier(h, f)
    BY <1>1, <2>1, <2>2, <2>4 DEF KeyStep, StartKeyGeneration, WriteKey, WriteVerifier, Mark, Write,
       Running, Busy
  <2>5. CASE WriteSolidity(h) \/ CircuitsDone(h) \/ KeysDone(h) \/ Finish(h)
    BY <1>1, <2>1, <2>2, <2>5 DEF WriteSolidity, CircuitsDone, KeysDone, Finish, Goto, ImportKeys,
       Running
  <2>6. CASE WriteManifest(h)
    <3>1. cmd[h].pc # "manifest"
      BY <2>1, <2>2 DEF CompInv, HostOK, CommandOK
    <3> QED BY <2>6, <3>1 DEF WriteManifest, At
  <2> QED BY <1>3, <2>3, <2>4, <2>5, <2>6 DEF CompileStep
<1> QED BY <1>2, <1>3

-----------------------------------------------------------------------------
(* Sessions: frames                                                        *)

ChainGrows == DOMAIN chain \subseteq DOMAIN chain' /\ \A a \in DOMAIN chain : chain'[a] = chain[a]

\* The session and the directory of every host but h are left alone.
OthersKept(h) ==
    \A k \in Hosts \ {h} :
        /\ rt'[k] = rt[k] /\ op'[k] = op[k] /\ conn'[k] = conn[k] /\ stuck'[k] = stuck[k]
        /\ dir'[k] = dir[k] /\ cmd'[k] = cmd[k]

\* A contract stays on the chain, with the contracts it refers to before it.
LEMMA References ==
    ASSUME WellFormed(chain), NEW a \in DOMAIN chain, chain[a].kind = "main"
    PROVE  /\ chain \in Seq({chain[b] : b \in DOMAIN chain})
           /\ DOMAIN chain = 1 .. Len(chain) /\ Len(chain) \in Nat
           /\ chain[a].solc \in Solcs /\ chain[a].sol \in Solidity /\ chain[a].pki \in Pkis
           /\ DOMAIN chain[a].inst = Circ(chain[a].sol.src)
           /\ \A f \in DOMAIN chain[a].inst : chain[a].inst[f] # 0 =>
                /\ chain[a].inst[f] \in 1 .. a - 1 /\ chain[a].inst[f] \in DOMAIN chain
                /\ chain[chain[a].inst[f]].kind = "verifier"
<1>1. /\ ContractOK(chain, a) /\ chain \in Seq({chain[b] : b \in DOMAIN chain})
  BY DEF WellFormed
<1>2. DOMAIN chain = 1 .. Len(chain) /\ Len(chain) \in Nat
  BY <1>1
<1> QED BY <1>1, <1>2 DEF ContractOK

\* A contract on the chain keeps verifying what it verified.
LEMMA VerifiesKept ==
    ASSUME NEW h \in Hosts, NEW inst, NEW f, NEW solc, Verifies(h, inst, f, solc),
           ChainGrows, dir'[h].ver[f] = dir[h].ver[f]
    PROVE  Verifies(h, inst, f, solc)'
BY DEF Verifies, ChainGrows

\* A step elsewhere leaves what is known of the session of k.
LEMMA SessionKept ==
    ASSUME NEW k \in Hosts, WellFormed(chain), SessionOK(k), ChainGrows,
           rt'[k] = rt[k], op'[k] = op[k], conn'[k] = conn[k], stuck'[k] = stuck[k],
           dir'[k] = dir[k], cmd'[k] = cmd[k]
    PROVE  SessionOK(k)'
<1>1. /\ conn[k] # NoContract =>
            /\ conn[k].main \in DOMAIN chain /\ Got(k).kind = "main" /\ Got(k)' = Got(k)
            /\ conn[k].main \in DOMAIN chain'
      /\ op[k].pc \in {"compile", "pki", "contracts"} =>
            op[k].main \in DOMAIN chain /\ chain'[op[k].main] = chain[op[k].main]
            /\ op[k].main \in DOMAIN chain'
  BY DEF SessionOK, Connecting, Got, ChainGrows
<1>2. Deploying(k)'
  <2> SUFFICES ASSUME op[k].pc \in {"keys", "verifiers"}
               PROVE  \A f \in DOMAIN op[k].inst : Verifies(k, op[k].inst, f, rt[k].solc)'
    BY DEF SessionOK, Deploying
  <2> QED BY VerifiesKept DEF SessionOK, Deploying
<1>3. Connecting(k)'
  BY <1>1 DEF SessionOK, Connecting
<1>4. Deployed(k)'
  <2> SUFFICES ASSUME conn[k].by = "deploy"
               PROVE  Deployed(k)'
    BY DEF Deployed
  <2>1. conn[k] # NoContract /\ Got(k)' = Got(k)
    BY <1>1 DEF NoContract
  <2>2. ASSUME NEW f \in Circ(dir[k].zkay) \cap DOMAIN Got(k).inst
        PROVE  Verifies(k, Got(k).inst, f, Got(k).solc)'
    <3>1. Verifies(k, Got(k).inst, f, Got(k).solc)
      BY DEF SessionOK, Deployed
    <3> QED BY <2>1, <3>1 DEF Verifies, ChainGrows
  <2> QED BY <2>1, <2>2 DEF SessionOK, Deployed
<1>5. ConnectedOK(k)'
  <2> SUFFICES ASSUME conn[k].by = "connect"
               PROVE  ConnectedOK(k)'
    BY DEF ConnectedOK
  <2>1. /\ conn[k] # NoContract /\ Got(k)' = Got(k) /\ Got(k).kind = "main"
        /\ conn[k].main \in DOMAIN chain
    BY <1>1 DEF NoContract
  <2>2. ASSUME NEW f \in Circ(dir[k].zkay)
        PROVE  chain'[Got(k).inst[f]] = chain[Got(k).inst[f]]
    <3>1. f \in DOMAIN Got(k).inst /\ Got(k).inst[f] # 0
      BY DEF SessionOK, ConnectedOK
    <3>2. Got(k).inst[f] \in DOMAIN chain
      BY <2>1, <3>1, References DEF Got
    <3> QED BY <3>2 DEF ChainGrows
  <2> QED BY <2>1, <2>2 DEF SessionOK, ConnectedOK, Out
<1> QED BY <1>1, <1>2, <1>3, <1>4, <1>5 DEF SessionOK, Running

\* What has to be shown of a step of one session.
LEMMA OneSession ==
    ASSUME SessionInv, NEW h \in Hosts, OthersKept(h), ChainGrows, WellFormed(chain)',
           rt' \in [Hosts -> Sessions \cup {Off}],
           op' = [k \in Hosts |-> op'[k]], conn' = [k \in Hosts |-> conn'[k]],
           stuck' \in [Hosts -> BOOLEAN], SessionOK(h)'
    PROVE  SessionInv'
<1>1. \A k \in Hosts \ {h} : SessionOK(k)'
  BY SessionKept DEF SessionInv, SessionTypeOK, OthersKept
<1>2. SessionTypeOK'
  BY DEF SessionTypeOK
<1> QED BY <1>1, <1>2 DEF SessionInv

LEMMA SessionInitial ==
    ASSUME Init
    PROVE  SessionInv
<1>1. /\ chain = Others /\ rt = [h \in Hosts |-> Off] /\ op = [h \in Hosts |-> Nothing]
      /\ conn = [h \in Hosts |-> NoContract] /\ stuck = [h \in Hosts |-> FALSE]
  BY DEF Init
<1>2. SessionTypeOK
  BY <1>1, OthersAssumption DEF SessionTypeOK
<1>3. ASSUME NEW h \in Hosts
      PROVE  SessionOK(h)
  BY <1>1 DEF SessionOK, Deploying, Connecting, Deployed, ConnectedOK, Off, Nothing, NoContract
<1> QED BY <1>2, <1>3 DEF SessionInv

-----------------------------------------------------------------------------
(* Sessions: steps                                                         *)

\* A chain that does not change grows, trivially.
LEMMA ChainStays ==
    ASSUME SessionInv, chain' = chain
    PROVE  ChainGrows /\ WellFormed(chain)'
BY DEF ChainGrows, SessionInv, SessionTypeOK, WellFormed, ContractOK

\* Each step of a session preserves the invariant.
LEMMA CommandOfKeeps ==
    ASSUME DepInv, NEW h \in Hosts, CommandOf(h)
    PROVE  DepInv'
<1>1. /\ CompInv /\ CompTypeOK /\ SessionInv /\ SessionOK(h) /\ CompNext(h)
      /\ UNCHANGED <<chain, rt, op, conn, stuck>>
      /\ ~rt[h].on \/ (op[h].pc = "compile" /\ (CompileStep(h) \/ CutOff(h)))
  BY DEF DepInv, CompInv, SessionInv, CommandOf, depVars
<1>2. CompInv'
  BY <1>1, CompNextKeeps
<1>3. OthersKept(h)
  BY <1>1, CompFrame DEF OthersKept
<1>4. SessionOK(h)'
  <2>1. CASE ~rt[h].on
    <3>1. rt[h] = Off /\ op[h] = Nothing /\ conn[h] = NoContract
      BY <1>1, <2>1 DEF SessionOK
    <3> QED BY <1>1, <3>1
            DEF SessionOK, Deploying, Connecting, Deployed, ConnectedOK, Off, Nothing, NoContract
  <2>2. CASE rt[h].on
    <3>1. /\ op[h].pc = "compile" /\ (CompileStep(h) \/ CutOff(h))
          /\ (Running(h) => cmd[h].kind = "connect") /\ conn[h] = NoContract
      BY <1>1, <2>2 DEF SessionOK, Nothing
    <3>2. cmd[h] = Idle \/ (Running(h) /\ cmd[h].kind = "connect")
      BY <1>1, <3>1 DEF Running, CompTypeOK, AnyCommand, Commands, Extractions, Pcs
    <3>3. /\ dir'[h].zkay = dir[h].zkay /\ dir'[h].manifest = dir[h].manifest
          /\ cmd'[h] = Idle \/ (Running(h)' /\ cmd'[h].kind = "connect")
      BY <1>1, <3>1, <3>2, ConnectCommand
    <3>4. Running(h)' => cmd'[h].kind = "connect"
      BY <3>3 DEF Running, Idle
    <3> QED BY <1>1, <2>2, <3>1, <3>3, <3>4
            DEF SessionOK, Deploying, Connecting, Deployed, ConnectedOK, NoContract, Got
  <2> QED BY <2>1, <2>2
<1> QED BY <1>1, <1>2, <1>3, <1>4, ChainStays, OneSession DEF DepInv, SessionInv, SessionTypeOK

\* Of the sessions only the one of h changes.
Own(h) ==
    /\ rt' = [rt EXCEPT ![h] = rt'[h]] /\ op' = [op EXCEPT ![h] = op'[h]]
    /\ conn' = [conn EXCEPT ![h] = conn'[h]] /\ stuck' = [stuck EXCEPT ![h] = stuck'[h]]

\* What has to be shown of a step that changes a session but no file.
LEMMA SessionStep ==
    ASSUME DepInv, NEW h \in Hosts, UNCHANGED compVars, Own(h),
           rt'[h] \in Sessions \cup {Off}, stuck'[h] \in BOOLEAN,
           ChainGrows, WellFormed(chain)', SessionOK(h)'
    PROVE  DepInv'
<1>1. /\ CompInv /\ SessionInv /\ rt \in [Hosts -> Sessions \cup {Off}]
      /\ op = [k \in Hosts |-> op[k]] /\ conn = [k \in Hosts |-> conn[k]]
      /\ stuck \in [Hosts -> BOOLEAN]
  BY DEF DepInv, SessionInv, SessionTypeOK
<1>2. OthersKept(h)
  BY <1>1 DEF OthersKept, Own, compVars
<1>3. /\ rt' \in [Hosts -> Sessions \cup {Off}]
      /\ op' = [k \in Hosts |-> op'[k]] /\ conn' = [k \in Hosts |-> conn'[k]]
      /\ stuck' \in [Hosts -> BOOLEAN]
  BY <1>1 DEF Own
<1> QED BY <1>1, <1>2, <1>3, CompUnchanged, OneSession DEF DepInv

\* What a step of h's session starts from.
LEMMA SessionContext ==
    ASSUME DepInv, NEW h \in Hosts
    PROVE  /\ CompInv /\ CompTypeOK /\ SessionInv /\ SessionOK(h) /\ WellFormed(chain)
           /\ dir[h] \in Dirs /\ HostOK(h)
           /\ rt \in [Hosts -> Sessions \cup {Off}] /\ stuck \in [Hosts -> BOOLEAN]
           /\ op = [k \in Hosts |-> op[k]] /\ conn = [k \in Hosts |-> conn[k]]
           /\ rt[h] \in Sessions \cup {Off} /\ stuck[h] \in BOOLEAN
           /\ rt[h].on <=> rt[h] # Off
           /\ rt[h].on => rt[h] \in Sessions /\ rt[h].scheme = dir[h].manifest
           /\ op[h] # Nothing => conn[h] = NoContract
           /\ chain' = chain => ChainGrows /\ WellFormed(chain)'
           /\ UNCHANGED compVars => /\ dir'[h] = dir[h] /\ cmd'[h] = cmd[h] /\ ready'[h] = ready[h]
                                    /\ (Running(h)' <=> Running(h)) /\ \A f : Out(h, f)' = Out(h, f)
<1>1. /\ CompInv /\ CompTypeOK /\ SessionInv /\ SessionOK(h) /\ SessionTypeOK /\ HostOK(h)
  BY DEF DepInv, CompInv, SessionInv
<1>2. rt[h].on <=> rt[h] # Off
  <2>1. CASE rt[h] \in Sessions
    <3>1. rt[h].on = TRUE
      BY <2>1 DEF Sessions
    <3>2. Off.on = FALSE
      BY DEF Off
    <3> QED BY <3>1, <3>2
  <2>2. CASE rt[h] = Off
    BY <2>2 DEF Off
  <2> QED BY <1>1, <2>1, <2>2 DEF SessionTypeOK
<1>3. UNCHANGED compVars => /\ dir'[h] = dir[h] /\ cmd'[h] = cmd[h] /\ ready'[h] = ready[h]
                            /\ (Running(h)' <=> Running(h)) /\ \A f : Out(h, f)' = Out(h, f)
  BY DEF compVars, Running, Out
<1> QED BY <1>1, <1>2, <1>3, DirParts, ChainStays DEF SessionTypeOK, SessionOK

LEMMA StartSessionKeeps ==
    ASSUME DepInv, NEW h \in Hosts, StartSession(h)
    PROVE  DepInv'
<1>1. /\ ~rt[h].on /\ cmd[h] = Idle /\ dir[h].manifest # NoFile
      /\ rt' = [rt EXCEPT ![h] = Session(dir[h].manifest)]
      /\ UNCHANGED compVars /\ UNCHANGED <<chain, op, conn, stuck>>
  BY DEF StartSession
<1>2. /\ Own(h) /\ rt'[h] = Session(dir[h].manifest) /\ op'[h] = op[h] /\ conn'[h] = conn[h]
      /\ stuck'[h] = stuck[h]
  BY <1>1, SessionContext DEF Own
<1>3. Session(dir[h].manifest) \in Sessions
  BY <1>1, SessionContext DEF Session, Sessions, Dirs, Solcs
<1>4. /\ rt'[h].on /\ rt'[h].scheme = dir[h].manifest /\ rt'[h].solc = "manifest"
  BY <1>2 DEF Session
<1>5. op[h] = Nothing /\ conn[h] = NoContract
  BY <1>1, SessionContext DEF SessionOK
<1>6. ~Running(h)' /\ dir'[h] = dir[h]
  BY <1>1, SessionContext, NotBusy
<1>7. SessionOK(h)'
  BY <1>2, <1>3, <1>4, <1>5, <1>6
     DEF SessionOK, Deploying, Connecting, Deployed, ConnectedOK, Nothing, NoContract
<1> QED BY <1>1, <1>2, <1>3, <1>7, SessionContext, SessionStep

LEMMA EndSessionKeeps ==
    ASSUME DepInv, NEW h \in Hosts, EndSession(h)
    PROVE  DepInv'
<1>1. /\ rt' = [rt EXCEPT ![h] = Off] /\ op' = [op EXCEPT ![h] = Nothing]
      /\ conn' = [conn EXCEPT ![h] = NoContract] /\ stuck' = [stuck EXCEPT ![h] = FALSE]
      /\ UNCHANGED compVars /\ chain' = chain
  BY DEF EndSession
<1>2. /\ Own(h) /\ rt'[h] = Off /\ op'[h] = Nothing /\ conn'[h] = NoContract /\ stuck'[h] = FALSE
  BY <1>1, SessionContext DEF Own
<1>3. SessionOK(h)'
  BY <1>2 DEF SessionOK, Deploying, Connecting, Deployed, ConnectedOK, Off, Nothing, NoContract
<1> QED BY <1>1, <1>2, <1>3, SessionContext, SessionStep

\* The operation ends with an exception: the session goes on with settings r.
LEMMA RaiseKeeps ==
    ASSUME DepInv, NEW h \in Hosts, rt[h].on, op[h] # Nothing, op[h].pc # "compile",
           NEW r \in Sessions, r.scheme = rt[h].scheme, Raise(h, r)
    PROVE  DepInv'
<1>1. /\ op' = [op EXCEPT ![h] = Nothing] /\ rt' = [rt EXCEPT ![h] = r]
      /\ stuck' = [stuck EXCEPT ![h] = @ \/ (r.solc = "library" /\ rt[h].solc # "library")]
      /\ UNCHANGED compVars /\ UNCHANGED <<chain, conn>>
  BY DEF Raise, Stop, Proceed
<1>2. /\ Own(h) /\ rt'[h] = r /\ op'[h] = Nothing /\ conn'[h] = NoContract
      /\ stuck'[h] = (stuck[h] \/ (r.solc = "library" /\ rt[h].solc # "library"))
  BY <1>1, SessionContext DEF Own
<1>3. ~stuck'[h] => r.solc = "manifest"
  <2>1. ~stuck[h] => rt[h].solc = "manifest"
    BY SessionContext DEF SessionOK
  <2>2. r.solc \in {"manifest", "library"}
    BY DEF Sessions, Solcs
  <2> QED BY <1>2, <2>1, <2>2
<1>4. /\ ~Running(h)' /\ dir'[h] = dir[h]
      /\ r.on /\ r.scheme = dir[h].manifest
  BY <1>1, SessionContext DEF SessionOK, Sessions
<1>5. SessionOK(h)'
  BY <1>2, <1>3, <1>4
     DEF SessionOK, Deploying, Connecting, Deployed, ConnectedOK, Nothing, NoContract
<1>6. stuck'[h] \in BOOLEAN
  BY <1>2
<1> QED BY <1>1, <1>2, <1>5, <1>6, SessionContext, SessionStep

LEMMA FailsKeeps ==
    ASSUME DepInv, NEW h \in Hosts, rt[h].on, op[h] # Nothing, op[h].pc # "compile",
           NEW r \in Sessions, r.scheme = rt[h].scheme, Fails(h, r)
    PROVE  DepInv'
BY RaiseKeeps DEF Fails

\* The session has learnt addresses, or loaded keys; it is doing what it did, or
\* deploys the verification contracts next.
LEMMA Learns ==
    ASSUME DepInv, NEW h \in Hosts, rt[h].on, op[h].pc = "keys",
           rt' = [rt EXCEPT ![h] = rt'[h]], rt'[h] \in Sessions,
           rt'[h].scheme = rt[h].scheme, rt'[h].solc = rt[h].solc,
           op' = op \/ op' = [op EXCEPT ![h] = [op[h] EXCEPT !.pc = "verifiers"]],
           UNCHANGED compVars, UNCHANGED <<chain, conn, stuck>>
    PROVE  DepInv'
<1>1. /\ Deploying(h) /\ conn[h] = NoContract /\ ~Running(h)
      /\ op[h] = [pc |-> "keys", inst |-> op[h].inst]
      /\ ~stuck[h] => rt[h].solc = "manifest"
  BY SessionContext DEF SessionOK, Deploying, Nothing
<1>2. /\ Own(h) /\ op'[h] = [pc |-> op'[h].pc, inst |-> op[h].inst]
      /\ op'[h].pc \in {"keys", "verifiers"} /\ op'[h].inst = op[h].inst
      /\ conn'[h] = conn[h] /\ stuck'[h] = stuck[h]
  <2>1. CASE op' = op
    BY <1>1, <2>1, SessionContext DEF Own
  <2>2. CASE op' = [op EXCEPT ![h] = [op[h] EXCEPT !.pc = "verifiers"]]
    <3>1. [op[h] EXCEPT !.pc = "verifiers"] = [pc |-> "verifiers", inst |-> op[h].inst]
      BY <1>1
    <3> QED BY <2>2, <3>1, SessionContext DEF Own
  <2> QED BY <2>1, <2>2
<1>3. ~Running(h)' /\ dir'[h] = dir[h]
  BY <1>1, SessionContext
<1>4. Deploying(h)'
  BY <1>1, <1>2, <1>3 DEF Deploying, Verifies
<1>5. rt'[h].on /\ rt'[h].scheme = dir[h].manifest
  BY SessionContext DEF Sessions
<1>6. SessionOK(h)'
  BY <1>1, <1>2, <1>3, <1>4, <1>5
     DEF SessionOK, Connecting, Deployed, ConnectedOK, Nothing, NoContract
<1> QED BY <1>2, <1>6, SessionContext, SessionStep

LEMMA ConnectLibrariesKeeps ==
    ASSUME DepInv, NEW h \in Hosts, rt[h].on, op[h].pc \in {"keys", "verifiers"},
           ConnectLibraries(h)
    PROVE  DepInv'
<1>1. /\ rt[h] \in Sessions /\ PkiOf[h] \in Pkis /\ op[h] # Nothing
      /\ \A r \in {Connected(h)} \cup NotConnected(h) : r \in Sessions /\ r.scheme = rt[h].scheme
      /\ Connected(h).solc = rt[h].solc
  <2>1. rt[h] \in Sessions /\ PkiOf[h] \in Pkis /\ op[h] # Nothing
    BY SessionContext, PkiAssumption DEF Nothing
  <2>2. Connected(h) \in Sessions /\ Connected(h).scheme = rt[h].scheme /\ Connected(h).solc = rt[h].solc
    BY <2>1 DEF Connected, Sessions
  <2>3. \A r \in NotConnected(h) : r \in Sessions /\ r.scheme = rt[h].scheme
    <3>1. \A r \in NotConnected(h) :
             \/ r = rt[h] \/ r = [rt[h] EXCEPT !.pki = "empty", !.solc = "library"]
             \/ r = [rt[h] EXCEPT !.pki = PkiOf[h], !.libs = "some", !.solc = "library"]
      BY DEF NotConnected
    <3>2. LET r == [rt[h] EXCEPT !.pki = "empty", !.solc = "library"]
          IN  r \in Sessions /\ r.scheme = rt[h].scheme
      BY <2>1 DEF Sessions, Solcs
    <3>3. LET r == [rt[h] EXCEPT !.pki = PkiOf[h], !.libs = "some", !.solc = "library"]
          IN  r \in Sessions /\ r.scheme = rt[h].scheme
      BY <2>1 DEF Sessions, Solcs
    <3> QED BY <2>1, <3>1, <3>2, <3>3
  <2> QED BY <2>1, <2>2, <2>3
<1>2. CASE \E r \in NotConnected(h) : Fails(h, r)
  BY <1>1, <1>2, FailsKeeps
<1>3. CASE /\ rt' = [rt EXCEPT ![h] = Connected(h)]
           /\ UNCHANGED compVars /\ UNCHANGED <<chain, op, conn, stuck>>
  <2>1. rt'[h] = Connected(h) /\ rt' = [rt EXCEPT ![h] = rt'[h]]
    BY <1>3, SessionContext
  <2>2. CASE op[h].pc = "keys"
    BY <1>1, <1>3, <2>1, <2>2, Learns
  <2>3. CASE op[h].pc = "verifiers"
    <3>1. /\ Own(h) /\ op'[h] = op[h] /\ conn'[h] = conn[h] /\ stuck'[h] = stuck[h]
      BY <1>3, <2>1, SessionContext DEF Own
    <3>2. ~Running(h)' /\ dir'[h] = dir[h] /\ rt'[h].on /\ rt'[h].scheme = dir[h].manifest
          /\ rt'[h].solc = rt[h].solc /\ conn[h] = NoContract
      <4>1. conn[h] = NoContract /\ ~Running(h)
        BY <1>1, <2>3, SessionContext DEF SessionOK
      <4>2. rt'[h].on
        <5>1. rt'[h] \in Sessions
          BY <1>1, <2>1
        <5>2. rt'[h].on = TRUE
          BY <5>1 DEF Sessions
        <5> QED BY <5>2
      <4> QED BY <1>1, <1>3, <2>1, <4>1, <4>2, SessionContext
    <3>3. Deploying(h)'
      BY <1>3, <2>3, <3>1, <3>2, SessionContext DEF SessionOK, Deploying, Verifies
    <3>4. SessionOK(h)'
      BY <1>1, <2>1, <2>3, <3>1, <3>2, <3>3, SessionContext
         DEF SessionOK, Connecting, Deployed, ConnectedOK, NoContract
    <3> QED BY <1>1, <1>3, <2>1, <3>1, <3>4, SessionContext, SessionStep
  <2> QED BY <2>2, <2>3
<1> QED BY <1>2, <1>3 DEF ConnectLibraries

\* What has to be shown while a deployment or a connection goes on.
LEMMA OperationGoesOn ==
    ASSUME NEW h \in Hosts, rt'[h] \in Sessions, rt'[h].scheme = dir'[h].manifest, ~Running(h)',
           ~stuck'[h] => rt'[h].solc = "manifest", conn'[h] = NoContract,
           op'[h].pc \in {"keys", "verifiers", "pki", "contracts"},
           Deploying(h)', Connecting(h)'
    PROVE  SessionOK(h)'
<1>1. rt'[h].on = TRUE
  BY DEF Sessions
<1>2. Deployed(h)' /\ ConnectedOK(h)'
  BY DEF Deployed, ConnectedOK, NoContract
<1> QED BY <1>1, <1>2 DEF SessionOK

LEMMA StartDeployKeeps ==
    ASSUME DepInv, NEW h \in Hosts, StartDeploy(h)
    PROVE  DepInv'
<1> DEFINE o == [pc |-> "keys", inst |-> [f \in {} |-> 0]]
<1>1. /\ rt[h].on /\ op[h] = Nothing /\ dir[h].zkay # NoFile /\ dir[h].sol # NoFile
      /\ op' = [op EXCEPT ![h] = o] /\ conn' = [conn EXCEPT ![h] = NoContract]
      /\ UNCHANGED compVars /\ UNCHANGED <<chain, rt, stuck>>
  BY DEF StartDeploy, Proceed
<1>2. /\ o.pc = "keys" /\ o = [pc |-> o.pc, inst |-> o.inst]
      /\ DOMAIN o.inst = {} /\ o.inst \in [{} -> Nat]
  OBVIOUS
<1> HIDE DEF o
<1>3. /\ Own(h) /\ rt'[h] = rt[h] /\ op'[h] = o /\ conn'[h] = NoContract /\ stuck'[h] = stuck[h]
  BY <1>1, SessionContext DEF Own
<1>4. ~Running(h)' /\ dir'[h] = dir[h] /\ (~stuck[h] => rt[h].solc = "manifest")
  BY <1>1, SessionContext DEF SessionOK, Nothing
<1>5. Deploying(h)'
  BY <1>1, <1>2, <1>3, <1>4 DEF Deploying
<1>6. Connecting(h)'
  BY <1>2, <1>3 DEF Connecting
<1>7. SessionOK(h)'
  BY <1>1, <1>2, <1>3, <1>4, <1>5, <1>6, SessionContext, OperationGoesOn
<1> QED BY <1>1, <1>3, <1>7, SessionContext, SessionStep

LEMMA InitializeKeysKeeps ==
    ASSUME DepInv, NEW h \in Hosts, InitializeKeys(h)
    PROVE  DepInv'
<1>1. /\ rt[h].on /\ op[h].pc = "keys" /\ op[h] # Nothing /\ rt[h] \in Sessions
      /\ rt' = rt => rt' = [rt EXCEPT ![h] = rt'[h]]
  BY SessionContext DEF InitializeKeys, Doing, Nothing
<1>2. CASE Step(h, "verifiers") /\ UNCHANGED compVars /\ UNCHANGED <<chain, rt, conn, stuck>>
  BY <1>1, <1>2, Learns DEF Step, Proceed
<1>3. CASE /\ rt' = [rt EXCEPT ![h].keys = TRUE] /\ Step(h, "verifiers")
           /\ UNCHANGED compVars /\ UNCHANGED <<chain, conn, stuck>>
  <2> DEFINE r == [rt[h] EXCEPT !.keys = TRUE]
  <2>1. r \in Sessions /\ r.scheme = rt[h].scheme /\ r.solc = rt[h].solc
    BY <1>1 DEF Sessions
  <2>2. rt' = [rt EXCEPT ![h] = r]
    BY <1>3
  <2> HIDE DEF r
  <2>3. rt'[h] = r /\ rt' = [rt EXCEPT ![h] = rt'[h]]
    BY <2>2, SessionContext
  <2> QED BY <1>1, <1>3, <2>1, <2>3, Learns DEF Step, Proceed
<1>4. CASE ConnectLibraries(h)
  BY <1>1, <1>4, ConnectLibrariesKeeps
<1>5. CASE Raise(h, rt[h])
  BY <1>1, <1>5, RaiseKeeps
<1>6. CASE Fails(h, rt[h])
  BY <1>1, <1>6, FailsKeeps
<1> QED BY <1>2, <1>3, <1>4, <1>5, <1>6 DEF InitializeKeys

\* A contract that refers to older ones can be appended.
LEMMA Appended ==
    ASSUME WellFormed(chain), NEW c, c.solc \in Solcs, chain' = Append(chain, c),
           \/ c.kind = "verifier" /\ c.ver \in [vk : SomeKeys, pk : SomeKeys, scheme : Schemes]
           \/ /\ c.kind = "main" /\ c.sol \in Solidity /\ c.pki \in Pkis
              /\ DOMAIN c.inst = Circ(c.sol.src)
              /\ \A f \in DOMAIN c.inst : c.inst[f] # 0 =>
                    c.inst[f] \in DOMAIN chain /\ chain[c.inst[f]].kind = "verifier"
    PROVE  /\ ChainGrows /\ WellFormed(chain)'
           /\ NextAddress \in DOMAIN chain' /\ NextAddress # 0 /\ chain'[NextAddress] = c
<1>1. /\ chain \in Seq({chain[b] : b \in DOMAIN chain})
      /\ DOMAIN chain = 1 .. Len(chain) /\ Len(chain) \in Nat
  BY DEF WellFormed
<1>2. /\ DOMAIN chain' = 1 .. NextAddress /\ NextAddress = Len(chain) + 1
      /\ chain'[NextAddress] = c /\ \A a \in DOMAIN chain : chain'[a] = chain[a]
      /\ chain' \in Seq({chain[b] : b \in DOMAIN chain} \cup {c})
  BY <1>1 DEF NextAddress
<1>3. chain' \in Seq({chain'[b] : b \in DOMAIN chain'})
  <2>1. \A b \in DOMAIN chain' : chain'[b] \in {chain'[a] : a \in DOMAIN chain'}
    OBVIOUS
  <2>2. Len(chain') = NextAddress /\ NextAddress \in Nat
    BY <1>1, <1>2
  <2> QED BY <1>1, <1>2, <2>1, <2>2
<1>4. ASSUME NEW a \in DOMAIN chain'
      PROVE  ContractOK(chain', a)
  <2>1. CASE a = NextAddress
    BY <1>1, <1>2, <2>1 DEF ContractOK
  <2>2. CASE a # NextAddress
    <3>1. a \in DOMAIN chain /\ chain'[a] = chain[a] /\ ContractOK(chain, a)
      BY <1>1, <1>2, <2>2 DEF WellFormed
    <3>2. 1 .. a - 1 \subseteq DOMAIN chain
      BY <1>1, <3>1
    <3> QED BY <1>2, <3>1, <3>2 DEF ContractOK
  <2> QED BY <2>1, <2>2
<1>5. ChainGrows /\ NextAddress \in DOMAIN chain' /\ NextAddress # 0
  BY <1>1, <1>2 DEF ChainGrows
<1> QED BY <1>2, <1>3, <1>4, <1>5 DEF WellFormed

LEMMA DeployVerifierKeeps ==
    ASSUME DepInv, NEW h \in Hosts, NEW f \in Names, DeployVerifier(h, f)
    PROVE  DepInv'
<1>1. /\ rt[h].on /\ op[h].pc = "verifiers" /\ op[h] # Nothing /\ rt[h] \in Sessions
      /\ f \in Circ(dir[h].zkay) \ DOMAIN op[h].inst
  BY SessionContext DEF DeployVerifier, Doing, Nothing
<1>2. CASE ConnectLibraries(h)
  BY <1>1, <1>2, ConnectLibrariesKeeps
<1>3. CASE Raise(h, rt[h])
  BY <1>1, <1>3, RaiseKeeps
<1>4. CASE Fails(h, rt[h])
  BY <1>1, <1>4, FailsKeeps
<1> DEFINE c == [kind |-> "verifier", ver |-> dir[h].ver[f], solc |-> rt[h].solc]
           inst == [g \in DOMAIN op[h].inst \cup {f} |->
                       IF g = f THEN NextAddress ELSE op[h].inst[g]]
           o == [op[h] EXCEPT !.inst = inst]
<1>5. CASE /\ dir[h].ver[f] # NoFile /\ chain' = Append(chain, c)
           /\ op' = [op EXCEPT ![h] = o]
           /\ UNCHANGED compVars /\ UNCHANGED <<rt, conn, stuck>>
  <2>1. /\ dir[h].ver[f] \in [vk : SomeKeys, pk : SomeKeys, scheme : Schemes]
        /\ rt[h].solc \in Solcs
    <3>1. dir[h].ver[f] \in VerificationContracts
      BY <1>5, SessionContext, DirParts
    <3>2. Keys \subseteq SomeKeys
      BY SessionContext DEF Keys, SomeKeys, CompTypeOK
    <3>3. dir[h].ver[f] \in [vk : SomeKeys, pk : SomeKeys, scheme : Schemes]
      BY <3>1, <3>2 DEF VerificationContracts
    <3> QED BY <1>1, <3>3 DEF Sessions
  <2>2. c.kind = "verifier" /\ c.ver = dir[h].ver[f] /\ c.solc = rt[h].solc
    OBVIOUS
  <2> HIDE DEF c
  <2>3. /\ ChainGrows /\ WellFormed(chain)'
        /\ NextAddress \in DOMAIN chain' /\ NextAddress # 0 /\ chain'[NextAddress] = c
    BY <1>5, <2>1, <2>2, SessionContext, Appended
  <2>4. /\ Deploying(h) /\ conn[h] = NoContract /\ ~Running(h)
        /\ op[h] = [pc |-> "verifiers", inst |-> op[h].inst]
        /\ op[h].inst \in [DOMAIN op[h].inst -> Nat]
        /\ ~stuck[h] => rt[h].solc = "manifest"
    BY <1>1, SessionContext DEF SessionOK, Deploying
  <2>5. NextAddress \in Nat
    BY SessionContext DEF WellFormed, NextAddress
  <2>6. /\ inst \in [DOMAIN op[h].inst \cup {f} -> Nat] /\ inst[f] = NextAddress
        /\ \A g \in DOMAIN op[h].inst : inst[g] = op[h].inst[g]
    BY <1>1, <2>4, <2>5
  <2> HIDE DEF inst
  <2>7. o = [pc |-> "verifiers", inst |-> inst]
    BY <2>4
  <2> HIDE DEF o
  <2>8. /\ Own(h) /\ rt'[h] = rt[h] /\ op'[h] = o /\ conn'[h] = conn[h] /\ stuck'[h] = stuck[h]
        /\ op'[h].pc = "verifiers" /\ op'[h].inst = inst
    BY <1>5, <2>7, SessionContext DEF Own
  <2>9. ~Running(h)' /\ dir'[h] = dir[h]
    BY <1>5, <2>4, SessionContext
  <2>10. ASSUME NEW g \in DOMAIN inst
         PROVE  Verifies(h, op[h].inst, g, rt[h].solc)'
    <3>1. CASE g = f
      BY <2>2, <2>3, <2>6, <2>8, <2>9, <3>1 DEF Verifies
    <3>2. CASE g # f
      <4>1. Verifies(h, op[h].inst, g, rt[h].solc) /\ inst[g] = op[h].inst[g]
        BY <1>1, <2>4, <2>6, <3>2 DEF Deploying
      <4> QED BY <2>3, <2>8, <2>9, <4>1 DEF Verifies, ChainGrows
    <3> QED BY <3>1, <3>2
  <2>11. Deploying(h)'
    BY <1>1, <2>4, <2>6, <2>7, <2>8, <2>9, <2>10 DEF Deploying
  <2>12. Connecting(h)'
    BY <2>8 DEF Connecting
  <2>13. SessionOK(h)'
    BY <1>1, <2>4, <2>8, <2>9, <2>11, <2>12, SessionContext, OperationGoesOn
  <2> QED BY <1>5, <2>3, <2>8, <2>13, SessionContext, SessionStep
<1> QED BY <1>2, <1>3, <1>4, <1>5 DEF DeployVerifier, Proceed

LEMMA DeployMainKeeps ==
    ASSUME DepInv, NEW h \in Hosts, DeployMain(h)
    PROVE  DepInv'
<1>1. /\ rt[h].on /\ op[h].pc = "verifiers" /\ op[h] # Nothing /\ rt[h] \in Sessions
      /\ DOMAIN op[h].inst = Circ(dir[h].zkay)
  BY SessionContext DEF DeployMain, Doing, Nothing
<1>2. CASE Raise(h, rt[h])
  BY <1>1, <1>2, RaiseKeeps
<1>3. CASE Fails(h, rt[h])
  BY <1>1, <1>3, FailsKeeps
<1> DEFINE inst == Instantiated(h, op[h].inst)
           c == [kind |-> "main", sol |-> dir[h].sol, solc |-> rt[h].solc,
                 pki |-> rt[h].pki, inst |-> inst]
           co == [by |-> "deploy", main |-> NextAddress]
<1>4. CASE /\ rt[h].pki \in Pkis /\ chain' = Append(chain, c)
           /\ conn' = [conn EXCEPT ![h] = co] /\ op' = [op EXCEPT ![h] = Nothing]
           /\ UNCHANGED compVars /\ UNCHANGED <<rt, stuck>>
  <2>1. /\ Deploying(h) /\ ~Running(h) /\ (~stuck[h] => rt[h].solc = "manifest")
        /\ dir[h].sol \in Solidity /\ rt[h].solc \in Solcs
    <3>1. Deploying(h) /\ ~Running(h) /\ (~stuck[h] => rt[h].solc = "manifest")
      BY <1>1, SessionContext DEF SessionOK
    <3>2. dir[h].sol \in Solidity
      BY <1>1, <3>1, SessionContext DEF Deploying, Dirs
    <3> QED BY <1>1, <3>1, <3>2 DEF Sessions
  <2>2. /\ dir[h].zkay # NoFile /\ dir[h].sol # NoFile
        /\ \A f \in Circ(dir[h].zkay) : Verifies(h, op[h].inst, f, rt[h].solc)
    BY <1>1, <2>1 DEF Deploying
  <2>3. /\ DOMAIN inst = Circ(dir[h].sol.src)
        /\ \A f \in Circ(dir[h].sol.src) : inst[f] = IF f \in Circ(dir[h].zkay)
                                                     THEN op[h].inst[f] ELSE 0
    BY <1>1 DEF Instantiated
  <2> HIDE DEF inst
  <2>4. /\ c.kind = "main" /\ c.sol = dir[h].sol /\ c.solc = rt[h].solc /\ c.pki = rt[h].pki
        /\ c.inst = inst
    OBVIOUS
  <2> HIDE DEF c
  <2>5. /\ ChainGrows /\ WellFormed(chain)'
        /\ NextAddress \in DOMAIN chain' /\ NextAddress # 0 /\ chain'[NextAddress] = c
    <3>1. \A f \in DOMAIN c.inst : c.inst[f] # 0 =>
              c.inst[f] \in DOMAIN chain /\ chain[c.inst[f]].kind = "verifier"
      BY <2>2, <2>3, <2>4 DEF Verifies
    <3> QED BY <1>4, <2>1, <2>3, <2>4, <3>1, SessionContext, Appended
  <2>6. co.by = "deploy" /\ co.main = NextAddress
    OBVIOUS
  <2> HIDE DEF co
  <2>7. /\ Own(h) /\ rt'[h] = rt[h] /\ op'[h] = Nothing /\ conn'[h] = co /\ stuck'[h] = stuck[h]
        /\ ~Running(h)' /\ dir'[h] = dir[h]
    BY <1>4, <2>1, SessionContext DEF Own
  <2>8. Got(h)' = c
    BY <2>5, <2>6, <2>7 DEF Got
  <2>9. ASSUME NEW f \in Circ(dir[h].zkay) \cap DOMAIN inst
        PROVE  /\ inst[f] \in DOMAIN chain' /\ inst[f] # 0 /\ chain'[inst[f]].kind = "verifier"
               /\ chain'[inst[f]].ver = dir'[h].ver[f] /\ chain'[inst[f]].solc = rt[h].solc
    <3>1. Verifies(h, op[h].inst, f, rt[h].solc) /\ inst[f] = op[h].inst[f]
      BY <2>2, <2>3
    <3> QED BY <2>5, <2>7, <3>1 DEF Verifies, ChainGrows
  <2>10. Deployed(h)'
    <3>1. \A f \in Circ(dir'[h].zkay) \cap DOMAIN Got(h)'.inst :
              Verifies(h, Got(h).inst, f, Got(h).solc)'
      BY <2>4, <2>7, <2>8, <2>9 DEF Verifies
    <3> QED BY <2>1, <2>2, <2>4, <2>7, <2>8, <3>1 DEF Deployed
  <2>11. SessionOK(h)'
    <3>1. rt'[h] \in Sessions /\ rt'[h].on = TRUE /\ rt'[h].scheme = dir'[h].manifest
      BY <1>1, <2>7, SessionContext DEF Sessions
    <3>2. conn'[h].by = "deploy" /\ conn'[h].main \in DOMAIN chain' /\ Got(h)'.kind = "main"
      BY <2>4, <2>5, <2>6, <2>7, <2>8
    <3>3. op'[h].pc = "idle" /\ op'[h] = Nothing
      BY <2>7 DEF Nothing
    <3>4. Deploying(h)' /\ Connecting(h)' /\ ConnectedOK(h)'
      BY <3>2, <3>3 DEF Deploying, Connecting, ConnectedOK
    <3> QED BY <2>1, <2>7, <2>10, <3>1, <3>2, <3>3, <3>4 DEF SessionOK
  <2> QED BY <1>1, <1>4, <2>5, <2>7, <2>11, SessionContext, SessionStep
<1> QED BY <1>2, <1>3, <1>4 DEF DeployMain, Stop, Proceed

LEMMA StartConnectKeeps ==
    ASSUME DepInv, NEW h \in Hosts, NEW a \in DOMAIN chain, StartConnect(h, a)
    PROVE  DepInv'
<1>1. /\ rt[h].on /\ op[h] = Nothing /\ cmd[h] = Idle /\ dir[h].zkay # NoFile
      /\ chain[a].kind = "main" /\ conn' = [conn EXCEPT ![h] = NoContract]
      /\ UNCHANGED <<chain, rt, stuck>> /\ rt[h] \in Sessions
      /\ ~stuck[h] => rt[h].solc = "manifest"
  BY SessionContext DEF StartConnect, SessionOK
<1>2. CASE /\ dir[h].sol # NoFile /\ op' = [op EXCEPT ![h] = [pc |-> "pki", main |-> a]]
           /\ UNCHANGED compVars
  <2>1. /\ Own(h) /\ rt'[h] = rt[h] /\ op'[h] = [pc |-> "pki", main |-> a]
        /\ conn'[h] = NoContract /\ stuck'[h] = stuck[h] /\ ~Running(h)' /\ dir'[h] = dir[h]
    BY <1>1, <1>2, SessionContext, NotBusy DEF Own
  <2>2. op'[h].pc = "pki" /\ op'[h].main = a
    BY <2>1
  <2>3. Deploying(h)' /\ Connecting(h)'
    BY <1>1, <1>2, <2>1, <2>2 DEF Deploying, Connecting
  <2>4. SessionOK(h)'
    BY <1>1, <2>1, <2>2, <2>3, SessionContext, OperationGoesOn
  <2> QED BY <1>1, <1>2, <2>1, <2>4, SessionContext, SessionStep
<1>3. CASE /\ dir[h].sol = NoFile /\ op' = [op EXCEPT ![h] = [pc |-> "compile", main |-> a]]
           /\ Begin(h, Command(dir[h].zkay, rt[h].scheme, "connect"))
           /\ UNCHANGED <<dir, cut, pkg, keyGens, commands, cuts>>
  <2>1. /\ dir[h].zkay \in Sources /\ rt[h].scheme \in Schemes
        /\ rt[h].scheme = dir[h].manifest
    BY <1>1, SessionContext DEF Sessions, Dirs
  <2>2. CompInv'
    BY <1>3, <2>1, SessionContext, ConnectBeginKeeps
  <2>3. /\ cmd' = [cmd EXCEPT ![h] = Command(dir[h].zkay, rt[h].scheme, "connect")]
        /\ DOMAIN cmd = Hosts
    BY <1>3, SessionContext DEF Begin, CompTypeOK
  <2>4. cmd'[h].kind = "connect" /\ \A k \in Hosts \ {h} : cmd'[k] = cmd[k]
    BY <2>3 DEF Command
  <2>5. /\ rt'[h] = rt[h] /\ op'[h] = [pc |-> "compile", main |-> a]
        /\ conn'[h] = NoContract /\ stuck'[h] = stuck[h] /\ dir'[h] = dir[h]
        /\ op' = [k \in Hosts |-> op'[k]] /\ conn' = [k \in Hosts |-> conn'[k]]
    BY <1>1, <1>3, SessionContext
  <2>6. op'[h].pc = "compile" /\ op'[h].main = a
    BY <2>5
  <2>7. OthersKept(h)
    BY <1>1, <1>3, <2>4, SessionContext DEF OthersKept
  <2>8. Deploying(h)' /\ Connecting(h)' /\ Deployed(h)' /\ ConnectedOK(h)'
    BY <1>1, <2>5, <2>6 DEF Deploying, Connecting, Deployed, ConnectedOK, NoContract
  <2>9. rt'[h].on = TRUE
    BY <1>1, <2>5 DEF Sessions
  <2>10. SessionOK(h)'
    BY <1>1, <2>1, <2>4, <2>5, <2>6, <2>8, <2>9 DEF SessionOK
  <2>11. rt' \in [Hosts -> Sessions \cup {Off}] /\ stuck' \in [Hosts -> BOOLEAN]
    BY <1>1, SessionContext
  <2> QED BY <1>1, <2>2, <2>5, <2>7, <2>10, <2>11, SessionContext, OneSession DEF DepInv
<1> QED BY <1>2, <1>3 DEF StartConnect, Proceed

\* The connection goes on with another pc, and knows at least the same.
LEMMA ConnectGoesOn ==
    ASSUME DepInv, NEW h \in Hosts, rt[h].on, ~Running(h),
           op[h].pc \in {"compile", "pki", "contracts"}, dir[h].sol # NoFile,
           rt' = [rt EXCEPT ![h] = rt'[h]], rt'[h] \in Sessions,
           rt'[h].scheme = rt[h].scheme, rt'[h].solc = rt[h].solc,
           NEW pc \in {"pki", "contracts"}, op' = [op EXCEPT ![h] = [op[h] EXCEPT !.pc = pc]],
           pc = "contracts" => rt'[h].pki = chain[op[h].main].pki,
           UNCHANGED compVars, UNCHANGED <<chain, conn, stuck>>
    PROVE  DepInv'
<1>1. /\ op[h] = [pc |-> op[h].pc, main |-> op[h].main]
      /\ op[h].main \in DOMAIN chain /\ chain[op[h].main].kind = "main"
      /\ dir[h].zkay # NoFile /\ conn[h] = NoContract
      /\ ~stuck[h] => rt[h].solc = "manifest"
  BY SessionContext DEF SessionOK, Connecting, Nothing
<1>2. [op[h] EXCEPT !.pc = pc] = [pc |-> pc, main |-> op[h].main]
  BY <1>1
<1>3. /\ Own(h) /\ op'[h] = [pc |-> pc, main |-> op[h].main]
      /\ conn'[h] = NoContract /\ stuck'[h] = stuck[h] /\ ~Running(h)' /\ dir'[h] = dir[h]
  BY <1>1, <1>2, SessionContext DEF Own
<1>4. op'[h].pc = pc /\ op'[h].main = op[h].main
  BY <1>3
<1>5. Deploying(h)' /\ Connecting(h)'
  BY <1>1, <1>3, <1>4 DEF Deploying, Connecting
<1>6. SessionOK(h)'
  BY <1>1, <1>3, <1>4, <1>5, SessionContext, OperationGoesOn
<1> QED BY <1>3, <1>6, SessionContext, SessionStep

LEMMA AfterCompilationKeeps ==
    ASSUME DepInv, NEW h \in Hosts, AfterCompilation(h)
    PROVE  DepInv'
<1>1. /\ rt[h].on /\ op[h].pc = "compile" /\ cmd[h] = Idle /\ rt[h] \in Sessions
      /\ UNCHANGED compVars /\ UNCHANGED <<chain, rt, conn, stuck>>
      /\ IF ready[h] THEN Step(h, "pki") ELSE Stop(h)
      /\ ~Running(h)
  BY SessionContext, NotBusy DEF AfterCompilation, Doing
<1>2. CASE ready[h]
  <2>1. dir[h].sol # NoFile
    <3>1. MadeFromSource(h) /\ dir[h].zkay \in Sources /\ dir[h].manifest \in Schemes
      BY <1>2, SessionContext DEF HostOK, ReadyOK, MadeFromSource, Dirs
    <3>2. dir[h].sol \in Solidity
      BY <3>1 DEF MadeFromSource, Solidity
    <3> QED BY <3>2, NoFileAssumption
  <2>2. rt' = [rt EXCEPT ![h] = rt'[h]] /\ rt'[h] = rt[h]
    BY <1>1, SessionContext
  <2> QED BY <1>1, <1>2, <2>1, <2>2, ConnectGoesOn DEF Step, Proceed
<1>3. CASE ~ready[h]
  <2>1. /\ Own(h) /\ rt'[h] = rt[h] /\ op'[h] = Nothing
        /\ conn'[h] = conn[h] /\ stuck'[h] = stuck[h] /\ ~Running(h)' /\ dir'[h] = dir[h]
    BY <1>1, <1>3, SessionContext DEF Own, Stop, Proceed
  <2>2. conn[h] = NoContract /\ (~stuck[h] => rt[h].solc = "manifest")
    BY <1>1, SessionContext DEF SessionOK, Nothing
  <2>3. rt'[h].on = TRUE /\ op'[h].pc = "idle"
    BY <1>1, <2>1 DEF Sessions, Nothing
  <2>4. Deploying(h)' /\ Connecting(h)' /\ Deployed(h)' /\ ConnectedOK(h)'
    BY <2>1, <2>2, <2>3 DEF Deploying, Connecting, Deployed, ConnectedOK, NoContract
  <2>5. SessionOK(h)'
    BY <1>1, <2>1, <2>2, <2>3, <2>4, SessionContext DEF SessionOK
  <2> QED BY <1>1, <2>1, <2>5, SessionContext, SessionStep
<1> QED BY <1>2, <1>3

LEMMA ConnectPkiKeeps ==
    ASSUME DepInv, NEW h \in Hosts, ConnectPki(h)
    PROVE  DepInv'
<1>1. /\ rt[h].on /\ op[h].pc = "pki" /\ op[h] # Nothing /\ rt[h] \in Sessions /\ ~Running(h)
      /\ Connecting(h)
  BY SessionContext DEF ConnectPki, Doing, Nothing, SessionOK
<1>2. dir[h].sol # NoFile /\ op[h].main \in DOMAIN chain /\ Remote(h).pki \in Pkis
  BY <1>1, SessionContext, References DEF Connecting, Remote
<1>3. CASE /\ rt' = [rt EXCEPT ![h].pki = Remote(h).pki] /\ Step(h, "contracts")
           /\ UNCHANGED compVars /\ UNCHANGED <<chain, conn, stuck>>
  <2> DEFINE r == [rt[h] EXCEPT !.pki = Remote(h).pki]
  <2>1. r \in Sessions /\ r.scheme = rt[h].scheme /\ r.solc = rt[h].solc /\ r.pki = Remote(h).pki
    BY <1>1, <1>2 DEF Sessions
  <2>2. rt' = [rt EXCEPT ![h] = r]
    BY <1>3
  <2> HIDE DEF r
  <2>3. rt'[h] = r /\ rt' = [rt EXCEPT ![h] = rt'[h]]
    BY <2>2, SessionContext
  <2> QED BY <1>1, <1>2, <1>3, <2>1, <2>3, ConnectGoesOn DEF Step, Proceed, Remote
<1>4. CASE \E solc \in {rt[h].solc, "library"} :
              Fails(h, [rt[h] EXCEPT !.pki = "empty", !.solc = solc])
  <2> PICK solc \in {rt[h].solc, "library"} : Fails(h, [rt[h] EXCEPT !.pki = "empty", !.solc = solc])
    BY <1>4
  <2> DEFINE r == [rt[h] EXCEPT !.pki = "empty", !.solc = solc]
  <2>1. r \in Sessions /\ r.scheme = rt[h].scheme
    BY <1>1 DEF Sessions, Solcs
  <2> HIDE DEF r
  <2> QED BY <1>1, <2>1, FailsKeeps DEF r
<1> QED BY <1>3, <1>4 DEF ConnectPki

\* All that connect promises has just been compared, with the PKI of the contract.
LEMMA ConnectContractsKeeps ==
    ASSUME DepInv, NEW h \in Hosts, ConnectContracts(h)
    PROVE  DepInv'
<1> DEFINE m == Remote(h)
           w == WithLibraries(h, m)
           r == [w EXCEPT !.keys = TRUE]
           co == [by |-> "connect", main |-> op[h].main]
<1>1. /\ rt[h].on /\ op[h].pc = "contracts" /\ op[h] # Nothing /\ rt[h] \in Sessions /\ ~Running(h)
      /\ Connecting(h) /\ (~stuck[h] => rt[h].solc = "manifest")
  BY SessionContext DEF ConnectContracts, Doing, Nothing, SessionOK
<1>2. /\ w \in Sessions /\ w.scheme = rt[h].scheme /\ w.solc = rt[h].solc /\ w.pki = rt[h].pki
  <2>1. w \in {rt[h], [rt[h] EXCEPT !.libs = "all"]}
    BY DEF WithLibraries
  <2> HIDE DEF w
  <2> QED BY <1>1, <2>1 DEF Sessions
<1> HIDE DEF w
<1>3. CASE Raise(h, w)
  BY <1>1, <1>2, <1>3, RaiseKeeps
<1>4. CASE \E q \in {rt[h], w} \cup {[rt[h] EXCEPT !.solc = "library"] : s \in {rt[h].scheme} \cap LibSchemes} :
              Fails(h, q)
  <2>1. \A q \in {rt[h], w, [rt[h] EXCEPT !.solc = "library"]} : q \in Sessions /\ q.scheme = rt[h].scheme
    BY <1>1, <1>2 DEF Sessions, Solcs
  <2> QED BY <1>1, <1>4, <2>1, FailsKeeps
<1>5. CASE /\ Matches(h, rt[h], m) /\ rt' = [rt EXCEPT ![h] = r]
           /\ conn' = [conn EXCEPT ![h] = co] /\ op' = [op EXCEPT ![h] = Nothing]
           /\ UNCHANGED compVars /\ UNCHANGED <<chain, stuck>>
  <2>1. /\ r \in Sessions /\ r.scheme = rt[h].scheme /\ r.solc = rt[h].solc /\ r.pki = rt[h].pki
    BY <1>2 DEF Sessions
  <2>2. co.by = "connect" /\ co.main = op[h].main
    OBVIOUS
  <2> HIDE DEF r, co
  <2>3. /\ Own(h) /\ rt'[h] = r /\ op'[h] = Nothing /\ conn'[h] = co /\ stuck'[h] = stuck[h]
        /\ ~Running(h)' /\ dir'[h] = dir[h] /\ chain' = chain /\ \A f : Out(h, f)' = Out(h, f)
    BY <1>1, <1>5, SessionContext DEF Own
  <2>4. Got(h)' = m
    BY <2>2, <2>3 DEF Got, Remote
  <2>5. /\ op[h].main \in DOMAIN chain /\ m.kind = "main" /\ dir[h].zkay # NoFile
        /\ dir[h].sol # NoFile /\ rt[h].pki = m.pki
    BY <1>1 DEF Connecting, Remote
  <2>6. /\ m.sol = dir[h].sol
        /\ \A f \in Circ(dir[h].zkay) :
              /\ f \in DOMAIN m.inst /\ m.inst[f] # 0
              /\ chain[m.inst[f]].ver = dir[h].ver[f] /\ dir[h].ver[f].pk = Out(h, f).pk
    BY <1>5 DEF Matches, MainMatches, VerifierMatches
  <2> HIDE DEF m
  <2>7. ConnectedOK(h)'
    BY <2>1, <2>3, <2>4, <2>5, <2>6 DEF ConnectedOK
  <2>8. SessionOK(h)'
    <3>1. rt'[h] \in Sessions /\ rt'[h].on = TRUE /\ rt'[h].scheme = dir'[h].manifest
      BY <1>1, <2>1, <2>3, SessionContext DEF Sessions
    <3>2. conn'[h].by = "connect" /\ conn'[h].main \in DOMAIN chain' /\ Got(h)'.kind = "main"
      BY <2>2, <2>3, <2>4, <2>5
    <3>3. op'[h].pc = "idle" /\ op'[h] = Nothing
      BY <2>3 DEF Nothing
    <3>4. Deploying(h)' /\ Connecting(h)' /\ Deployed(h)'
      BY <3>2, <3>3 DEF Deploying, Connecting, Deployed
    <3> QED BY <1>1, <2>1, <2>3, <2>7, <3>1, <3>2, <3>3, <3>4 DEF SessionOK
  <2> QED BY <1>1, <1>5, <2>1, <2>3, <2>8, SessionContext, SessionStep
<1> QED BY <1>3, <1>4, <1>5 DEF ConnectContracts, Stop, Proceed, w

-----------------------------------------------------------------------------
(* The invariant, and what follows from it                                 *)

\* Every step preserves the invariant.
LEMMA StepKeeps ==
    ASSUME DepInv, [Next]_vars
    PROVE  DepInv'
<1>1. ASSUME NEW h \in Hosts, HostNext(h)
      PROVE  DepInv'
  <2>1. CASE Operation(h)
    BY <2>1, InitializeKeysKeeps, DeployVerifierKeeps, DeployMainKeeps, AfterCompilationKeeps,
       ConnectPkiKeeps, ConnectContractsKeeps DEF Operation
  <2>2. CASE \E a \in DOMAIN chain : StartConnect(h, a)
    BY <2>2, StartConnectKeeps
  <2> QED BY <1>1, <2>1, <2>2, CommandOfKeeps, StartSessionKeeps, EndSessionKeeps,
             StartDeployKeeps DEF HostNext
<1>2. CASE UNCHANGED vars
  <2>1. UNCHANGED compVars /\ UNCHANGED <<chain, rt, op, conn, stuck>>
    BY <1>2 DEF vars, depVars
  <2>2. CompInv' /\ SessionTypeOK' /\ ChainGrows
    BY <2>1, CompUnchanged, ChainStays DEF DepInv, SessionInv, SessionTypeOK
  <2>3. \A k \in Hosts : SessionOK(k)'
    BY <2>1, <2>2, SessionKept DEF DepInv, SessionInv, SessionTypeOK, compVars
  <2> QED BY <2>2, <2>3 DEF DepInv, SessionInv
<1> QED BY <1>1, <1>2 DEF Next

\* The inductive invariant: what may be cut off where, file by file, and what the
\* sessions know of directories and contracts.
THEOREM Deployments == Spec => []DepInv
<1>1. Init => DepInv
  BY CompInitial, SessionInitial DEF DepInv, Init
<1> QED BY <1>1, StepKeeps, PTL DEF Spec

\* A host with a connected contract has an idle session for it.
LEMMA OnWhenGot ==
    ASSUME DepInv, NEW h \in Hosts, conn[h] # NoContract
    PROVE  /\ rt[h] \in Sessions /\ rt[h].scheme = dir[h].manifest /\ ~Running(h) /\ op[h] = Nothing
           /\ conn[h].main \in DOMAIN chain /\ Got(h).kind = "main"
<1>1. rt[h].on
  BY SessionContext DEF SessionOK
<1> QED BY <1>1, SessionContext DEF SessionOK, Nothing

\* What a completed directory holds.
LEMMA Completed ==
    ASSUME DepInv, NEW h \in Hosts, ready[h]
    PROVE  /\ dir[h].zkay \in Sources /\ dir[h].manifest \in Schemes
           /\ dir[h].sol.src = dir[h].zkay
           /\ \A f \in Circ(dir[h].zkay) :
                 /\ f \in Names
                 /\ dir[h].ver[f] = [vk |-> Out(h, f).vk, pk |-> Out(h, f).pk,
                                     scheme |-> dir[h].manifest]
                 /\ dir[h].ver[f].vk = Out(h, f).vk /\ dir[h].ver[f].pk = Out(h, f).pk
                 /\ f \notin cut[h] =>
                       LET d == Digest(dir[h].zkay, f, dir[h].manifest)
                       IN  /\ Out(h, f).hash = d /\ Out(h, f).java = d /\ Out(h, f).arith = d
                           /\ Out(h, f).vk.circ = d
                           /\ Out(h, f).vk = Out(h, f).pk /\ Out(h, f).vk = Out(h, f).bin
<1>1. HostOK(h) /\ ~Busy(h) /\ MadeFromSource(h)
  BY SessionContext DEF HostOK, ReadyOK
<1>2. /\ dir[h].zkay \in Sources /\ dir[h].manifest \in Schemes
      /\ dir[h].sol.src = dir[h].zkay
  BY <1>1, SessionContext DEF MadeFromSource, Dirs
<1>3. ASSUME NEW f \in Circ(dir[h].zkay)
      PROVE  /\ f \in Names /\ Out(h, f).hash # NoFile
             /\ Out(h, f).hash = Digest(dir[h].zkay, f, dir[h].manifest) /\ HasKeys(Out(h, f))
             /\ dir[h].ver[f] = [vk |-> Out(h, f).vk, pk |-> Out(h, f).pk,
                                 scheme |-> dir[h].manifest]
  BY <1>1, <1>2, DigestType DEF HostOK, ReadyOK
<1>4. ASSUME NEW f \in Circ(dir[h].zkay)
      PROVE  dir[h].ver[f].vk = Out(h, f).vk /\ dir[h].ver[f].pk = Out(h, f).pk
  <2> DEFINE v == [vk |-> Out(h, f).vk, pk |-> Out(h, f).pk, scheme |-> dir[h].manifest]
  <2>1. dir[h].ver[f] = v
    BY <1>3
  <2>2. v.vk = Out(h, f).vk /\ v.pk = Out(h, f).pk
    OBVIOUS
  <2> HIDE DEF v
  <2> QED BY <2>1, <2>2
<1>5. ASSUME NEW f \in Circ(dir[h].zkay) \ cut[h]
      PROVE  Sane(Out(h, f))
  BY <1>1, <1>3 DEF HostOK, FilesOK, InHand
<1> QED BY <1>2, <1>3, <1>4, <1>5 DEF Sane, OneKey

\* The files have contents of their kinds, verification contracts are written from
\* complete keys, the contracts on the chain refer to earlier verification
\* contracts, and what a user has got is a main contract.
THEOREM DeploymentTypes == Spec => []TypeOK
<1>1. DepInv => TypeOK
  <2> SUFFICES ASSUME DepInv
               PROVE  TypeOK
    OBVIOUS
  <2>1. ASSUME NEW h \in Hosts
        PROVE  /\ dir[h].zkay \in Sources \cup {NoFile} /\ dir[h].sol \in Solidity \cup {NoFile}
               /\ dir[h].manifest \in Schemes \cup {NoFile}
               /\ dir[h].out \in [Names -> OutDirs]
               /\ dir[h].ver \in [Names -> VerificationContracts \cup {NoFile}]
    BY SessionContext DEF Dirs
  <2>2. ASSUME NEW h \in Hosts, rt[h].on
        PROVE  rt[h].pki \in Pkis \cup {None, "empty"}
    BY <2>2, SessionContext DEF Sessions
  <2>3. WellFormed(chain)
    BY DEF DepInv, SessionInv, SessionTypeOK
  <2> QED BY <2>1, <2>2, <2>3, OnWhenGot DEF TypeOK
<1> QED BY <1>1, Deployments, PTL

\* After a compilation or an import without an error the circuits, the keys and the
\* verification contracts fit the source, whatever came before and wherever it was
\* cut off, except what was cut off while it was replaced.
THEOREM KeysFit == Spec => []KeysFitUnlessCut
<1>1. DepInv => KeysFitUnlessCut
  <2> SUFFICES ASSUME DepInv, NEW h \in Hosts, ready[h], NEW f \in Circ(dir[h].zkay) \ cut[h]
               PROVE  LET out == Out(h, f)
                          d == Digest(dir[h].zkay, f, dir[h].manifest)
                      IN  /\ {out.hash, out.java, out.arith, out.vk.circ} = {d}
                          /\ out.vk = out.pk /\ out.vk = out.bin
                          /\ dir[h].ver[f] = [vk |-> out.vk, pk |-> out.pk,
                                              scheme |-> dir[h].manifest]
    BY DEF KeysFitUnlessCut
  <2> QED BY Completed
<1> QED BY <1>1, Deployments, PTL

\* What connect guarantees when it succeeds holds as long as the user keeps the
\* contract, whatever other hosts deploy, compile and connect to in the meantime.
THEOREM ConnectGuarantee == Spec => []ConnectGuaranteeUnlessCut
<1>1. DepInv => ConnectGuaranteeUnlessCut
  <2> SUFFICES ASSUME DepInv, NEW h \in Hosts, conn[h].by = "connect"
               PROVE  LET m == Got(h)
                          verifier(f) == chain[m.inst[f]].ver
                      IN  /\ rt[h].pki = m.pki
                          /\ "contract.zkay" \notin cut[h] =>
                                /\ m.sol = [src |-> dir[h].zkay, scheme |-> dir[h].manifest]
                                /\ DOMAIN m.inst = Circ(dir[h].zkay)
                          /\ \A f \in Circ(dir[h].zkay) \cap DOMAIN m.inst :
                                /\ verifier(f) = dir[h].ver[f] /\ verifier(f).pk = Out(h, f).pk
                                /\ (ready[h] /\ f \notin cut[h]) =>
                                     verifier(f).vk.circ = Digest(dir[h].zkay, f, dir[h].manifest)
    BY DEF ConnectGuaranteeUnlessCut
  <2>1. conn[h] # NoContract
    BY DEF NoContract
  <2>2. /\ ~Running(h) /\ conn[h].main \in DOMAIN chain /\ Got(h).kind = "main"
        /\ HostOK(h) /\ WellFormed(chain)
    BY <2>1, OnWhenGot, SessionContext
  <2>3. /\ dir[h].sol # NoFile /\ rt[h].pki = Got(h).pki /\ Got(h).sol = dir[h].sol
        /\ \A f \in Circ(dir[h].zkay) :
              /\ f \in DOMAIN Got(h).inst /\ Got(h).inst[f] # 0
              /\ chain[Got(h).inst[f]].ver = dir[h].ver[f]
              /\ dir[h].ver[f].pk = Out(h, f).pk
    BY SessionContext DEF SessionOK, ConnectedOK
  <2>4. ASSUME "contract.zkay" \notin cut[h]
        PROVE  /\ Got(h).sol = [src |-> dir[h].zkay, scheme |-> dir[h].manifest]
               /\ DOMAIN Got(h).inst = Circ(dir[h].zkay)
    <3>1. Got(h).sol = [src |-> dir[h].zkay, scheme |-> dir[h].manifest]
      BY <2>2, <2>3, <2>4 DEF HostOK, ContractFileOK, MadeFromSource, Running, Busy
    <3>2. DOMAIN Got(h).inst = Circ(Got(h).sol.src)
      BY <2>2, References DEF Got
    <3> QED BY <3>1, <3>2
  <2>5. ASSUME NEW f \in Circ(dir[h].zkay), ready[h], f \notin cut[h]
        PROVE  dir[h].ver[f].vk.circ = Digest(dir[h].zkay, f, dir[h].manifest)
    BY <2>5, Completed
  <2> QED BY <2>3, <2>4, <2>5
<1> QED BY <1>1, Deployments, PTL

\* A contract deployed from a completed directory passes every check of a later
\* connect with the same files, unless the session was stuck in library settings.
THEOREM Connectable == Spec => []ConnectableUnlessStuck
<1>1. DepInv => ConnectableUnlessStuck
  <2> SUFFICES ASSUME DepInv, NEW h \in Hosts, conn[h].by = "deploy", ready[h], ~stuck[h]
               PROVE  Matches(h, Session(dir[h].manifest), Got(h))
    BY DEF ConnectableUnlessStuck
  <2>1. conn[h] # NoContract
    BY DEF NoContract
  <2>2. conn[h].main \in DOMAIN chain /\ Got(h).kind = "main" /\ WellFormed(chain)
    BY <2>1, OnWhenGot, SessionContext
  <2>3. /\ Got(h).sol = dir[h].sol /\ Got(h).solc = "manifest"
        /\ \A f \in Circ(dir[h].zkay) \cap DOMAIN Got(h).inst :
              Verifies(h, Got(h).inst, f, Got(h).solc)
    BY SessionContext DEF SessionOK, Deployed
  <2>4. /\ dir[h].sol.src = dir[h].zkay
        /\ \A f \in Circ(dir[h].zkay) : dir[h].ver[f].pk = Out(h, f).pk
    BY Completed
  <2>5. DOMAIN Got(h).inst = Circ(dir[h].zkay)
    BY <2>2, <2>3, <2>4, References DEF Got
  <2>6. Session(dir[h].manifest).solc = "manifest"
    BY DEF Session
  <2> QED BY <2>3, <2>4, <2>5, <2>6 DEF Matches, VerifierMatches, MainMatches, Verifies
<1> QED BY <1>1, Deployments, PTL
=============================================================================

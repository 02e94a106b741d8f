---------------------------- MODULE Compilation ----------------------------
(***************************************************************************)
(* Project directories and the commands compile, export and import.        *)
(*                                                                         *)
(* A compilation writes its files one after the other and may be cut off   *)
(* anywhere.  The next one decides, circuit by circuit, from what it finds *)
(* in the directory whether a circuit has to be compiled again and whether *)
(* its snark keys can be kept.                                             *)
(***************************************************************************)
EXTENDS Naturals, FiniteSets

CONSTANTS
    Hosts,          \* one project directory on each
    Developers,     \* those of them who compile, the others import
    Sources,        \* contract.zkay, in its versions
    Names,          \* names of verification contracts
    Circuits,       \* CircuitOf[s][f]: the circuit of verifier f of source s
    CircuitOf,
    Schemes,        \* proving schemes, for all options a manifest records
    Projects,       \* bound: sources and schemes that are compiled together
    NoFile,
    MaxCommands,    \* bound: compilations
    MaxCuts         \* bound: commands cut off

ASSUME CircuitAssumption ==
    /\ Developers \subseteq Hosts /\ Projects \subseteq Sources \X Schemes
    /\ DOMAIN CircuitOf = Sources
    /\ \A s \in Sources :
          DOMAIN CircuitOf[s] \subseteq Names /\ \A f \in DOMAIN CircuitOf[s] :
                                                    CircuitOf[s][f] \in Circuits
    /\ MaxCommands \in Nat /\ MaxCuts \in Nat
    /\ "contract.zkay" \notin Names

VARIABLES
    dir,        \* dir[h]: the files
    cmd,        \* cmd[h]: the command that runs
    ready,      \* ready[h]: the last command ended without an error
    cut,        \* history, cut[h]: verifiers left with a new circuit beside an old hash, or with
                \* new keys beside old ones, when a command was cut off, until circuit or keys
                \* are replaced completely, and contract.zkay
                \* if it is newer than contract.sol or contract.sol than the manifest; verifiers whose
                \* keys were exported before the compilation had ended, or are imported ones left
                \* with another contract.zkay
    pkg,        \* the package exported last
    keyGens, commands, cuts     \* counters

compVars == <<dir, cmd, ready, cut, pkg, keyGens, commands, cuts>>

Files == {"hash", "java", "arith", "vk", "pk", "bin"}
KeyFiles == {"vk", "pk", "bin"}
NoFiles == [x \in Files |-> NoFile]

\* What identifies a generated circuit: its code and the proving scheme.
Digest(s, f, scheme) == [circuit |-> CircuitOf[s][f], scheme |-> scheme]
Digests == [circuit : Circuits, scheme : Schemes]

Solidity == [src : Sources, scheme : Schemes]

\* No file is none of the contents of files.
ASSUME NoFileAssumption ==
    /\ NoFile \notin Sources \cup Schemes \cup Names \cup Digests \cup Solidity
    /\ NoFile \notin [id : Nat, circ : Digests]

Keys == [id : 0..keyGens, circ : Digests]
\* The parts of a verification contract that depend on the keys.
VerificationContracts == [vk : Keys, pk : Keys, scheme : Schemes]

EmptyDir == [zkay |-> NoFile, sol |-> NoFile, manifest |-> NoFile,
             out |-> [f \in Names |-> NoFiles], ver |-> [f \in Names |-> NoFile]]
Idle == [pc |-> "idle"]
Circ(s) == DOMAIN CircuitOf[s]          \* circuits_to_prove
Out(h, f) == dir[h].out[f]

CompInit ==
    /\ dir = [h \in Hosts |-> EmptyDir]
    /\ cmd = [h \in Hosts |-> Idle]
    /\ ready = [h \in Hosts |-> FALSE]
    /\ cut = [h \in Hosts |-> {}]
    /\ pkg = NoFile
    /\ keyGens = 0 /\ commands = 0 /\ cuts = 0

\* kind: compile, import (of a package) or connect (files of a package in place).
Command(s, scheme, kind) ==
    [pc |-> "analysis", src |-> s, scheme |-> scheme, kind |-> kind,
     st |-> [f \in Circ(s) |-> "new"], modified |-> {}]

Begin(h, c) ==
    /\ cmd[h] = Idle
    /\ cmd' = [cmd EXCEPT ![h] = c]
    /\ ready' = [ready EXCEPT ![h] = FALSE]

\* contract.zkay is copied before it is analysed.
Compile(h, s, scheme) ==
    /\ commands < MaxCommands /\ commands' = commands + 1
    /\ Begin(h, Command(s, scheme, "compile"))
    /\ dir' = [dir EXCEPT ![h].zkay = s]
    /\ UNCHANGED <<cut, pkg, keyGens, cuts>>

KeysComplete(h, s) == \A f \in Circ(s), x \in KeyFiles : Out(h, f)[x] # NoFile

Export(h) ==
    /\ cmd[h] = Idle
    /\ dir[h].zkay # NoFile /\ dir[h].manifest # NoFile /\ KeysComplete(h, dir[h].zkay)
    /\ pkg' = [zkay |-> dir[h].zkay, manifest |-> dir[h].manifest,
               keys |-> [f \in Circ(dir[h].zkay) |-> [x \in KeyFiles |-> Out(h, f)[x]]],
               cut |-> IF ready[h] THEN cut[h] ELSE Names]
    /\ UNCHANGED <<dir, cmd, ready, cut, keyGens, commands, cuts>>

At(h, pc) == cmd[h].pc = pc
ImportKeys(h) == cmd[h].kind # "compile"
Now(h, f) == cmd[h].st[f]
Goto(h, pc) == cmd' = [cmd EXCEPT ![h].pc = pc]
Mark(h, f, st) == cmd' = [cmd EXCEPT ![h].st[f] = st]
Write(h, f, x, v) == dir' = [dir EXCEPT ![h].out[f][x] = v]
Quiet == UNCHANGED <<ready, cut, pkg, keyGens, commands, cuts>>

\* The output directory must not exist. The archive stays open, whatever is
\* exported meanwhile; contract.zkay is extracted first, and then the manifest.
Import(h) ==
    /\ pkg # NoFile /\ dir[h] = EmptyDir
    /\ Begin(h, [pc |-> "extract", kind |-> "import", archive |-> pkg])
    /\ dir' = [dir EXCEPT ![h].zkay = pkg.zkay]
    /\ cut' = [cut EXCEPT ![h] = pkg.cut]
    /\ UNCHANGED <<pkg, keyGens, commands, cuts>>

ExtractManifest(h) ==
    /\ At(h, "extract") /\ dir[h].manifest = NoFile
    /\ dir' = [dir EXCEPT ![h].manifest = cmd[h].archive.manifest]
    /\ UNCHANGED cmd /\ Quiet

ExtractKey(h, f, x) ==
    /\ At(h, "extract") /\ dir[h].manifest # NoFile
    /\ f \in DOMAIN cmd[h].archive.keys /\ x \in KeyFiles /\ Out(h, f)[x] = NoFile
    /\ Write(h, f, x, cmd[h].archive.keys[f][x])
    /\ UNCHANGED cmd /\ Quiet

EndExtraction(h) ==
    /\ At(h, "extract") /\ dir[h].manifest # NoFile /\ KeysComplete(h, dir[h].zkay)
    /\ cmd' = [cmd EXCEPT ![h] = Command(dir[h].zkay, dir[h].manifest, "import")]
    /\ UNCHANGED dir /\ Quiet

WriteSolidity(h) ==
    /\ At(h, "analysis")
    /\ dir' = [dir EXCEPT ![h].sol = [src |-> cmd[h].src, scheme |-> cmd[h].scheme]]
    /\ Goto(h, IF ImportKeys(h) THEN "circuits" ELSE "manifest")
    /\ Quiet

WriteManifest(h) ==
    /\ At(h, "manifest")
    /\ dir' = [dir EXCEPT ![h].manifest = cmd[h].scheme]
    /\ cut' = [cut EXCEPT ![h] = @ \ {"contract.zkay"}]
    /\ Goto(h, "circuits")
    /\ UNCHANGED <<ready, pkg, keyGens, commands, cuts>>

\* Mutation: the circuit file alone decides whether a circuit is compiled.
UnmodifiedIfCompiled(h, f) == Out(h, f).arith # NoFile

Unmodified(h, f) ==
    /\ Out(h, f).hash = Digest(cmd[h].src, f, cmd[h].scheme)
    /\ Out(h, f).arith # NoFile

CompareHash(h, f) ==
    /\ At(h, "circuits") /\ f \in Circ(cmd[h].src) /\ Now(h, f) = "new"
    /\ Mark(h, f, IF Unmodified(h, f) THEN "done" ELSE "modified")
    /\ UNCHANGED dir /\ Quiet

RemoveKey(h, f, x) ==
    /\ At(h, "circuits") /\ f \in Circ(cmd[h].src) /\ Now(h, f) = "modified"
    /\ ~ImportKeys(h)
    /\ x \in KeyFiles /\ Out(h, f)[x] # NoFile
    /\ x = "pk" => Out(h, f).vk = NoFile
    /\ x = "bin" => Out(h, f).pk = NoFile
    /\ Write(h, f, x, NoFile)
    /\ UNCHANGED cmd /\ Quiet

CompileJava(h, f) ==
    /\ At(h, "circuits") /\ f \in Circ(cmd[h].src) /\ Now(h, f) = "modified"
    /\ ImportKeys(h) \/ \A x \in KeyFiles : Out(h, f)[x] = NoFile
    /\ Write(h, f, "java", Digest(cmd[h].src, f, cmd[h].scheme))
    /\ Mark(h, f, "java")
    /\ Quiet

CompileCircuit(h, f) ==
    /\ At(h, "circuits") /\ f \in Circ(cmd[h].src) /\ Now(h, f) = "java"
    /\ Write(h, f, "arith", Out(h, f).java)
    /\ Mark(h, f, "arith")
    /\ Quiet

WriteHash(h, f) ==
    /\ At(h, "circuits") /\ f \in Circ(cmd[h].src) /\ Now(h, f) = "arith"
    /\ Write(h, f, "hash", Digest(cmd[h].src, f, cmd[h].scheme))
    /\ cmd' = [cmd EXCEPT ![h].st[f] = "done", ![h].modified = @ \cup {f}]
    /\ cut' = IF ImportKeys(h) THEN cut ELSE [cut EXCEPT ![h] = @ \ {f}]
    /\ UNCHANGED <<ready, pkg, keyGens, commands, cuts>>

\* Circuits are compiled in parallel, the other loops take one after the other.
NextIn(h, sts) ==
    LET rest == {f \in Circ(cmd[h].src) : Now(h, f) \in sts}
    IN  IF rest = {} THEN NoFile ELSE CHOOSE f \in rest : TRUE

\* Mutation: missing key files are not noticed.
OutdatedIfModified(h) == {f \in Circ(cmd[h].src) : f \in cmd[h].modified}

Outdated(h) ==
    {f \in Circ(cmd[h].src) : f \in cmd[h].modified
                              \/ \E x \in KeyFiles : Out(h, f)[x] = NoFile}

\* Every circuit is there: the keys of the modified ones are generated next.
CircuitsDone(h) ==
    /\ At(h, "circuits") /\ \A f \in Circ(cmd[h].src) : Now(h, f) = "done"
    /\ ImportKeys(h) => KeysComplete(h, cmd[h].src)
    /\ cmd' = [cmd EXCEPT ![h].pc = IF ImportKeys(h) THEN "verifiers" ELSE "keys",
                          ![h].st = [f \in DOMAIN @ |->
                              IF f \in Outdated(h) /\ ~ImportKeys(h) THEN "keys" ELSE "done"]]
    /\ UNCHANGED dir /\ Quiet

\* The snark library reads the circuit and takes fresh randomness.
StartKeyGeneration(h, f) ==
    /\ At(h, "keys") /\ f = NextIn(h, {"keys", "generating"}) /\ Now(h, f) = "keys"
    /\ keyGens' = keyGens + 1
    /\ Write(h, f, "vk", [id |-> keyGens', circ |-> Out(h, f).arith])
    /\ Mark(h, f, "generating")
    /\ UNCHANGED <<ready, cut, pkg, commands, cuts>>

WriteKey(h, f, x) ==
    /\ At(h, "keys") /\ f \in Circ(cmd[h].src) /\ Now(h, f) = "generating"
    /\ x = IF Out(h, f).pk # Out(h, f).vk THEN "pk" ELSE "bin"
    /\ Write(h, f, x, Out(h, f).vk)
    /\ IF x = "bin" THEN Mark(h, f, "done") ELSE UNCHANGED cmd
    /\ cut' = IF x = "bin" /\ {Out(h, f).java, Out(h, f).arith} = {Digest(cmd[h].src, f, cmd[h].scheme)}
              THEN [cut EXCEPT ![h] = @ \ {f}] ELSE cut
    /\ UNCHANGED <<ready, pkg, keyGens, commands, cuts>>

KeysDone(h) ==
    /\ At(h, "keys") /\ \A f \in Circ(cmd[h].src) : Now(h, f) = "done"
    /\ Goto(h, "verifiers")
    /\ UNCHANGED dir /\ Quiet

WriteVerifier(h, f) ==
    /\ At(h, "verifiers") /\ f = NextIn(h, {"done"})
    /\ dir' = [dir EXCEPT ![h].ver[f] = [vk |-> Out(h, f).vk, pk |-> Out(h, f).pk,
                                         scheme |-> cmd[h].scheme]]
    /\ Mark(h, f, "written")
    /\ Quiet

Finish(h) ==
    /\ At(h, "verifiers") /\ \A f \in Circ(cmd[h].src) : Now(h, f) = "written"
    /\ cmd' = [cmd EXCEPT ![h] = Idle]
    /\ ready' = [ready EXCEPT ![h] = TRUE]
    /\ UNCHANGED <<dir, cut, pkg, keyGens, commands, cuts>>

\* What the end of the command leaves as if it were complete: a new circuit beside
\* the hash of the old one, three key files of two generations. Keys that were
\* imported before a contract was compiled belong to the contract.zkay they came with.
Replaced(h) ==
    {f \in Circ(cmd[h].src) :
        \/ Now(h, f) \in {"java", "arith"} /\ Out(h, f).hash # NoFile
        \/ Now(h, f) = "generating" /\ \A x \in KeyFiles : Out(h, f)[x] # NoFile}

Torn(h) ==
    (IF At(h, "circuits") \/ At(h, "keys") THEN Replaced(h) ELSE {})
    \cup (IF At(h, "analysis") \/ At(h, "manifest") THEN {"contract.zkay"} ELSE {})
    \cup (IF At(h, "analysis") /\ cmd[h].kind = "compile" /\ dir[h].sol = NoFile
          THEN {f \in Names : \E x \in KeyFiles : Out(h, f)[x] # NoFile} ELSE {})

\* The process is killed, or an exception ends it: a source that does not
\* compile, a subprocess that fails.
CutOff(h) ==
    /\ cmd[h] # Idle /\ cuts < MaxCuts
    /\ cuts' = cuts + 1
    /\ cut' = [cut EXCEPT ![h] = @ \cup Torn(h)]
    /\ cmd' = [cmd EXCEPT ![h] = Idle]
    /\ UNCHANGED <<dir, ready, pkg, keyGens, commands>>

\* An exception ends an import: the directory is removed.
ImportFails(h) ==
    /\ cmd[h] # Idle /\ cmd[h].kind = "import" /\ cuts < MaxCuts
    /\ cuts' = cuts + 1
    /\ dir' = [dir EXCEPT ![h] = EmptyDir]
    /\ cut' = [cut EXCEPT ![h] = {}]
    /\ cmd' = [cmd EXCEPT ![h] = Idle]
    /\ UNCHANGED <<ready, pkg, keyGens, commands>>

CircuitStep(h, f) ==
    \/ CompareHash(h, f) \/ \E x \in KeyFiles : RemoveKey(h, f, x)
    \/ CompileJava(h, f) \/ CompileCircuit(h, f) \/ WriteHash(h, f)
KeyStep(h, f) ==
    \/ StartKeyGeneration(h, f) \/ \E x \in KeyFiles : WriteKey(h, f, x)
CompileStep(h) ==
    \/ WriteSolidity(h) \/ WriteManifest(h) \/ CircuitsDone(h) \/ KeysDone(h) \/ Finish(h)
    \/ \E f \in Names : CircuitStep(h, f) \/ KeyStep(h, f) \/ WriteVerifier(h, f)

ExtractStep(h) ==
    \/ ExtractManifest(h) \/ EndExtraction(h)
    \/ \E f \in Names, x \in KeyFiles : ExtractKey(h, f, x)

CompNext(h) ==
    \/ h \in Developers /\ \E p \in Projects : Compile(h, p[1], p[2])
    \/ Export(h) \/ Import(h) \/ ExtractStep(h) \/ CompileStep(h) \/ CutOff(h) \/ ImportFails(h)
=============================================================================

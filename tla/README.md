# A TLA+ model of zkay

zkay compiles contracts with private values (`.zkay`) to Solidity contracts that
store cipher texts and check zero-knowledge proofs, and to Python programs that
simulate a function call locally, encrypt, prove and send the transaction.  This
directory holds TLA+ modules for the parts of zkay whose behaviour depends on
order, failure or sequence, TLC configurations that check them on small
instances, and TLAPS proofs for all instances.  Paths below are relative to
`src/zkay/` unless they start with `src/`.

## 1. Inventory

| part | state | operations | what makes it correct |
|---|---|---|---|
| **Keystore** (`transaction/interface.py`, `transaction/crypto/*`, `transaction/runtime.py`) | key files below `data_dir`; `local_key_pairs` and `local_pk_store` of each process | `initialize_keys_for`, `add_keypair`, `getPk`, `sk`, `pk`, `Runtime.reset`, end and start of a process | the key a process uses is the announced one; a cached key is still the announced one |
| **PKI contract** (`compiler/privacy/library_contracts.py`) | `pks`, `hasAnnounced` | `announcePk`, `getPk` | a key somebody encrypted with never changes |
| **Contract simulator** (`transaction/offchain.py`, the code emitted by `compiler/privacy/offchain_compiler.py`) | `StateDict`, `LocalsDict`, `is_external`, `all_priv_values`, `current_all_index`, `msg`/`block`/`tx` | user call, internal call, return, exception; fetch of a state variable; encryption, decryption, homomorphic operations; proof; transaction | the transaction sent has the effect of the function; nothing of one call reaches the next |
| **Blockchain interface** (`transaction/interface.py`, `transaction/blockchain/web3py.py`) | connection, `_pki_contract`, `_lib_addresses` | `transact`, `call`, `req_state_var`, `deploy`, `connect`, integrity checks | errors are told apart from successes; only contracts that match the local sources are used |
| **Contract on the chain** (generated by `compiler/privacy/transformation/*`) | storage (cipher texts and public values) | the external wrappers: gather keys and inputs, verify, run the body | serialisable, owners can read their values |
| **Contract transformation** (`compiler/privacy/transformation/*`, `circuit_generation/circuit_helper.py`) | circuit inputs and outputs, cached inputs, requested keys, guards | one visitor method per kind of statement | circuit, contract and simulation agree on every input and its position |
| **Static analyses** (`zkay_ast/analysis/*`) | partition state, sets of read and modified values, call graph, function kinds | transfer function per statement, fixpoints | an alias that is reported holds in every execution; no program with an undefined evaluation order is accepted |
| **Type system** (`type_check/*`) | labels of expressions | one rule per expression | no private value reaches another label unannounced |
| **Circuit compilation** (`circuit_generation/circuit_generator.py`, `backends/jsnark_generator.py`) | circuit files, keys, hashes, verification contracts | generate, compare hashes, make keys, write verifiers | keys and verifier always belong to the circuit beside them |
| **Ciphers** (`transaction/crypto/*`) | none beyond keys | encrypt, decrypt, combine, pack | decryption inverts encryption |
| **Front end** (`zkay_frontend.py`, `config*.py`, `__main__.py`, manifest) | global configuration | compile, package, connect, deploy | everything runs with the configuration the contract was compiled with |

How they interact.  A user's process calls a method of a generated
`ContractSimulator`.  The function contexts (`_function_ctx`,
`api_function_ctx`) reset its state; the body reads state variables through the
`StateDict`, which requests each of them from the node; encryption asks the
keystore, which asks the PKI contract; the prover gets the secret inputs that
the nested functions have serialised into one array; `transact` hands the
transaction to the node and waits for the receipt.  The contract on the chain
gathers the same inputs from its current storage and the PKI and calls the
verification contract.  Several processes share the chain and nothing else; one
process is sequential, so concurrency is between processes and the chain.

Hard behaviours: requests that see different blocks; transactions of others
between simulation and execution; transactions that are executed after the
sender was told of a timeout; processes that end between two steps; requests
whose failures look like answers; exceptions in nested contexts.  PROJECT.json
lists them under `hazards`, each with its line and the properties aimed at it.

## 2. Layers and plan

Four groups of modules, one for each place where zkay's behaviour is decided.
`A <- B` reads "B EXTENDS A".

| group | modules | run |
|---|---|---|
| users and chain | `Keystore` <- `ZkayTx`, which implements `PlainContract` | `keystore*`, `zkaytx` |
| simulator of one user | `FunctionContext` | `function_context*` |
| projects | `Compilation` <- `Deployment` | `deployment` |
| one contract, compiled | `PartitionState` (used by `PrivacyTypes`) ; `PrivacyTypes` <- `CircuitHelper` <- `ContractTransformation` <- `Execution` <- `PrivateContract` | `circuit*` |
| analyses of the compiler | `PartitionState` <- `AliasAnalysis`; `FunctionAnalyses`, `NumberTypes` <- `Expressions` | `alias_*`, `expressions` |

`Recursion` has what the proofs need of recursive functions; the modules named `..._proofs`
hold the theorems of section 5.

`ZkayTx` takes the circuit of a function as an ideal relation between its inputs
and outputs; `PrivateContract` is where that relation is built by the compiler's
own steps and compared to the source contract.  `FunctionContext` refines what
`ZkayTx` takes as one step "the body was simulated".  `Compilation` makes the
keys that `Deployment` and, idealised, `ZkayTx` rely on.

Left for later:

`for` and `do`-`while` statements, constructors and returned values in
`ContractTransformation`; the clock and the other values of a block in
`ZkayTx`.

## 3. Modules

### Keystore

One crypto backend.  A *host* is a data directory with the process that uses it;
`Accounts[h]` are the accounts for which keys are initialised there.

| model | code |
|---|---|
| `keyFile[h][u]` | the file `_generate_or_load_key_pair` writes and reads |
| `pairs`, `cache` | `local_key_pairs`, `local_pk_store` (interface.py:446-450) |
| `pki[u]` | `pks` and `hasAnnounced` of the PKI contract |
| `annPool` | `announcePk` transactions that the node holds |
| `initPc` | where `initialize_keys_for` is: its requests and transactions are separate steps |
| `AddKeypair` | skip known accounts, load or generate, store the pair (before anything is announced) |
| `RequestAnswered`, `RequestFails` | `req_public_key`; every failure becomes `BlockChainError`, so it may fail in any state of the PKI |
| `AnnouncePublicKey`, `AnnounceConfirmed`, `AnnounceFails` | the announcement, its receipt, and its failure or timeout |
| `AnnouncePk` | the contract executes it, in any order, also long after the sender gave up |
| `GetPk` | `getPk` for an address that is not cached |
| `RestartKeystore` | the process ends or `Runtime.reset` is called: only files survive |

A key pair is identified with its public key.  Key generation never makes a key
a file holds already (`FreshKeys`).  Not modelled: an account that is used with
its key outside zkay, a key file that is only partly written, keys that are
deleted from disk.

### PlainContract

What zkay promises: the functions of the source contract run one at a time on
plain values.  It has one variable, `store`, and one action.

### ZkayTx

Function calls from the user's call to the block that contains the transaction.

| model | code |
|---|---|
| session `<<h, u>>` | a `ContractSimulator` of account `u` in the process of `h` |
| `snap`, `half` | the `StateDict`, and the cipher text whose first chunk was requested |
| `call`, `phase` | the function under way; simulating or waiting for the receipt |
| `FetchPublic`, `FetchFirstChunk`, `FetchOtherChunks` | `StateDict.__get` and `_req_state_var`: one request for each chunk of a cipher text (offchain.py:453) |
| `FetchKey` | `getPk` through the keystore |
| `Outputs`, `Provable`, `Transact` | results encrypted for their owners, proof, `transact` |
| `Abort`, `ReceiveReceipt`, `ReceiptTimeout` | an exception before the transaction, its receipt, an exception while waiting |
| `Execute`, `Revert` | the external wrapper on the chain: require statements, gathering of keys and inputs, verification, assignment of the outputs |
| `Restart` | the process ends at any point |

A call is a record: the locations that are inputs and outputs of its circuit and
those its public part reads and writes.  `Guard` and `Eff` are the require
statements and the effect on plain values; `EffAssumption` says that the circuit
depends on its inputs only and the public part on public values only.  A cipher
text is a record of key, value and randomness: decryption and proofs are ideal.
Chunks that were fetched from different blocks are `Torn`, a value equal to no
cipher text.  Transactions of one account are executed in the order they were
sent (their nonces); otherwise the chain picks any.  Calls use neither `block`
nor `tx`, no currency is sent and gas never runs out, so a transaction can
revert only in a require statement or in the verification of its proof.  `since`, `ticket` and `at`
are history for the properties.  `MaxTxs` bounds the number of transactions.

### FunctionContext

The contexts of one simulator: `isExternal`, `priv` and `index` are
`is_external`, `all_priv_values` and `current_all_index`; `stack` is the Python
call stack, each frame with what its context managers saved.  `Size` and
`Offset` are the sizes of `_compute_transitive_circuit_io_sizes` and the
`sec_start_offset` of `transform_internal_calls`; `Layout` is the order in which
the circuit takes the inputs (`call_function` in circuit_helper.py steps into
the called circuit).  A body calls its callees in program order; each may be
skipped (a branch that is not taken), and an exception may be raised anywhere.
`__call_ctx` has no `finally` (offchain.py:496-502), so `Unwind` leaves the
index where it is and only the user's context resets it.  A secret input is
named by the call path of the function that provides it.

The sizes and the layout are recursive functions, on programs in which no function
with a circuit can reach itself (`NoRecursion`): `NonInlineableCallDetector`
(hybrid_function_detector.py:71) rejects the others.

### PartitionState and AliasAnalysis

`PartitionState` is the class of the same name: a set of disjoint sets of labels,
the labels of one part being known to be equal.  In `AliasAnalysis`, `AfterAnalysis[s][P]` is
the `after_analysis` that `alias_analysis.py` computes for statement `s` from its
`before_analysis` `P`; `AfterBy` has one case for each visitor method.  Next to it is a
small-step execution of the same program on addresses.  A task on `todo` is a statement with the
`before_analysis` the compiler attached to it and the place in it that is reached (its start, its
condition, what follows its body, its end), so at each step of an execution
the model knows what the compiler believes there (`Known`).

| model | code |
|---|---|
| `Moves`, `AfterRequire`, `Guarded` | `recursive_assign`, `recursive_merge`, `GuardConditionAnalyzer` |
| `Separated`, `SeparateAll`, `Effects` | `separate_all` after `has_side_effects` |
| `LoopHead`, `ForHead`, `BeforeCond`, `BeforeBody` | `before_analysis` of the parts of `visitWhileStatement` and its siblings |
| `AfterIf`, `AfterWhile`, `AfterFor`, the other cases of `AfterBy` | their `after_analysis` |
| `AssignmentStatement` ... `ReturnStatement` | execution in Solidity (external): conditions are any value where they are no comparison of owners |

Statements are nested records, a sequence of them a list of `first` and `rest`.
`WellFormed` says what the parser and the compiler of Solidity accept: each statement has a *scope*, the names
declared so far, those of its own and of outer blocks that are not, and whether it is in a loop.  A `final` variable has no
assignment: only constructors may assign one, and they are not modelled.
`Judged` names the statements the analysis misjudges (see the defects in section 4); `AliasesHold`
is about programs without them.

### Compilation

One project directory for each host, its files, and the command that runs in it.
A compilation writes `contract.zkay`, `contract.sol`, the manifest, then circuit by
circuit the Java code, the compiled circuit and the hash, then keys and
verification contracts; each write is a step, and `CutOff` ends the command
between any two of them.  `Unmodified` is the comparison of hashes at
jsnark_generator.py:249, `RemoveKey` removes one file at a time, `Outdated` decides
whose keys are generated.  `Export` puts source, manifest and keys into an archive, whole
(the code makes it in a temporary directory and renames it, zkay_frontend.py:312-319).  An import opens it (`Import`) and extracts one file after
the other (`ExtractManifest`, `ExtractKey`, `EndExtraction`), then compiles.  An import that ends with an exception
removes the directory (`ImportFails`); one that is killed, also in the middle of the extraction, leaves
it, and a contract that is compiled there next finds the imported keys.  If that compilation ends before there is a
`contract.sol`, the next `connect` compiles again and takes these keys for its own; `Torn` counts
them among the files replaced in part.  The others it counts (`Replaced`) are a new Java file or circuit
beside the hash of the old one, and three key files of which not all are of the new generation; where the old
hash or one of the keys is still missing the next command sees that the work is not done.  A circuit is identified by its `Digest`; a key by the number of its
generation and its circuit.

### Deployment

A session is a process that has loaded a manifest (`Runtime`, `config.py`): its
compiler settings, the PKI and library addresses of `Web3Blockchain`, the
operation under way.  `InitializeKeys`, `DeployVerifier`, `DeployMain` are the steps of
`deploy`; `StartConnect`, `ConnectPki`, `ConnectContracts` those of `connect` with
its integrity checks.  Each of them may fail (`Fails`), and what the session has
changed until then stays changed: `NotConnected` lists the states in which
`_connect_libraries` can leave it.  `cut` and `stuck` are history: what was cut off
while it was replaced, and whether something was raised inside
`library_compilation_environment`.  `Others` are contracts that somebody deployed without
the project; like all contracts they refer to verification contracts that were there before
them (`WellFormed`).

### PrivacyTypes

The type checker on labels: `Typed`, `AsExpected` (`get_rhs`), `TryRehom`, the
overloads of homomorphic operations, reveals and their insertion, `Comply`
(where an expression is evaluated), private conditions (`PrivateIfAllowed`) and
what may be inlined into a circuit.  Functions are taken to be well typed in their
data types; `NumberTypes` has those.  `code` holds the functions of the contract as they are
parsed, `ast` the same functions checked (`Check`: the type checker and the analyses after
it).  A contract in which an error was found (`Accepted` is false) goes no further.

### CircuitHelper, ContractTransformation

The state of a `CircuitHelper` is a record threaded through expressions and
statements: `phi`, inputs, outputs, temporary values, cached versions of variables
(`rmap`), keys requested for the whole function and for a statement (`dyn`),
statements that have to go first (`pre`), called circuits.

| model | code |
|---|---|
| `Visit` | the visitors of a helper, which call one another through `visit`: `ZkayExpressionTransformer` (`XF`) and `ZkayCircuitTransformer` (`CF`, `CircuitBlock`) |
| `AddInput`, `CircuitOutput`, `RequireKey`, `EnsureEncryption` | `add_to_circuit_inputs`, `_get_circuit_output_for_private_expression`, `_require_public_key_for_label_at`, `_ensure_encryption` |
| `Invalidate`, `NewVersion`, `JoinKeys`, `LeaveScope` | invalidation and `name_remapper.py`; a version is the circuit value itself |
| `TransformedStatement` and its cases | `ZkayStatementTransformer` |
| `CompiledFunctions`, then `Linked` (`Start`, `AllKeys`, `HasWrapper`, ...), in one step `Transform` | `transform_contract`, `internal_call_transformer.py` |

### Execution, PrivateContract

`contract` holds the compiled functions.  `Execution` gives them three meanings: `SourceCall` on plain values,
`Wrapper("simulate", ...)` as the Python code does it, and `Wrapper("chain", ...)`
with the outputs given.  `Satisfying` enumerates the secret values that fulfil the
constraints of a circuit; a guard that is false asserts nothing.  Cipher texts
record key pair, stored sender and value.  `PrivateContract` is the state machine
of one contract: `Check`, `Transform`, `Deploy` (the constructor), then for each call a simulation, then an execution with the outputs of the simulation or with others
(`OutputsSent` changes one of them), accepted if `Verified`.

### FunctionAnalyses

The analyses of `process_ast` that follow calls, one function at a time, in the order
the code visits them: `Search` and `EndSearch` (call_graph.py), `DetectDynamicBody`,
`PropagateSets` and `CheckEvalOrder` (side_effects.py), `DetectInlineable` and
`CheckCompliance` (circuit_compatibility_checker.py), `DetectHybrid`
and `CheckLoops` (hybrid_function_detector.py, loop_checker.py), `PropagateHoms`
and `SetBackends` (used_homomorphisms.py).  Summaries are completed in place, so
a step may look at finished and unfinished ones; which element a worklist yields is
open, as it is for a Python set.  An operation or a location is written with whether its type can be private (`fits`, `CircuitVars`), which
decides whether a function fits into a circuit.  A key of a mapping stands for one occurrence of
a key expression: the code compares expressions as objects, so only `me` and `all` are equal to
themselves elsewhere (ast.py:2014).  `Summary` is the reference: what the runs of a function
can do, with `Reached(f)` the smallest set that holds the functions `f` calls and is closed under calls.

### NumberTypes, Expressions

`NumberTypes` has the primitive types of ast.py: which converts to which
implicitly and explicitly, the type both operands of an operation are converted
to, folding of literals (with Python's own division, which rounds down, where the simulator
and the chain round towards zero), and what an operation yields in Python (`Simulated`,
`Convert`), in the EVM (`EvmOp`) and when serialised for a circuit.  In `Expressions` an
accepted program's expression is evaluated by the simulator from left to right and by
the chain in any order of its operands, a private one by its circuit.  Operands are
values, literals and calls, which use and change what the *bodies* of the called functions
allow (`CallReads`, `CallMods`), not what the analysis has found.

## 4. Runs

| run | instance | shows |
|---|---|---|
| `keystore` | 2 hosts with 1 account each, 3 keys | key stability, coherence of the caches, the own key is the announced one |
| `keystore_init` (violation) | same | an account whose announcement failed counts as initialised and is never announced |
| `keystore_announce` (violation) | same | a key is announced although the PKI has one |
| `zkaytx` | 2 hosts with 1 account each, 3 locations, 4 calls, 2 transactions | serialisability, readable storage, reverts only on conflicts, truthful outcomes |
| `function_context` | 5 functions: a wrapper, an internal function that calls another twice with an unverified one between, a view | inputs in place, clean simulators, correct `is_external` |
| `function_context_direct` (violation) | same | after a failed request for `msg`, `block`, `tx` user calls are taken for internal ones |
| `alias_analysis` | 4 labels (a state variable, a final one, a parameter, a local) besides `me` and `all`, 2 addresses, every compound statement after a simple one | what the compiler takes to be equal is equal in every execution |
| `alias_break` (violation) | a `while` loop left by `break` | the negated condition is assumed after the loop although it may hold |
| `deployment` | a developer and an importer, 2 versions of a contract, 2 verifiers, 2 proving schemes, 3 compilations, one cut, 2 sessions, 2 deployments, one failure | kept keys fit, `connect` keeps its guarantee, what was deployed can be connected to |
| `circuit` | 524 contracts whose main function has two statements of a pool of 32 and one that uses what they leave; 2 accounts, plain values modulo 3 | compiled contract does what the source does whatever outputs are sent, honest calls succeed, private values stay private |
| `circuit_mixed` (violation) | a function that adds homomorphically and calls one that encrypts with the symmetric cipher | the wrong key is stored as the sender's |
| `expressions` | 3 functions with calls of every shape; expressions of 2 operands with every operator and of 3 without | analyses end, with exact summaries and ordered lists of backends; circuits are finite; all evaluations of an accepted expression agree |

The bounds.  Keys: a third key lets an account get a second one if the code ever
generated one.  Two transactions suffice for every pairwise conflict: the four
calls read and write each other's inputs in both directions, own and foreign
private locations, public ones through a circuit and without one.  The counter
wraps at 2, so equal plain values with different cipher texts occur.  Three
levels of nesting with one function called twice separate paths from functions
and transitive sizes from own ones.

`alias_analysis`: two addresses suffice to falsify an equality, and one more
statement before a compound one gives it something to lose.  Every statement of its programs is
`Judged` (`JudgedAssumption`), loops with `break`, `continue` and `return` among them.  `deployment`: the
second deployment is one after a failed first one (`SecondAttempt`), so that it starts with what the failure left; an archive
lists its keys in one order (`ArchiveOrder`).  The
verifier `g` has in the second version the circuit `f` had in the first, so
circuits, names and keys can be confused; three compilations allow to go back to
a version; steps of different hosts between two of their operations commute, since they
share only the package and the contracts (`MCNext`).  One cut does not reach the mixture
of files that a killed import and a compilation cut off after it leave; the proofs of section 5 cover it,
as they cover every number of cuts.  `circuit`: two statements
and one that reads their results are what a cached input, an invalidation or a
join of branches needs to go wrong; three plain values tell apart addition,
multiplication and a value that was not updated.  One transaction is enough since the constructor
may store every value for every owner; each contract goes through the compiler as steps of the run, and 452
of the 524 are accepted; `AccountSymmetry` permutes the accounts, which
no constant tells apart.  `expressions`: with three functions there are self recursion, cycles of two
and three, callers of cycles and functions that are visited before and after their callees; a pass
over all functions has to be repeated.  A size of 4 stands for the narrow integer
types, 16 for those of 256 bits, 13 for the order of the field, which lies below
the largest word as the real one does.

Deadlock is checked in the runs of `Keystore`, `ZkayTx` and `FunctionContext`, which go on for
ever or end in states that stutter.  In the others an execution ends: a function body returns, the bound on
commands or transactions is reached, an expression has a value.  `Symmetry` permutes
keys.

What the properties do not say.  `OutcomeTruthful` is about receipts: a user who sees an error, a timeout
among them, learns nothing of the transaction.  In `Deployment` an operation gives up the contract of the one before it, so
nothing is said of an older handle that goes on with the PKI a later `connect` has set.  The pool of `circuit` hardly contains
a statement that encrypts with two backends for one owner who is not known statically, so the cache of
requested keys, which has the label alone for its index, is not tried with them.  In the pool of `expressions` two literals are
neither divided nor shifted to the left.

### Findings

* `InitializedMeansAnnounced` fails: `add_keypair` stores the pair
  (interface.py:460) before the announcement that may fail, and
  `initialize_keys_for` skips accounts with a stored pair.  A restart repairs it.
* `AnnounceOnlyIfMissing` fails: the `except BlockChainError` at
  interface.py:464 catches every failure of the request.  It is harmless while
  the key file survives, as `PkiKeyStable` shows.
* `DirectMeansExternal` fails: `update_special_variables` (offchain.py:513) is
  called before the `try` that would restore `is_external`.
* `ConditionFalseAfterLoop` fails: `visitWhileStatement` joins two states that both
  assume the negated condition (alias_analysis.py:97), and `break` is no part of
  the join.
* `SenderIsStored` fails: an internal function looks for the sender's key at its
  position among its own keys, in the array of the caller (zkay_contract_transformer.py:373).

Defects the passing runs leave out, each named where it is excluded:

| where | what | how it is left out |
|---|---|---|
| alias_analysis.py:270 | the targets of a tuple are moved one after the other, so a target that is the source of a later one (a swap) is read too late | `Judged` |
| alias_analysis.py:78 | an `if` without `else` whose condition has side effects joins with the state before the condition | `Judged` |
| alias_analysis.py:97, 117, 142 | the state after a loop is that of a loop that ends when its condition is false after a whole body: `continue` misleads it in `do`-`while` and `for`, `break` there and in a `while` whose negated condition says something about owners | `Judged`, `ExitsOf` |
| alias_analysis.py:141, partition_state.py:68 | a `for` without initialisation, and a merge of a label that is tracked with one that is not, raise an error of Python | the first is not `WellFormed`; `TypeOK` shows that the second does not happen |
| zkay_frontend.py:97 | an interrupted command leaves a `contract.zkay` beside files of another version; an export packages whatever lies there | `cut`, in the properties named `...UnlessCut` |
| zkay_frontend.py:356 | a killed import leaves its directory; a contract compiled there and cut off before `contract.sol` is written is completed by `connect` with the imported keys of the other contract | `cut`, in the properties named `...UnlessCut` |
| jsnark_generator.py:249-257 | the new circuit is written before its hash: cut off in between, and with the old version compiled next, the old hash matches and keys are made for the wrong circuit | `Replaced` in `Torn`: `cut`, in the properties named `...UnlessCut` |
| config.py:89 | the settings for libraries stay after an exception | `stuck`, in `ConnectableUnlessStuck` |
| side_effects.py:133, ast.py:2014 | two operands after the first that modify the same value; elements of a mapping under two key expressions with one value (any two occurrences of a key but `me` and `all`) | `OrderMissed` in `SimulationAgrees` |
| offchain_compiler.py:589 | shifts are not cut off to the type; comparisons in circuits of values that exceed the field | `RangeMissed` in `SimulationAgrees` |
| docs/language.rst:95, `can_be_private` | division of private values is documented as unsupported but accepted | not in the pool |
| zkay_transformer.py:187-207 | loops leave cached inputs of variables they modify | the loop of the pool contains public code only and is the first statement of its function |
| zkay_transformer.py:345-373 | a called function with a circuit of its own does not drop cached inputs; a short-circuit operand does not restore them | callees in the pool with a circuit modify no cached variable; operands of `either` and `lazy` cache none that is used later |

### Fairness

`Terminates` is checked under `WF_allVars(ExprNext)`: the compiler and a
simulation are sequential programs that go on with their next step while there is one, and
the chain executes a transaction once it is issued in this module.  The other modules assume no fairness
and have safety properties only: requests may fail for ever, a transaction may never be mined,
a command may be cut off.

## 5. Proofs

`Keystore_proofs` and `ZkayTx_proofs` prove for every number of
hosts, accounts, keys, locations, calls and transactions; `Deployment_proofs` for every
number of hosts, sources, verifiers, schemes, commands, sessions, cuts and failures;
`FunctionContext_proofs` and `FunctionAnalyses_proofs` for every program; `AliasAnalysis_proofs` for every
well-formed program and any labels and addresses, finite or not; `Expressions_proofs` for all expressions
of any depth and integer types of any even sizes and every field order below the largest:

| theorem | states | assumes beyond the module's assumptions |
|---|---|---|
| `KsTypeCorrect` | `KsTypeOK` | - |
| `KeyStability` | `PkiKeyStable` | `OneHome` |
| `CacheCorrect` | `CacheCoherent` | `OneHome` |
| `OwnKeyCorrect` | `OwnKeyAnnounced` | `OneHome` |
| `RefinesKeystore` | every behaviour of `ZkayTx` is one of `Keystore` | - |
| `TypeCorrect` | `TypeOK` | - |
| `ImplementsPlain` | `Serializable` | - |
| `OwnersCanRead` | `Decryptable` | `OneHome` |
| `UsersAreToldTheTruth` | `OutcomeTruthful` | - |
| `RevertsAreConflicts` | `RevertOnlyOnConflict` | `OneHome` |
| `CleanBetweenCalls` | `CleanWhenIdle` | - |
| `ExternalIsDirect` | `DirectMeansExternalUnlessRefused` | - |
| `InputsInPlace` | `ProofInputsInPlace` | - |
| `ContextTypes` | `TypeOK` of `FunctionContext` | - |
| `Deployments` | `DepInv`, the invariant the next four follow from | - |
| `DeploymentTypes` | `TypeOK` of `Deployment` | - |
| `KeysFit` | `KeysFitUnlessCut` | - |
| `ConnectGuarantee` | `ConnectGuaranteeUnlessCut` | - |
| `Connectable` | `ConnectableUnlessStuck` | - |
| `Analyses` | `AnalysisInv`, the invariant the next two follow from | - |
| `Summaries` | `SummariesExact` | - |
| `FiniteCircuits` | `CircuitsAreFinite` | - |
| `Backends` | `BackendsListed` | - |
| `Serialization` | `SerializedAlike` | - |
| `ExpressionTypes` | `TypeOK` of `Expressions` | - |
| `Simulation` | `SimulationAgrees` | no private expression divides |
| `AliasTypes` | `TypeOK` of `AliasAnalysis` | - |
| `Aliases` | `AliasesHold` | every statement is `Judged` |
| `InsertSound`, `RemoveSound`, `MoveSound`, `MoveToSeparateSound`, `SeparateSound` | the operation keeps a partition of the labels in scope, and if the state before agrees with an environment, the state after agrees with what the statement makes of it | the labels are in scope |
| `MergeSound` | the same, and every equality that follows from the new one is known | `MayMerge`; that the two owners are equal |
| `JoinSound` | the join agrees with what either side agrees with, and knows all that both know | both sides have the same labels |
| `ConvertInRange`, `ConvertKeepsValues` | a cast of the simulator returns a value of the type, and leaves alone one it can represent | - |
| `ImplicitConversionIsSafe`, `CombinedTypeIsSafe` | implicit conversions, also those of operands to a common type, lose no value | - |
| `SerializedTheSame`, `SerializationRoundTrip` | contract and simulator serialise a value alike; deserialising inverts it below the field order | - |

`OneHome` says that no account is used from two data directories.  It is a real
condition: with two directories each generates its own key, both may be
announced, and all properties that depend on keys fail.

*Keystore.*  The invariant `KsInv` says that files belong to hosts of the
account, that pairs in memory are those of the files, that everything announced
or on its way to the PKI comes from a file of the account's home, and that the
cache agrees with the PKI.  `CacheCoherent` alone is not inductive: a late
announcement could overwrite a cached key unless it is known to be the same.

*ImplementsPlain.*  `TxInv` says of each transaction that its outputs are the
effect of its call on the values among its inputs (`FaithfulTx`) and are sealed
for their owners (`SealedTx`).  When the chain executes it, the verified inputs
are the current storage, so the effect is the one on the current plain values.
Keys play no part, so `OneHome` is not needed.

*OwnersCanRead* combines `TxInv`, the verification of the keys at execution, and
`KeyStability` through `RefinesKeystore`.

*UsersAreToldTheTruth* needs that a ticket of a session that waits refers to its
own transaction and that an executed transaction stays so.

*RevertsAreConflicts.*  Three invariants beyond `TxInv`: `HistoryInv` (no
recorded height lies in the future), `SnapInv` (whatever a simulation has
fetched, a first chunk included, is what the chain stores, or a transaction
executed since the call began has written it) and `PendingInv` (a pending
transaction would be executed now, or something it read was overwritten).
`SnapInv` is what makes `PendingInv` true when a transaction is sent;
`KeyStability` keeps its keys good until it is mined.

*CleanBetweenCalls* and *ExternalIsDirect* rest on `CtxInv`: frame `d` of the
stack has saved the value of `is_external` and the depth of the locals that
belong to depth `d - 1`, so restoring the top frame gives the state of its
caller, whatever ended it.  For these two the index of the secret inputs needs no
invariant: the user's frame resets it.

*InputsInPlace* and *ContextTypes* are about that index, and relate two recursions
over the program that the code does at different times: the compiler adds up sizes to
get the offset of a call, the circuit takes inputs in the order of the call tree.
`InputsInv` adds to `CtxInv`, for a call in which nothing has been raised
(`CallInv`): the index is where the inputs of the function on top start in the
layout of the whole call (`Starts`); every function on the stack was
entered once on its path (`Entered`), so no input is written twice; the
list holds the inputs of exactly the functions that are done (`Filled`).
`ProofInputsInPlace` alone is not inductive, since it is silent until the proof is made.
After a refusal no call gets as far as a proof (`RefusedInv`).  `TypeOK` follows
because the index is a position and not only a result of additions and subtractions:
an exception below leaves it too large, but only the user's frame is left then.
What the proof needs of the sizes:
* a recursive function is defined at every argument (`Recursion`), by taking the least number
  at which it would fail; `NoRecursion` orders functions by such a number, and a
  callee has a smaller one (`CalleesFirst`, `ProgramRecursion`);
* the length of a layout is the size the compiler computed (`Sizes`, `Layouts`);
* the layout of a function is its own inputs and then those of its calls, each segment
  at the offset of `transform_internal_calls` (`Segments`, `OwnInputs`, `ThroughCall`).

Assumed of a program: `ProgramAssumption` (functions without a circuit have no
secret inputs and call none that have) and `NoRecursion`.

*Deployments.*  That keys fit when a command has ended says nothing about a command
under way, and the next command relies on what the last one left.  `CompInv` follows each
directory file by file: `StatusOK` says for each status of a verifier which of its files are
already those of the source being compiled, `Sane` what is true of a verifier nobody works on
(a hash on disk has its Java code, its circuit, and keys of that circuit if there are all three of them), and
`FilesOK` that every verifier that is neither in hand nor in `cut` is sane.  This is why it is right
to reuse keys when the hash has not changed: `RemoveKey` goes before the circuit is compiled, and
the hash is written after it, so a hash stands beside its own circuit and keys of that circuit, or
of none, wherever the command has not been cut off.  It does not hold without `cut`: between the new circuit and its hash
the old hash stands beside the new circuit (jsnark_generator.py:249 among the defects in section 4).
During an extraction `ExtractOK` says that what is there comes from the archive that was opened, and `PackageOK` that what was
exported fits together.
A `connect` that finds no `contract.sol` compiles with the keys that are there; `ImportedOK` says
that they came with `contract.zkay`, and it needs the exception for killed imports in `Torn`:
without it the invariant fails (TLC shows it with two hosts that both compile, `MaxCuts = 2` and
`MaxCommands = 2`), which is how that mixture of files was found.
`SessionInv` adds what a session knows: the verification contracts of an operation under way
are those of its directory (`Verifies`), settings are those of the manifest unless `stuck`, and what
`connect` and `deploy` have handed over still matches the files.  The chain only grows and a contract
refers only to earlier ones (`WellFormed`), so what is said of a contract stays true.

Assumed of the constants: the absence of a file is none of its contents (`NoFileAssumption`), no
verifier is called `contract.zkay`, the contracts of others refer to earlier ones
(`OthersAssumption`), which the chain enforces.

*Analyses.*  Each summary has its own part of `AnalysisInv`, for functions before, at and after
the one that is visited (`Done`):

* called functions: while `f` is searched, what was found lies between what `f` calls and what it
  can reach, and everything found that is no leaf has its callees among what was found; with no
  leaves left it is closed, so it is everything (`CalledOK`);
* dynamic body, inlineable and hybrid: a function takes the conjunction or the disjunction over
  all it can reach, and these are completed in place.  A callee that is finished has a summary of a set
  that lies within that of the caller, since reachability is transitive; so it does not matter which are
  finished (`StaticOK`, `InlineableOK`, `VerifOK`);
* read and modified values: a pass in which nothing has changed yet has closed the functions
  before `at` (`fixed`), so a pass that changes nothing has closed all, and a closed set
  holds what every reachable function does (`SetsOK`);
* homomorphisms: only a function in the worklist can have some that a caller lacks; with an empty
  worklist they are closed along calls (`HomsOK`).  The code puts back only functions that
  have grown, and not the function itself.

`FiniteCircuits` combines the exact summaries with what `CheckCompliance` and `CheckLoops` have
accepted.  `Backends` follows the fold of `used_crypto_backends` through the enumeration: after its first
`n` homomorphisms the list holds the backends of those among them that are used, each once, in the order of
their first use (`Listed`).  Assumed are `ProgramAssumption`, functions are numbered and call only functions of
the program, and `BodyAssumption`, bodies are finite and use homomorphisms of the enumeration.

*Serialization* and *ExpressionTypes* are about the execution of an accepted program.  `StoreInv` says that every
location holds a value its type can represent, whatever the operands evaluated so far have
done: what a call modifies depends on a sum over what it reads, in any order, and `ConvertInRange` brings
it back to the type.  Then both sides start from the same value, and the lemmas about
serialisation apply.  Assumed is `ExpressionAssumption`: initial contents fit the types, programs use declared
variables and their own functions.

*Simulation* compares the simulator, which evaluates operands from left to right, with the chain, which takes
them in any order.  The argument does not go through permutations of the operands:

* the type checker and `EvalOrderUBChecker` have accepted the expression (`ExprAccepted`), the summaries are exact, and
  `OrderMissed` is what the check does not see; together no operand modifies a location that another
  reads or modifies (`OperandsApart`);
* then there is one store `s` such that, whichever operands have been evaluated, each has the value it has
  in `s`, and each location holds what the one operand that modifies it stores from `s`, or what it held in `s` (`Partly`).
  This is kept by any operand that comes next (`NextOperand`), in `ExecutionInv` for the chain and in `SimulationIs` along
  the fold of the simulator; what is left once all are done is unique (`PartlyUnique`);
* from equal operands, chain, circuit and simulator compute equal results: what they compute on differs by
  multiples of the size or of the field order, which sums, differences and products keep (`RemainderOps`); quotients,
  comparisons and shifts are computed from the values the words stand for (`ArithmeticOnWords`, `ComparisonOnWords`,
  `ShiftOnWords`), which the common type can represent (`CombinedRepresents`); a circuit gets each value or
  its word (`CircuitInputs`).

Assumed are `OperandAssumption`, which says what an expression is (an operation on two operands or the arguments of a call,
over values, literals and calls that return integers), and that private values are not divided: the
documentation excludes it (docs/language.rst:95) and what a circuit would compute is not in this repository.

*PartitionState.*  The seven theorems are the soundness of the alias analysis for one operation: `Agrees(P, env)`
says that labels of one part have equal values in `env`.

*AliasTypes* and *Aliases* are about whole programs, and neither property is inductive: they speak of the statement that is
reached, and nothing there says that what the compiler has attached to the statements after
it will be right.
* `Shape` says of the list of tasks that each has a state that is a partition of the labels in its scope
  (`Fits`), and how neighbours are related (`Linked`): the task after the body of a loop continues
  that loop, its end comes after that, and a task in a loop has such a place below it, where `break` and
  `continue` find it.  Each action replaces the first task by tasks that end where it was (`Piece`), or drops
  tasks; `Fits` follows the labels through blocks, declarations and `for` statements.  A name that is not yet
  declared is alone in its part (`Fits`), so a declaration may change its value.
* `Truth` says of each task of the list what will hold when it is reached: what the compiler
  attached to it holds already and no statement before it ends that (`Keeps`, `Stable`), or it follows
  from the state after the statement before it (`Follows`).  A statement
  with side effects is `Stable` only for labels that never change: this is `separate_all`,
  and why the states at the head of a loop must forget what its body may change.  In turn, a step changes no
  more than its statement may (`Mild`).  `break` and `continue` jump over tasks; that the end
  of the loop is `Ready` then is what `Judged` makes sure (`TruthExit`).

The analysis is recursive over statements, conditions, and the elements of tuples.  That `AfterAnalysis`, `Effects`, `Guarded`,
`Results` and `Moves` are what their definitions say comes from `Recursion`, with the depth of a
statement as its rank; what holds of all statements is then proved for one of least depth for which it would fail
(`ShallowestStatement`).  Assumed are `LabelAssumption` and `ProgramAssumption` (`WellFormed`).  Without
`Judged` the theorem is false, and `alias_break` shows one of the programs.

*NumberTypes.*  A cast is a remainder modulo the size, shifted by it where the sign
bit is set; that a size is even (`SizeAssumption`) makes the two halves of a
signed type meet.  The remaining steps are case distinctions over the kinds of types, with one lemma
about remainders of values that are off by one size.

`AnalysisInv`, `StoreInv`, `ExprAccepted`, `ExecutionInv` (with `s` among the initial stores), `CallInv` and `RefusedInv` can be evaluated by TLC, and hold on the instances of
`expressions` and `function_context`.  So can `DepInv` where the keys of an archive are written as a
union of two sets, one for each source: it holds on the instance of `deployment` with one deployment, and
with two hosts that compile, two cuts and two compilations.

Only model-checked, and why:

* `Terminates`: liveness under fairness;
* `TypeOK`, `HonestCallsSucceed` and `RevealsNothing` of `PrivateContract`, and the other properties of `circuit`:
  the transformations from `PrivacyTypes` to `Execution` are `RECURSIVE` operators over statements and
  expressions, in which the compiler's visitors call one another; the provers lose their SMT backend there;
* the five findings, which are counterexamples.

## 6. Not modelled

The grammar, symbol tables and the text the code generators produce: their state
is a tree that no other actor sees.  The arithmetic of ciphers, hashes and proof
systems, taken as ideal; jsnark, libsnark, solc and web3, taken as correct; gas,
fees and chain reorganisations.  Of the language: constructors, structs, enums
as more than numbers, mappings of mappings, payable functions, `for` and `do`-`while`
loops in `ContractTransformation` (they are in `AliasAnalysis`), tuples in
source assignments there.  The command line, user configuration files, and the
contents of packages other than source, manifest and keys.  PROJECT.json says for each
component what is missing.

------------------------------- MODULE ZkayTx -------------------------------
(***************************************************************************)
(* Function calls of a deployed zkay contract, from the simulation in the  *)
(* caller's process to the block that contains the transaction.            *)
(*                                                                         *)
(* A ContractSimulator (one per account and host, here a session) runs the *)
(* function body on values it fetches from the chain one request at a      *)
(* time, encrypts the results for their owners, proves that results and    *)
(* fetched values belong together, and sends a transaction.  The contract  *)
(* on the chain gathers the same circuit inputs from its current storage   *)
(* and from the PKI and rejects a proof made for others.  Sessions, key    *)
(* initialisation, the PKI and the chain interleave freely.                *)
(*                                                                         *)
(* A call c is a record: c.caller; c.reads and c.writes, the locations     *)
(* that are inputs and outputs of its circuit; c.pubReads and c.pubWrites, *)
(* the public locations its public part reads and writes on the chain.     *)
(* Calls use no value of the block and send no currency.                   *)
(***************************************************************************)
EXTENDS Keystore, Naturals, Sequences

CONSTANTS
    Locs,           \* storage locations of the contract
    Owner,          \* Owner[l]: the account that can decrypt l, or All
    All,            \* the privacy label of public locations
    Vals, Zero,     \* plain values, and the value of an unset location
    Rnd,            \* encryption randomness (positive numbers)
    Calls,          \* the function calls
    Guard(_, _),    \* Guard(c, m): the require statements of c hold in m
    Eff(_, _),      \* Eff(c, m)[l]: what c writes to l when it runs in m
    NoCall, NotRead, Torn,  \* not a call; two values no location holds
    MaxTxs          \* bound: transactions sent in a behaviour

VARIABLES
    mem,            \* mem[l]: storage of the contract on the chain
    height,         \* number of transactions executed so far
    txs,            \* all transactions sent, in the order they were sent
    phase,          \* phase[s]: idle, sim (simulating) or await (a receipt)
    call,           \* call[s]: the call the session is in, or NoCall
    snap,           \* snap[s][l]: the StateDict cache of the simulator
    half,           \* half[s][l]: l when the first of its chunks was fetched
    since,          \* since[s]: height when the call began (history)
    ticket,         \* ticket[s]: index in txs of the last transaction sent
    outcome         \* outcome[s]: how the last call ended for its user

txVars == <<mem, height, txs, phase, call, snap, half, since, ticket, outcome>>
vars == <<ksVars, txVars>>

-----------------------------------------------------------------------------

Sessions == {s \in Hosts \X Users : s[2] \in Accounts[s[1]]}

Private(l) == Owner[l] # All

Circuit(c) == c.reads \cup c.writes
Read(c) == c.reads \cup c.pubReads
Written(c) == c.writes \cup c.pubWrites

Plains == [Locs -> Vals]

CallType ==
    [caller: Users, reads: SUBSET Locs, writes: SUBSET Locs,
     pubReads: SUBSET Locs, pubWrites: SUBSET Locs]

ASSUME LocationAssumption ==
    /\ Owner \in [Locs -> Users \cup {All}]
    /\ All \notin Users
    /\ Zero \in Vals
    /\ Rnd \subseteq Nat \ {0}
    /\ MaxTxs \in Nat

ASSUME CallAssumption ==
    /\ Calls \subseteq CallType
    /\ NoCall \notin Calls
    /\ \A c \in Calls :
          /\ \A l \in c.pubReads \cup c.pubWrites : ~Private(l)
          /\ c.writes \cap c.pubWrites = {}

\* The circuit computes from its inputs, the public part from public values.
ASSUME EffAssumption ==
    \A c \in Calls : \A m1, m2 \in Plains :
        /\ Eff(c, m1) \in Plains
        /\ Guard(c, m1) \in BOOLEAN
        /\ (\A l \in c.reads : m1[l] = m2[l]) =>
              \A l \in c.writes : Eff(c, m1)[l] = Eff(c, m2)[l]
        /\ (\A l \in c.pubReads : m1[l] = m2[l]) =>
              /\ \A l \in c.pubWrites : Eff(c, m1)[l] = Eff(c, m2)[l]
              /\ Guard(c, m1) = Guard(c, m2)

\* What a location holds: a cipher text, or a public value (no key, no
\* randomness).  The all-zero cipher text stands for an unset location.
Content == [key: MaybeKey, val: Vals, rnd: Rnd \cup {0}]
Blank == [key |-> NoKey, val |-> Zero, rnd |-> 0]

ASSUME SentinelAssumption ==
    /\ NotRead \notin Content
    /\ Torn \notin Content
    /\ Torn # NotRead

\* v as it is stored at l, when l is private encrypted under k with r.
Stored(l, v, k, r) ==
    IF Private(l) THEN [key |-> k, val |-> v, rnd |-> r]
                  ELSE [key |-> NoKey, val |-> v, rnd |-> 0]

\* Decryption of the contract's whole storage, by all owners together.
PlainMem == [l \in Locs |-> mem[l].val]

\* The accounts whose announced keys are inputs of the circuit of c.
KeyOwners(c) ==
    IF Circuit(c) = {} THEN {}
    ELSE {c.caller} \cup {Owner[l] : l \in {m \in Circuit(c) : Private(m)}}

\* The process of h is not inside a contract function.
CallsIdle(h) == \A s \in Sessions : s[1] = h => phase[s] = "idle"

-----------------------------------------------------------------------------

TxStatus == {"pending", "ok", "reverted"}

TxType ==
    [from: Sessions, call: Calls, ins: [Locs -> Content \cup {NotRead, Torn}],
     keys: [Users -> MaybeKey], outs: [Locs -> Content], status: TxStatus,
     since: Nat, at: Nat]

TypeOK ==
    /\ KsTypeOK
    /\ mem \in [Locs -> Content]
    /\ height \in Nat
    /\ txs \in Seq(TxType)
    /\ phase \in [Sessions -> {"idle", "sim", "await"}]
    /\ call \in [Sessions -> Calls \cup {NoCall}]
    /\ snap \in [Sessions -> [Locs -> Content \cup {NotRead, Torn}]]
    /\ half \in [Sessions -> [Locs -> Content \cup {NotRead}]]
    /\ since \in [Sessions -> Nat]
    /\ ticket \in [Sessions -> Nat]
    /\ outcome \in [Sessions -> {"none", "ok", "failed", "error"}]

Init ==
    /\ KsInit
    /\ mem = [l \in Locs |-> Blank]
    /\ height = 0
    /\ txs = <<>>
    /\ phase = [s \in Sessions |-> "idle"]
    /\ call = [s \in Sessions |-> NoCall]
    /\ snap = [s \in Sessions |-> [l \in Locs |-> NotRead]]
    /\ half = [s \in Sessions |-> [l \in Locs |-> NotRead]]
    /\ since = [s \in Sessions |-> 0]
    /\ ticket = [s \in Sessions |-> 0]
    /\ outcome = [s \in Sessions |-> "none"]

-----------------------------------------------------------------------------
(* The caller's process                                                    *)

\* The user calls a contract function on the simulator.
CallFunction(s, c) ==
    /\ c.caller = s[2]
    /\ CallsIdle(s[1])
    /\ KeysIdle(s[1])
    /\ pairs[s[1]][s[2]] # NoKey
    /\ Len(txs) < MaxTxs
    /\ phase' = [phase EXCEPT ![s] = "sim"]
    /\ call' = [call EXCEPT ![s] = c]
    /\ since' = [since EXCEPT ![s] = height]
    /\ ticket' = [ticket EXCEPT ![s] = 0]
    /\ outcome' = [outcome EXCEPT ![s] = "none"]
    /\ UNCHANGED <<ksVars, mem, height, txs, snap, half>>

\* l is needed by the simulation, not in the StateDict yet, and no other
\* location is half fetched.
MayFetch(s, l) ==
    /\ phase[s] = "sim"
    /\ l \in Read(call[s])
    /\ snap[s][l] = NotRead
    /\ \A m \in Locs : m # l => half[s][m] = NotRead

\* A public location is fetched with one request.
FetchPublic(s, l) ==
    /\ MayFetch(s, l)
    /\ ~Private(l)
    /\ snap' = [snap EXCEPT ![s][l] = mem[l]]
    /\ UNCHANGED <<ksVars, mem, height, txs, phase, call, half, since, ticket,
                   outcome>>

\* A cipher text is fetched with one request per chunk: the first ...
FetchFirstChunk(s, l) ==
    /\ MayFetch(s, l)
    /\ Private(l)
    /\ half[s][l] = NotRead
    /\ half' = [half EXCEPT ![s][l] = mem[l]]
    /\ UNCHANGED <<ksVars, mem, height, txs, phase, call, snap, since, ticket,
                   outcome>>

\* ... and the others.  If the location was written in between, the chunks
\* belong to different cipher texts.
FetchOtherChunks(s, l) ==
    /\ MayFetch(s, l)
    /\ half[s][l] # NotRead
    /\ snap' = [snap EXCEPT ![s][l] = IF mem[l] = half[s][l] THEN mem[l] ELSE Torn]
    /\ half' = [half EXCEPT ![s][l] = NotRead]
    /\ UNCHANGED <<ksVars, mem, height, txs, phase, call, since, ticket, outcome>>

\* The simulation needs the public key of v and requests it from the PKI.
FetchKey(s, v) ==
    /\ phase[s] = "sim"
    /\ v \in KeyOwners(call[s])
    /\ GetPk(s[1], v)
    /\ UNCHANGED txVars

\* The circuit asserts that the caller's secret key belongs to the public key
\* among its inputs and that its own inputs decrypt under it.  Chunks of
\* different cipher texts may still decrypt to something.
Provable(s) ==
    LET c == call[s]
        myKey == pairs[s[1]][s[2]]
    IN  /\ s[2] \in KeyOwners(c) => cache[s[1]][s[2]] = myKey
        /\ \A l \in c.reads :
              (Owner[l] = s[2] /\ snap[s][l] \notin {Torn, Blank})
                  => snap[s][l].key = myKey

\* The plain values the simulation computes with (anything for a torn read).
Simulated(s) ==
    [l \in Locs |-> IF snap[s][l] \in {NotRead, Torn} THEN Zero
                                                     ELSE snap[s][l].val]

\* Mutation: outputs are encrypted under the caller's own key.
OutputsForMe(s, r) ==
    LET c == call[s]
        new == Eff(c, Simulated(s))
    IN  [l \in Locs |-> IF l \in c.writes THEN Stored(l, new[l], cache[s[1]][s[2]], r)
                                         ELSE Blank]

\* The outputs of the circuit, encrypted for their owners.
Outputs(s, r) ==
    LET c == call[s]
        new == Eff(c, Simulated(s))
    IN  [l \in Locs |->
            IF l \in c.writes
            THEN Stored(l, new[l], IF Private(l) THEN cache[s[1]][Owner[l]] ELSE NoKey, r)
            ELSE Blank]

\* The body has been simulated: prove and send the transaction.  (A node that
\* is asked for a gas estimate first may refuse it: that is an Abort.)
Transact(s) ==
    LET c == call[s] IN
    /\ phase[s] = "sim"
    /\ Len(txs) < MaxTxs
    /\ \A l \in Read(c) : snap[s][l] # NotRead
    /\ \A v \in KeyOwners(c) : cache[s[1]][v] # NoKey
    /\ Guard(c, Simulated(s))
    /\ Provable(s)
    /\ \E r \in Rnd :
          txs' = Append(txs,
              [from   |-> s,
               call   |-> c,
               ins    |-> [l \in Locs |-> IF l \in c.reads THEN snap[s][l]
                                                         ELSE NotRead],
               keys   |-> [v \in Users |-> IF v \in KeyOwners(c) THEN cache[s[1]][v]
                                                                ELSE NoKey],
               outs   |-> Outputs(s, r),
               status |-> "pending",
               since  |-> since[s],
               at     |-> 0])
    /\ phase' = [phase EXCEPT ![s] = "await"]
    /\ ticket' = [ticket EXCEPT ![s] = Len(txs) + 1]
    /\ UNCHANGED <<ksVars, mem, height, call, snap, half, since, outcome>>

\* Mutation: the StateDict survives the call.
EndCallKeepingState(s, result) ==
    /\ phase' = [phase EXCEPT ![s] = "idle"]
    /\ call' = [call EXCEPT ![s] = NoCall]
    /\ since' = [since EXCEPT ![s] = 0]
    /\ outcome' = [outcome EXCEPT ![s] = result]
    /\ UNCHANGED <<ksVars, mem, height, txs, snap, half, ticket>>

\* The function context is left: locals and the StateDict are cleared.
EndCall(s, result) ==
    /\ phase' = [phase EXCEPT ![s] = "idle"]
    /\ call' = [call EXCEPT ![s] = NoCall]
    /\ snap' = [snap EXCEPT ![s] = [l \in Locs |-> NotRead]]
    /\ half' = [half EXCEPT ![s] = [l \in Locs |-> NotRead]]
    /\ since' = [since EXCEPT ![s] = 0]
    /\ outcome' = [outcome EXCEPT ![s] = result]
    /\ UNCHANGED <<ksVars, mem, height, txs, ticket>>

\* An exception ends the simulation: a request fails, a require statement does
\* not hold on the fetched values, no proof exists, the estimate is refused.
Abort(s) ==
    /\ phase[s] = "sim"
    /\ EndCall(s, "error")

\* Mutation: the status of the receipt is not looked at.
ReceiveAnyReceipt(s) ==
    /\ phase[s] = "await"
    /\ txs[ticket[s]].status # "pending"
    /\ EndCall(s, "ok")

\* The receipt arrives; status 0 raises TransactionFailedException.
ReceiveReceipt(s) ==
    /\ phase[s] = "await"
    /\ txs[ticket[s]].status # "pending"
    /\ EndCall(s, IF txs[ticket[s]].status = "ok" THEN "ok" ELSE "failed")

\* Waiting for the receipt raises: the call ends with an error for the user
\* while the transaction may still be executed later.
ReceiptTimeout(s) ==
    /\ phase[s] = "await"
    /\ EndCall(s, "error")

-----------------------------------------------------------------------------
(* The chain                                                               *)

\* Transactions of one account are executed in the order they were sent.
NextInLine(i) ==
    /\ txs[i].status = "pending"
    /\ \A j \in 1..(i - 1) :
          txs[j].from[2] = txs[i].from[2] => txs[j].status # "pending"

\* Mutation: operands of homomorphic operations are not bound by the proof.
ProofVerifiesOwnInputs(tx) ==
    /\ \A l \in tx.call.reads : Owner[l] = tx.call.caller => tx.ins[l] = mem[l]
    /\ \A v \in KeyOwners(tx.call) : pki[v] # NoKey /\ tx.keys[v] = pki[v]

\* The proof was made for the inputs the contract gathers now.
ProofVerifies(tx) ==
    /\ \A l \in tx.call.reads : tx.ins[l] = mem[l]
    /\ \A v \in KeyOwners(tx.call) : pki[v] # NoKey /\ tx.keys[v] = pki[v]

Executable(tx) == Guard(tx.call, PlainMem) /\ ProofVerifies(tx)

\* The storage after the contract executed tx.
Updated(tx) ==
    [l \in Locs |->
        IF l \in tx.call.writes THEN tx.outs[l]
        ELSE IF l \in tx.call.pubWrites
        THEN Stored(l, Eff(tx.call, PlainMem)[l], NoKey, 0)
        ELSE mem[l]]

\* The receipt of tx: executed in block h, or reverted after block h.
Settled(tx, result, h) == [tx EXCEPT !.status = result, !.at = h]

Execute(i) ==
    /\ NextInLine(i)
    /\ Executable(txs[i])
    /\ mem' = Updated(txs[i])
    /\ height' = height + 1
    /\ txs' = [txs EXCEPT ![i] = Settled(txs[i], "ok", height + 1)]
    /\ UNCHANGED <<ksVars, phase, call, snap, half, since, ticket, outcome>>

\* A require statement or the verification of the proof fails.
Revert(i) ==
    /\ NextInLine(i)
    /\ ~Executable(txs[i])
    /\ txs' = [txs EXCEPT ![i] = Settled(txs[i], "reverted", height)]
    /\ UNCHANGED <<ksVars, mem, height, phase, call, snap, half, since, ticket,
                   outcome>>

-----------------------------------------------------------------------------

\* Key initialisation on a host whose process is not inside a call.
InitializeKeys(h, u) ==
    /\ CallsIdle(h)
    /\ InitStep(h, u)
    /\ UNCHANGED txVars

MineAnnouncement(a) == AnnouncePk(a) /\ UNCHANGED txVars

\* The process of h dies at any point and is started again.
Restart(h) ==
    /\ RestartKeystore(h)
    /\ phase' = [s \in Sessions |-> IF s[1] = h THEN "idle" ELSE phase[s]]
    /\ call' = [s \in Sessions |-> IF s[1] = h THEN NoCall ELSE call[s]]
    /\ snap' = [s \in Sessions |-> IF s[1] = h THEN [l \in Locs |-> NotRead]
                                             ELSE snap[s]]
    /\ half' = [s \in Sessions |-> IF s[1] = h THEN [l \in Locs |-> NotRead]
                                             ELSE half[s]]
    /\ since' = [s \in Sessions |-> IF s[1] = h THEN 0 ELSE since[s]]
    /\ outcome' = [s \in Sessions |-> IF s[1] = h THEN "none" ELSE outcome[s]]
    /\ UNCHANGED <<mem, height, txs, ticket>>

SessionStep(s) ==
    \/ \E l \in Locs :
          \/ FetchPublic(s, l)
          \/ FetchFirstChunk(s, l)
          \/ FetchOtherChunks(s, l)
    \/ \E v \in Users : FetchKey(s, v)
    \/ Transact(s)
    \/ Abort(s)
    \/ ReceiveReceipt(s)
    \/ ReceiptTimeout(s)

Next ==
    \/ \E s \in Sessions : SessionStep(s) \/ \E c \in Calls : CallFunction(s, c)
    \/ \E i \in 1..Len(txs) : Execute(i) \/ Revert(i)
    \/ \E h \in Hosts, u \in Users : InitializeKeys(h, u)
    \/ \E a \in annPool : MineAnnouncement(a)
    \/ \E h \in Hosts : Restart(h)

Spec == Init /\ [][Next]_vars

-----------------------------------------------------------------------------
(* Properties                                                              *)

\* The contract behaves like the plain contract whose functions run one at a
\* time: no lost update, no write computed from a stale or torn snapshot, no
\* transaction with an effect other than its function has on the plain values.
Plain == INSTANCE PlainContract WITH store <- PlainMem
Serializable == Plain!PlainSpec

\* Whatever is stored at a private location is unset or encrypted under the
\* key announced for its owner, so the owner, and nobody else, can read it.
Decryptable ==
    \A l \in Locs : Private(l) =>
        mem[l] = Blank \/ (mem[l].key # NoKey /\ mem[l].key = pki[Owner[l]])

\* A transaction reverts only if, after its call began, one was executed that
\* wrote something it had read: never because of keys or of the simulation.
\* (Block values and gas, which calls do not use here, are other reasons.)
RevertOnlyOnConflict ==
    \A i \in 1..Len(txs) : txs[i].status = "reverted" =>
        \E j \in 1..Len(txs) :
            /\ txs[j].status = "ok"
            /\ txs[i].since < txs[j].at /\ txs[j].at <= txs[i].at
            /\ Written(txs[j].call) \cap Read(txs[i].call) # {}

\* What a user is told about a call is what the chain did with it.
OutcomeTruthful ==
    \A s \in Sessions :
        /\ outcome[s] = "ok" => txs[ticket[s]].status = "ok"
        /\ outcome[s] = "failed" => txs[ticket[s]].status = "reverted"
=============================================================================

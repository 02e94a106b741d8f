--------------------------- MODULE ZkayTx_proofs ---------------------------
(***************************************************************************)
(* Proofs about ZkayTx, for any contract, any number of hosts, accounts    *)
(* and transactions.                                                       *)
(***************************************************************************)
EXTENDS ZkayTx, Keystore_proofs

-----------------------------------------------------------------------------
(* The keystores and the PKI as a part of the whole                        *)

\* Every step of the system is a step of the keystores, or leaves them alone.
LEMMA NextIsKsNext == [Next]_vars => [KsNext]_ksVars
<1> SUFFICES ASSUME [Next]_vars PROVE [KsNext]_ksVars
  OBVIOUS
<1>1. ASSUME NEW s \in Sessions, NEW v \in Users, FetchKey(s, v) PROVE KsNext
  <2>1. s[1] \in Hosts
    BY DEF Sessions
  <2> QED BY <1>1, <2>1 DEF FetchKey, KsNext
<1>2. ASSUME NEW h \in Hosts, NEW u \in Users, InitializeKeys(h, u) PROVE KsNext
  BY <1>2 DEF InitializeKeys, KsNext
<1>3. ASSUME NEW a \in annPool, MineAnnouncement(a) PROVE KsNext
  BY <1>3 DEF MineAnnouncement, KsNext
<1>4. ASSUME NEW h \in Hosts, Restart(h) PROVE KsNext
  BY <1>4 DEF Restart, KsNext
<1>5. ASSUME NEW s \in Sessions,
             \/ \E c \in Calls : CallFunction(s, c)
             \/ \E l \in Locs : FetchPublic(s, l) \/ FetchFirstChunk(s, l)
                                   \/ FetchOtherChunks(s, l)
             \/ Transact(s) \/ Abort(s) \/ ReceiveReceipt(s) \/ ReceiptTimeout(s)
      PROVE  UNCHANGED ksVars
  BY <1>5 DEF CallFunction, FetchPublic, FetchFirstChunk, FetchOtherChunks,
     Transact, Abort, ReceiveReceipt, ReceiptTimeout, EndCall
<1>6. ASSUME NEW i \in 1..Len(txs), Execute(i) \/ Revert(i)
      PROVE  UNCHANGED ksVars
  BY <1>6 DEF Execute, Revert
<1>7. CASE UNCHANGED vars
  BY <1>7 DEF vars
<1> QED BY <1>1, <1>2, <1>3, <1>4, <1>5, <1>6, <1>7 DEF Next, SessionStep

\* The system uses the keystores and the PKI only as Keystore allows, so what
\* holds for Keystore alone holds in it.
THEOREM RefinesKeystore == Spec => KsSpec
<1>1. Init => KsInit
  BY DEF Init
<1> QED BY <1>1, NextIsKsNext, PTL DEF Spec, KsSpec

-----------------------------------------------------------------------------
(* Type correctness                                                        *)

\* A session that is not idle is in a call of its own account.
InCall ==
    \A s \in Sessions : phase[s] # "idle" => call[s] \in Calls

TxTypeOK ==
    /\ mem \in [Locs -> Content]
    /\ height \in Nat
    /\ txs \in Seq(TxType)
    /\ phase \in [Sessions -> {"idle", "sim", "await"}]
    /\ call \in [Sessions -> Calls \cup {NoCall}]
    /\ snap \in [Sessions -> [Locs -> Content \cup {NotRead, Torn}]]
    /\ half \in [Sessions -> [Locs -> Content \cup {NotRead}]]
    /\ since \in [Sessions -> Nat]
    /\ ticket \in [Sessions -> Nat]
    /\ outcome \in [Sessions -> {"none", "ok", "failed", "error"}]

TypeInv == KsTypeInv /\ TxTypeOK /\ InCall

LEMMA TypeInvInit == Init => TypeInv
<1> SUFFICES ASSUME Init PROVE TypeInv
  OBVIOUS
<1>1. KsTypeInv
  BY KsTypeInvInit DEF Init
<1>2. Blank \in Content
  BY LocationAssumption DEF Blank, Content, MaybeKey
<1>3. TxTypeOK /\ InCall
  BY <1>2 DEF Init, TxTypeOK, InCall
<1> QED BY <1>1, <1>3 DEF TypeInv

LEMMA StoredType ==
    ASSUME NEW l \in Locs, NEW v \in Vals, NEW k \in MaybeKey, NEW r \in Rnd \cup {0}
    PROVE  Stored(l, v, k, r) \in Content
BY DEF Stored, Content, MaybeKey

LEMMA PlainMemType == TxTypeOK => PlainMem \in Plains
BY DEF TxTypeOK, PlainMem, Plains, Content

LEMMA SimulatedType ==
    ASSUME TxTypeOK, NEW s \in Sessions
    PROVE  Simulated(s) \in Plains
BY LocationAssumption DEF TxTypeOK, Simulated, Plains, Content

LEMMA OutputsType ==
    ASSUME TypeInv, NEW s \in Sessions, call[s] \in Calls, NEW r \in Rnd
    PROVE  Outputs(s, r) \in [Locs -> Content]
<1> DEFINE c == call[s]
           new == Eff(c, Simulated(s))
<1>1. new \in Plains
  BY SimulatedType, EffAssumption DEF TypeInv
<1>2. s[1] \in Hosts
  BY DEF Sessions
<1>3. ASSUME NEW l \in Locs
      PROVE  /\ (IF Private(l) THEN cache[s[1]][Owner[l]] ELSE NoKey) \in MaybeKey
             /\ new[l] \in Vals
  <2>1. new[l] \in Vals
    BY <1>1 DEF Plains
  <2>2. Private(l) => Owner[l] \in Users
    BY LocationAssumption DEF Private
  <2>3. Private(l) => cache[s[1]][Owner[l]] \in MaybeKey
    BY <1>2, <2>2 DEF TypeInv, KsTypeInv, KsTypeOK, KeyTable
  <2> QED BY <2>1, <2>3 DEF MaybeKey
<1>4. Blank \in Content
  BY LocationAssumption DEF Blank, Content, MaybeKey
<1>5. ASSUME NEW l \in Locs
      PROVE  Stored(l, new[l], IF Private(l) THEN cache[s[1]][Owner[l]] ELSE NoKey, r)
                \in Content
  BY <1>3, StoredType
<1> QED BY <1>4, <1>5 DEF Outputs

LEMMA EndCallType ==
    ASSUME TxTypeOK, InCall, NEW s \in Sessions, NEW result \in {"ok", "failed", "error"},
           EndCall(s, result)
    PROVE  TxTypeOK' /\ InCall'
BY DEF TxTypeOK, InCall, EndCall

LEMMA FetchType ==
    ASSUME TxTypeOK, InCall, NEW s \in Sessions, NEW l \in Locs,
           FetchPublic(s, l) \/ FetchFirstChunk(s, l) \/ FetchOtherChunks(s, l)
    PROVE  TxTypeOK' /\ InCall'
<1> USE DEF TxTypeOK, InCall
<1>1. CASE FetchPublic(s, l)
  BY <1>1 DEF FetchPublic
<1>2. CASE FetchFirstChunk(s, l)
  BY <1>2 DEF FetchFirstChunk
<1>3. CASE FetchOtherChunks(s, l)
  BY <1>3 DEF FetchOtherChunks
<1> QED BY <1>1, <1>2, <1>3

\* What Transact(s) sends when it encrypts with randomness r.
Sent(s, r) ==
    LET c == call[s] IN
    [from   |-> s,
     call   |-> c,
     ins    |-> [l \in Locs |-> IF l \in c.reads THEN snap[s][l] ELSE NotRead],
     keys   |-> [v \in Users |-> IF v \in KeyOwners(c) THEN cache[s[1]][v] ELSE NoKey],
     outs   |-> Outputs(s, r),
     status |-> "pending",
     since  |-> since[s],
     at     |-> 0]

LEMMA SentType ==
    ASSUME TypeInv, NEW s \in Sessions, call[s] \in Calls, NEW r \in Rnd
    PROVE  Sent(s, r) \in TxType
<1>1. Outputs(s, r) \in [Locs -> Content]
  BY OutputsType
<1>2. s[1] \in Hosts
  BY DEF Sessions
<1>3. [v \in Users |-> IF v \in KeyOwners(call[s]) THEN cache[s[1]][v] ELSE NoKey]
         \in [Users -> MaybeKey]
  BY <1>2 DEF TypeInv, KsTypeInv, KsTypeOK, KeyTable, MaybeKey
<1>4. [l \in Locs |-> IF l \in call[s].reads THEN snap[s][l] ELSE NotRead]
         \in [Locs -> Content \cup {NotRead, Torn}]
  BY DEF TypeInv, TxTypeOK
<1>5. since[s] \in Nat
  BY DEF TypeInv, TxTypeOK
<1> QED BY <1>1, <1>3, <1>4, <1>5 DEF Sent, TxType, TxStatus

LEMMA TransactType ==
    ASSUME TypeInv, NEW s \in Sessions, Transact(s)
    PROVE  TxTypeOK' /\ InCall'
<1>1. call[s] \in Calls
  BY DEF Transact, TypeInv, InCall
<1>2. PICK r \in Rnd : txs' = Append(txs, Sent(s, r))
  BY DEF Transact, Sent
<1>3. txs' \in Seq(TxType)
  BY <1>1, <1>2, SentType DEF TypeInv, TxTypeOK
<1>4. Len(txs) + 1 \in Nat
  BY DEF TypeInv, TxTypeOK
<1> QED BY <1>1, <1>3, <1>4 DEF Transact, TypeInv, TxTypeOK, InCall

LEMMA UpdatedType ==
    ASSUME TypeInv, NEW i \in 1..Len(txs)
    PROVE  Updated(txs[i]) \in [Locs -> Content]
<1>1. txs[i] \in TxType
  BY DEF TypeInv, TxTypeOK
<1>2. txs[i].call \in Calls /\ txs[i].outs \in [Locs -> Content]
  BY <1>1 DEF TxType
<1>3. Eff(txs[i].call, PlainMem) \in Plains
  BY <1>2, PlainMemType, EffAssumption DEF TypeInv
<1>4. ASSUME NEW l \in Locs
      PROVE  Stored(l, Eff(txs[i].call, PlainMem)[l], NoKey, 0) \in Content
  BY <1>3, StoredType DEF Plains, MaybeKey
<1> QED BY <1>2, <1>4 DEF Updated, TypeInv, TxTypeOK

LEMMA SettledType ==
    ASSUME NEW tx \in TxType, NEW result \in TxStatus, NEW h \in Nat
    PROVE  /\ Settled(tx, result, h) \in TxType
           /\ Settled(tx, result, h).from = tx.from
           /\ Settled(tx, result, h).call = tx.call
           /\ Settled(tx, result, h).ins = tx.ins
           /\ Settled(tx, result, h).keys = tx.keys
           /\ Settled(tx, result, h).outs = tx.outs
           /\ Settled(tx, result, h).status = result
BY DEF Settled, TxType

LEMMA ChainType ==
    ASSUME TypeInv, NEW i \in 1..Len(txs), Execute(i) \/ Revert(i)
    PROVE  TxTypeOK' /\ InCall'
<1>1. txs[i] \in TxType
  BY DEF TypeInv, TxTypeOK
<1>2. CASE Execute(i)
  <2>0. height + 1 \in Nat /\ "ok" \in TxStatus
    BY DEF TypeInv, TxTypeOK, TxStatus
  <2>1. Settled(txs[i], "ok", height + 1) \in TxType
    BY <1>1, <2>0, SettledType
  <2>2. txs' \in Seq(TxType)
    BY <1>2, <2>1 DEF Execute, TypeInv, TxTypeOK
  <2> QED BY <1>2, <2>2, UpdatedType DEF Execute, TypeInv, TxTypeOK, InCall
<1>3. CASE Revert(i)
  <2>1. Settled(txs[i], "reverted", height) \in TxType
    BY <1>1, SettledType DEF TypeInv, TxTypeOK, TxStatus
  <2>2. txs' \in Seq(TxType)
    BY <1>3, <2>1 DEF Revert, TypeInv, TxTypeOK
  <2> QED BY <1>3, <2>2 DEF Revert, TypeInv, TxTypeOK, InCall
<1> QED BY <1>2, <1>3

LEMMA TypeInvNext == TypeInv /\ [Next]_vars => TypeInv'
<1> SUFFICES ASSUME TypeInv, [Next]_vars PROVE TypeInv'
  OBVIOUS
<1>1. KsTypeInv'
  BY NextIsKsNext, KsTypeInvNext DEF TypeInv
<1> SUFFICES TxTypeOK' /\ InCall'
  BY <1>1 DEF TypeInv
<1>2. ASSUME NEW s \in Sessions, NEW c \in Calls, CallFunction(s, c)
      PROVE  TxTypeOK' /\ InCall'
  BY <1>2 DEF CallFunction, TypeInv, TxTypeOK, InCall
<1>3. ASSUME NEW s \in Sessions, SessionStep(s)
      PROVE  TxTypeOK' /\ InCall'
  <2>1. CASE \E l \in Locs : FetchPublic(s, l) \/ FetchFirstChunk(s, l)
                                \/ FetchOtherChunks(s, l)
    BY <2>1, FetchType DEF TypeInv
  <2>2. CASE \E v \in Users : FetchKey(s, v)
    BY <2>2 DEF FetchKey, txVars, TypeInv, TxTypeOK, InCall
  <2>3. CASE Transact(s)
    BY <2>3, TransactType
  <2>4. CASE Abort(s) \/ ReceiveReceipt(s) \/ ReceiptTimeout(s)
    BY <2>4, EndCallType DEF Abort, ReceiveReceipt, ReceiptTimeout, TypeInv
  <2> QED BY <1>3, <2>1, <2>2, <2>3, <2>4 DEF SessionStep
<1>4. ASSUME NEW i \in 1..Len(txs), Execute(i) \/ Revert(i)
      PROVE  TxTypeOK' /\ InCall'
  BY <1>4, ChainType
<1>5. ASSUME UNCHANGED txVars PROVE TxTypeOK' /\ InCall'
  BY <1>5 DEF txVars, TypeInv, TxTypeOK, InCall
<1>6. ASSUME NEW h \in Hosts, Restart(h) PROVE TxTypeOK' /\ InCall'
  BY <1>6 DEF Restart, TypeInv, TxTypeOK, InCall
<1> QED BY <1>2, <1>3, <1>4, <1>5, <1>6 DEF Next, InitializeKeys, MineAnnouncement, vars

\* The state of every session, of the chain and of the keystores stays
\* well-formed: in particular every transaction sent is complete, and only
\* well-formed cipher texts are ever stored.
THEOREM TypeCorrect == Spec => []TypeOK
<1>1. TypeInv => TypeOK
  BY DEF TypeInv, TxTypeOK, TypeOK, KsTypeInv
<1> QED BY <1>1, TypeInvInit, TypeInvNext, PTL DEF Spec

-----------------------------------------------------------------------------
(* Transactions carry what the function computes                           *)

\* The outputs are what the call computes from the inputs of the proof, in
\* whatever state those are the current values.  A torn input has no value.
FaithfulTx(tx) ==
    \A m \in Plains :
        (\A l \in tx.call.reads : tx.ins[l] \in Content /\ m[l] = tx.ins[l].val)
            => \A l \in tx.call.writes : tx.outs[l].val = Eff(tx.call, m)[l]

\* Private outputs are encrypted under the keys the proof binds.
SealedTx(tx) ==
    \A l \in tx.call.writes :
        Private(l) => Owner[l] \in KeyOwners(tx.call)
                        /\ tx.outs[l].key = tx.keys[Owner[l]]

TxInv == \A i \in 1..Len(txs) : FaithfulTx(txs[i]) /\ SealedTx(txs[i])

\* What a step can do to the transactions.
LEMMA TxsStep ==
    ASSUME TypeInv, [Next]_vars
    PROVE  \/ UNCHANGED txs
           \/ \E s \in Sessions, r \in Rnd :
                 Transact(s) /\ call[s] \in Calls /\ txs' = Append(txs, Sent(s, r))
           \/ \E i \in 1..Len(txs), result \in TxStatus, h \in Nat :
                 txs[i].status = "pending"
                   /\ txs' = [txs EXCEPT ![i] = Settled(txs[i], result, h)]
<1> DEFINE P == \/ UNCHANGED txs
                \/ \E s \in Sessions, r \in Rnd :
                      Transact(s) /\ call[s] \in Calls /\ txs' = Append(txs, Sent(s, r))
                \/ \E i \in 1..Len(txs), result \in TxStatus, h \in Nat :
                      txs[i].status = "pending"
                        /\ txs' = [txs EXCEPT ![i] = Settled(txs[i], result, h)]
<1>1. ASSUME NEW s \in Sessions, Transact(s) PROVE P
  <2>1. call[s] \in Calls
    BY <1>1 DEF Transact, TypeInv, InCall
  <2>2. PICK r \in Rnd : txs' = Append(txs, Sent(s, r))
    BY <1>1 DEF Transact, Sent
  <2> QED BY <1>1, <2>1, <2>2
<1>2. ASSUME NEW i \in 1..Len(txs), Execute(i) PROVE P
  <2>1. txs[i].status = "pending"
          /\ txs' = [txs EXCEPT ![i] = Settled(txs[i], "ok", height + 1)]
    BY <1>2 DEF Execute, NextInLine
  <2>2. height + 1 \in Nat /\ "ok" \in TxStatus
    BY DEF TypeInv, TxTypeOK, TxStatus
  <2> QED BY <2>1, <2>2
<1>3. ASSUME NEW i \in 1..Len(txs), Revert(i) PROVE P
  <2>1. txs[i].status = "pending"
          /\ txs' = [txs EXCEPT ![i] = Settled(txs[i], "reverted", height)]
    BY <1>3 DEF Revert, NextInLine
  <2>2. height \in Nat /\ "reverted" \in TxStatus
    BY DEF TypeInv, TxTypeOK, TxStatus
  <2> QED BY <2>1, <2>2
<1>4. ASSUME UNCHANGED txs PROVE P
  BY <1>4
<1>5. ASSUME NEW s \in Sessions, SessionStep(s), ~Transact(s) PROVE UNCHANGED txs
  BY <1>5 DEF SessionStep, FetchPublic, FetchFirstChunk, FetchOtherChunks, FetchKey,
     Abort, ReceiveReceipt, ReceiptTimeout, EndCall, txVars
<1>6. ASSUME NEW s \in Sessions, NEW c \in Calls, CallFunction(s, c)
      PROVE  UNCHANGED txs
  BY <1>6 DEF CallFunction
<1>7. ASSUME \/ \E h \in Hosts, u \in Users : InitializeKeys(h, u)
             \/ \E a \in annPool : MineAnnouncement(a)
             \/ \E h \in Hosts : Restart(h)
             \/ UNCHANGED vars
      PROVE  UNCHANGED txs
  BY <1>7 DEF InitializeKeys, MineAnnouncement, Restart, txVars, vars
<1> HIDE DEF P
<1>8. P
  BY <1>1, <1>2, <1>3, <1>4, <1>5, <1>6, <1>7 DEF Next
<1> QED BY <1>8 DEF P

LEMMA SentFaithful ==
    ASSUME TypeInv, NEW s \in Sessions, call[s] \in Calls, NEW r \in Rnd
    PROVE  FaithfulTx(Sent(s, r))
<1> DEFINE c == call[s]
           tx == Sent(s, r)
           new == Eff(c, Simulated(s))
<1>1. /\ tx.call = c
      /\ tx.ins = [l \in Locs |-> IF l \in c.reads THEN snap[s][l] ELSE NotRead]
      /\ tx.outs = Outputs(s, r)
  BY DEF Sent
<1>2. c.reads \subseteq Locs /\ c.writes \subseteq Locs
  BY CallAssumption DEF CallType
<1>3. Simulated(s) \in Plains
  BY SimulatedType DEF TypeInv
<1>4. ASSUME NEW m \in Plains,
             \A l \in c.reads : tx.ins[l] \in Content /\ m[l] = tx.ins[l].val,
             NEW k \in c.writes
      PROVE  tx.outs[k].val = Eff(c, m)[k]
  <2>1. \A l \in c.reads : m[l] = Simulated(s)[l]
    BY <1>1, <1>2, <1>4, SentinelAssumption DEF Simulated
  <2>2. Eff(c, m)[k] = new[k]
    BY <1>3, <1>4, <2>1, EffAssumption
  <2>3. k \in Locs
    BY <1>2
  <2>4. Outputs(s, r)[k]
          = Stored(k, new[k], IF Private(k) THEN cache[s[1]][Owner[k]] ELSE NoKey, r)
    BY <2>3 DEF Outputs
  <2>5. Outputs(s, r)[k].val = new[k]
    BY <2>4 DEF Stored
  <2> QED BY <1>1, <2>2, <2>5
<1> QED BY <1>1, <1>4 DEF FaithfulTx

LEMMA SentSealed ==
    ASSUME TypeInv, NEW s \in Sessions, call[s] \in Calls, NEW r \in Rnd
    PROVE  SealedTx(Sent(s, r))
<1> DEFINE c == call[s]
           tx == Sent(s, r)
<1>1. /\ tx.call = c
      /\ tx.keys = [v \in Users |-> IF v \in KeyOwners(c) THEN cache[s[1]][v] ELSE NoKey]
      /\ tx.outs = Outputs(s, r)
  BY DEF Sent
<1>2. c.writes \subseteq Locs
  BY CallAssumption DEF CallType
<1>3. ASSUME NEW l \in c.writes, Private(l)
      PROVE  Owner[l] \in KeyOwners(c) /\ tx.outs[l].key = tx.keys[Owner[l]]
  <2>1. l \in Locs /\ Owner[l] \in Users
    BY <1>2, <1>3, LocationAssumption DEF Private
  <2>2. Owner[l] \in KeyOwners(c)
    BY <1>3, <2>1 DEF KeyOwners, Circuit
  <2>3. Outputs(s, r)[l] = Stored(l, Eff(c, Simulated(s))[l], cache[s[1]][Owner[l]], r)
    BY <1>3, <2>1 DEF Outputs
  <2>4. Outputs(s, r)[l].key = cache[s[1]][Owner[l]]
    BY <1>3, <2>3 DEF Stored
  <2> QED BY <1>1, <2>1, <2>2, <2>4
<1> QED BY <1>1, <1>3 DEF SealedTx

LEMMA TxInvNext == TypeInv /\ TxInv /\ [Next]_vars => TxInv'
<1> SUFFICES ASSUME TypeInv, TxInv, [Next]_vars PROVE TxInv'
  OBVIOUS
<1>0. txs \in Seq(TxType)
  BY DEF TypeInv, TxTypeOK
<1>1. CASE UNCHANGED txs
  BY <1>1 DEF TxInv
<1>2. ASSUME NEW s \in Sessions, NEW r \in Rnd, call[s] \in Calls,
             txs' = Append(txs, Sent(s, r))
      PROVE  TxInv'
  <2>1. FaithfulTx(Sent(s, r)) /\ SealedTx(Sent(s, r)) /\ Sent(s, r) \in TxType
    BY <1>2, SentFaithful, SentSealed, SentType
  <2>2. ASSUME NEW i \in 1..Len(txs')
        PROVE  FaithfulTx(txs'[i]) /\ SealedTx(txs'[i])
    <3>1. CASE i \in 1..Len(txs)
      <4>1. txs'[i] = txs[i]
        BY <1>0, <1>2, <2>1, <3>1
      <4> QED BY <3>1, <4>1 DEF TxInv
    <3>2. CASE i \notin 1..Len(txs)
      <4>1. txs'[i] = Sent(s, r)
        BY <1>0, <1>2, <2>1, <2>2, <3>2
      <4> QED BY <2>1, <4>1
    <3> QED BY <3>1, <3>2
  <2> QED BY <2>2 DEF TxInv, FaithfulTx, SealedTx
<1>3. ASSUME NEW i \in 1..Len(txs), NEW result \in TxStatus, NEW h \in Nat,
             txs' = [txs EXCEPT ![i] = Settled(txs[i], result, h)]
      PROVE  TxInv'
  <2>1. txs[i] \in TxType
    BY <1>0
  <2>2. /\ Settled(txs[i], result, h).call = txs[i].call
        /\ Settled(txs[i], result, h).ins = txs[i].ins
        /\ Settled(txs[i], result, h).keys = txs[i].keys
        /\ Settled(txs[i], result, h).outs = txs[i].outs
    BY <2>1, SettledType
  <2>3. FaithfulTx(Settled(txs[i], result, h)) /\ SealedTx(Settled(txs[i], result, h))
    BY <2>2 DEF TxInv, FaithfulTx, SealedTx
  <2>4. Len(txs') = Len(txs)
    BY <1>0, <1>3
  <2>5. ASSUME NEW j \in 1..Len(txs')
        PROVE  FaithfulTx(txs'[j]) /\ SealedTx(txs'[j])
    <3>1. CASE j = i
      <4>1. txs'[j] = Settled(txs[i], result, h)
        BY <1>0, <1>3, <3>1
      <4> QED BY <2>3, <4>1
    <3>2. CASE j # i
      <4>1. j \in 1..Len(txs) /\ txs'[j] = txs[j]
        BY <1>0, <1>3, <2>4, <3>2
      <4> QED BY <4>1 DEF TxInv
    <3> QED BY <3>1, <3>2
  <2> QED BY <2>5 DEF TxInv, FaithfulTx, SealedTx
<1> QED BY <1>1, <1>2, <1>3, TxsStep

LEMMA TxInvInit == Init => TxInv
BY DEF Init, TxInv

-----------------------------------------------------------------------------
(* The chain implements the plain contract                                 *)

LEMMA ExecuteRuns ==
    ASSUME TypeInv, TxInv, NEW i \in 1..Len(txs), Execute(i)
    PROVE  Plain!Run(txs[i].call) /\ txs[i].call \in Calls
<1> DEFINE tx == txs[i]
           c == tx.call
           new == Eff(c, PlainMem)
<1>1. tx \in TxType
  BY DEF TypeInv, TxTypeOK
<1>2. c \in Calls
  BY <1>1 DEF TxType
<1>3. PlainMem \in Plains
  BY PlainMemType DEF TypeInv
<1>4. Guard(c, PlainMem) /\ ProofVerifies(tx) /\ mem' = Updated(tx)
  BY DEF Execute, Executable
<1>5. /\ c.reads \subseteq Locs /\ c.writes \subseteq Locs /\ c.pubWrites \subseteq Locs
      /\ c.writes \cap c.pubWrites = {}
  BY <1>2, CallAssumption DEF CallType
<1>6. \A l \in c.writes : tx.outs[l].val = new[l]
  <2>1. \A l \in c.reads : tx.ins[l] \in Content /\ PlainMem[l] = tx.ins[l].val
    BY <1>4, <1>5 DEF ProofVerifies, PlainMem, TypeInv, TxTypeOK
  <2> QED BY <1>3, <2>1 DEF TxInv, FaithfulTx
<1>7. ASSUME NEW l \in Locs
      PROVE  mem'[l].val = IF l \in Plain!Changed(c) THEN new[l] ELSE PlainMem[l]
  <2>1. CASE l \in c.writes
    BY <1>4, <1>6, <2>1 DEF Updated, Plain!Changed
  <2>2. CASE l \notin c.writes /\ l \in c.pubWrites
    <3>1. mem'[l] = Stored(l, new[l], NoKey, 0)
      BY <1>4, <2>2 DEF Updated
    <3>2. Stored(l, new[l], NoKey, 0).val = new[l]
      BY DEF Stored
    <3> QED BY <2>2, <3>1, <3>2 DEF Plain!Changed
  <2>3. CASE l \notin c.writes /\ l \notin c.pubWrites
    BY <1>4, <2>3 DEF Updated, PlainMem, Plain!Changed
  <2> QED BY <2>1, <2>2, <2>3
<1>8. PlainMem' = [l \in Locs |-> IF l \in Plain!Changed(c) THEN new[l] ELSE PlainMem[l]]
  BY <1>7 DEF PlainMem
<1> QED BY <1>2, <1>4, <1>8 DEF Plain!Run

\* Only the execution of a transaction changes the contract.
LEMMA OnlyExecuteWrites ==
    ASSUME [Next]_vars, \A i \in 1..Len(txs) : ~Execute(i)
    PROVE  UNCHANGED mem
<1>1. ASSUME NEW s \in Sessions, SessionStep(s) PROVE UNCHANGED mem
  BY <1>1 DEF SessionStep, FetchPublic, FetchFirstChunk, FetchOtherChunks, FetchKey,
     Transact, Abort, ReceiveReceipt, ReceiptTimeout, EndCall, txVars
<1>2. ASSUME NEW s \in Sessions, NEW c \in Calls, CallFunction(s, c) PROVE UNCHANGED mem
  BY <1>2 DEF CallFunction
<1>3. ASSUME NEW i \in 1..Len(txs), Revert(i) PROVE UNCHANGED mem
  BY <1>3 DEF Revert
<1>4. ASSUME \/ \E h \in Hosts, u \in Users : InitializeKeys(h, u)
             \/ \E a \in annPool : MineAnnouncement(a)
             \/ \E h \in Hosts : Restart(h)
             \/ UNCHANGED vars
      PROVE  UNCHANGED mem
  BY <1>4 DEF InitializeKeys, MineAnnouncement, Restart, txVars, vars
<1> QED BY <1>1, <1>2, <1>3, <1>4 DEF Next

\* Whatever the sessions fetch, from whichever blocks, and whatever fails: the
\* contract on the chain, decrypted, takes the steps of the plain contract and
\* no others.
THEOREM ImplementsPlain == Spec => Serializable
<1>1. Init => Plain!PlainInit
  <2> SUFFICES ASSUME Init PROVE PlainMem = [l \in Locs |-> Zero]
    BY DEF Plain!PlainInit
  <2> QED BY DEF Init, PlainMem, Blank
<1>2. TypeInv /\ TxInv /\ [Next]_vars => [Plain!PlainNext]_PlainMem
  <2> SUFFICES ASSUME TypeInv, TxInv, [Next]_vars PROVE [Plain!PlainNext]_PlainMem
    OBVIOUS
  <2>1. ASSUME NEW i \in 1..Len(txs), Execute(i) PROVE Plain!PlainNext
    BY <2>1, ExecuteRuns DEF Plain!PlainNext
  <2>2. CASE \A i \in 1..Len(txs) : ~Execute(i)
    BY <2>2, OnlyExecuteWrites DEF PlainMem
  <2> QED BY <2>1, <2>2
<1> QED BY <1>1, <1>2, TypeInvInit, TypeInvNext, TxInvInit, TxInvNext, PTL
        DEF Spec, Serializable, Plain!PlainSpec

-----------------------------------------------------------------------------
(* What is stored can be read by its owner                                 *)

LEMMA ExecuteSeals ==
    ASSUME TypeInv, TxInv, Decryptable, NEW i \in 1..Len(txs), Execute(i)
    PROVE  Decryptable'
<1> DEFINE tx == txs[i]
           c == tx.call
<1>1. c \in Calls
  <2>1. tx \in TxType
    BY DEF TypeInv, TxTypeOK
  <2> QED BY <2>1 DEF TxType
<1>2. ProofVerifies(tx) /\ mem' = Updated(tx) /\ pki' = pki
  BY DEF Execute, Executable, ksVars
<1>3. c.writes \subseteq Locs /\ \A l \in c.pubWrites : ~Private(l)
  BY <1>1, CallAssumption DEF CallType
<1>4. ASSUME NEW l \in Locs, Private(l)
      PROVE  mem'[l] = Blank \/ (mem'[l].key # NoKey /\ mem'[l].key = pki[Owner[l]])
  <2>1. CASE l \in c.writes
    <3>1. Owner[l] \in KeyOwners(c) /\ tx.outs[l].key = tx.keys[Owner[l]]
      BY <1>4, <2>1 DEF TxInv, SealedTx
    <3>2. mem'[l] = tx.outs[l]
      BY <1>2, <2>1 DEF Updated
    <3> QED BY <1>2, <3>1, <3>2 DEF ProofVerifies
  <2>2. CASE l \notin c.writes
    <3>1. mem'[l] = mem[l]
      BY <1>2, <1>3, <1>4, <2>2 DEF Updated
    <3> QED BY <1>4, <3>1 DEF Decryptable
  <2> QED BY <2>1, <2>2
<1> QED BY <1>2, <1>4 DEF Decryptable, Blank, Private

\* If no account is used from two data directories, then everything stored at a
\* private location is encrypted under the key announced for its owner, at any
\* later time too.
THEOREM OwnersCanRead == ASSUME OneHome PROVE Spec => []Decryptable
<1> DEFINE Inv == KsInv /\ TypeInv /\ TxInv /\ Decryptable
<1>1. Init => Inv
  <2> SUFFICES ASSUME Init PROVE Inv
    OBVIOUS
  <2>1. KsInv
    BY KsInvInit DEF Init
  <2>2. Decryptable
    BY DEF Init, Decryptable
  <2> QED BY <2>1, <2>2, TypeInvInit, TxInvInit
<1>2. Inv /\ [Next]_vars => Inv'
  <2> SUFFICES ASSUME Inv, [Next]_vars PROVE Inv'
    OBVIOUS
  <2>1. KsInv'
    BY NextIsKsNext, KsInvNext
  <2>2. TypeInv' /\ TxInv'
    BY TypeInvNext, TxInvNext
  <2>3. Decryptable'
    <3>1. ASSUME NEW i \in 1..Len(txs), Execute(i) PROVE Decryptable'
      BY <3>1, ExecuteSeals
    <3>2. CASE \A i \in 1..Len(txs) : ~Execute(i)
      <4>1. UNCHANGED mem
        BY <3>2, OnlyExecuteWrites
      <4>2. \A u \in Users : pki[u] # NoKey => pki'[u] = pki[u]
        BY NextIsKsNext, PkiStep
      <4>3. \A l \in Locs : Private(l) => Owner[l] \in Users
        BY LocationAssumption DEF Private
      <4> QED BY <4>1, <4>2, <4>3 DEF Decryptable, Private, Blank
    <3> QED BY <3>1, <3>2
  <2> QED BY <2>1, <2>2, <2>3
<1> QED BY <1>1, <1>2, PTL DEF Spec

-----------------------------------------------------------------------------
(* What the user is told                                                   *)

\* A session in a call has told nothing yet; one that waits has a ticket.
TicketInv ==
    \A s \in Sessions :
        /\ phase[s] # "idle" => outcome[s] = "none"
        /\ phase[s] = "await" => ticket[s] \in 1..Len(txs)
        /\ outcome[s] = "ok" =>
              ticket[s] \in 1..Len(txs) /\ txs[ticket[s]].status = "ok"
        /\ outcome[s] = "failed" =>
              ticket[s] \in 1..Len(txs) /\ txs[ticket[s]].status = "reverted"

\* A transaction that is executed or reverted stays as it is, and a pending one
\* keeps what was sent.
LEMMA SettledForEver ==
    ASSUME TypeInv, [Next]_vars, NEW i \in 1..Len(txs)
    PROVE  /\ i \in 1..Len(txs')
           /\ txs[i].status # "pending" => txs'[i] = txs[i]
           /\ txs'[i].call = txs[i].call /\ txs'[i].since = txs[i].since
           /\ txs'[i].ins = txs[i].ins /\ txs'[i].keys = txs[i].keys
<1>0. txs \in Seq(TxType)
  BY DEF TypeInv, TxTypeOK
<1>1. CASE UNCHANGED txs
  BY <1>1
<1>2. ASSUME NEW s \in Sessions, NEW r \in Rnd, call[s] \in Calls,
             txs' = Append(txs, Sent(s, r))
      PROVE  i \in 1..Len(txs') /\ txs'[i] = txs[i]
  <2>1. Sent(s, r) \in TxType
    BY <1>2, SentType
  <2> QED BY <1>0, <1>2, <2>1
<1>3. ASSUME NEW j \in 1..Len(txs), NEW result \in TxStatus, NEW h \in Nat,
             txs[j].status = "pending",
             txs' = [txs EXCEPT ![j] = Settled(txs[j], result, h)]
      PROVE  /\ i \in 1..Len(txs')
             /\ i # j => txs'[i] = txs[i]
             /\ i = j => txs'[i] = Settled(txs[i], result, h)
  BY <1>0, <1>3
<1>4. txs[i] \in TxType
  BY <1>0
<1>5. ASSUME NEW result \in TxStatus, NEW h \in Nat
      PROVE  /\ Settled(txs[i], result, h).call = txs[i].call
             /\ Settled(txs[i], result, h).since = txs[i].since
             /\ Settled(txs[i], result, h).ins = txs[i].ins
             /\ Settled(txs[i], result, h).keys = txs[i].keys
  BY <1>4 DEF Settled, TxType
<1> QED BY <1>1, <1>2, <1>3, <1>5, TxsStep

LEMMA TicketStep ==
    ASSUME TypeInv, TicketInv, [Next]_vars
    PROVE  TicketInv'
<1>0. Len(txs) \in Nat
  BY DEF TypeInv, TxTypeOK
<1>1. \A i \in 1..Len(txs) :
         /\ i \in 1..Len(txs')
         /\ txs[i].status # "pending" => txs'[i].status = txs[i].status
  BY SettledForEver
<1> SUFFICES ASSUME NEW s \in Sessions
    PROVE  /\ phase'[s] # "idle" => outcome'[s] = "none"
           /\ phase'[s] = "await" => ticket'[s] \in 1..Len(txs')
           /\ outcome'[s] = "ok" =>
                 ticket'[s] \in 1..Len(txs') /\ txs'[ticket'[s]].status = "ok"
           /\ outcome'[s] = "failed" =>
                 ticket'[s] \in 1..Len(txs') /\ txs'[ticket'[s]].status = "reverted"
  BY DEF TicketInv
<1> DEFINE Same(t) == phase'[t] = phase[t] /\ outcome'[t] = outcome[t] /\ ticket'[t] = ticket[t]
<1>2. CASE Same(s)
  <2>1. ASSUME ticket[s] \in 1..Len(txs)
        PROVE  /\ ticket'[s] \in 1..Len(txs')
               /\ txs[ticket[s]].status # "pending" =>
                     txs'[ticket'[s]].status = txs[ticket[s]].status
    BY ONLY <1>1, <1>2, <2>1, Zenon
  <2>2. CASE phase[s] = "await"
    BY <1>2, <2>1, <2>2 DEF TicketInv
  <2>3. CASE phase[s] # "await"
    BY <1>2, <2>1, <2>3 DEF TicketInv
  <2> QED BY <2>2, <2>3
<1> USE DEF TypeInv, TxTypeOK
<1>3. ASSUME NEW t \in Sessions, NEW c \in Calls, CallFunction(t, c)
      PROVE  Same(s) \/ (phase'[s] = "sim" /\ outcome'[s] = "none")
  BY <1>3 DEF CallFunction
<1>4. ASSUME NEW t \in Sessions, Transact(t)
      PROVE  Same(s) \/ (/\ phase'[s] = "await" /\ outcome'[s] = "none"
                         /\ ticket'[s] \in 1..Len(txs'))
  <2>1. CASE s = t
    <3>1. PICK r \in Rnd : txs' = Append(txs, Sent(t, r))
      BY <1>4 DEF Transact, Sent
    <3>2. Len(txs') = Len(txs) + 1
      BY <3>1
    <3>3. ticket'[s] = Len(txs) + 1 /\ phase'[s] = "await" /\ outcome'[s] = outcome[s]
      BY <1>4, <2>1 DEF Transact
    <3>4. outcome[s] = "none"
      BY <1>4, <2>1 DEF Transact, TicketInv
    <3> QED BY <1>0, <3>2, <3>3, <3>4
  <2>2. CASE s # t
    BY <1>4, <2>2 DEF Transact
  <2> QED BY <2>1, <2>2
<1>5. ASSUME NEW t \in Sessions, ReceiveReceipt(t)
      PROVE  \/ Same(s)
             \/ /\ phase'[s] = "idle"
                /\ ticket'[s] \in 1..Len(txs')
                /\ outcome'[s] = "ok" => txs'[ticket'[s]].status = "ok"
                /\ outcome'[s] = "failed" => txs'[ticket'[s]].status = "reverted"
  <2>1. CASE s = t
    <3>1. ticket[s] \in 1..Len(txs) /\ txs[ticket[s]].status # "pending"
      BY <1>5, <2>1 DEF ReceiveReceipt, TicketInv
    <3>2. txs[ticket[s]].status \in TxStatus
      <4>1. txs[ticket[s]] \in TxType
        BY <3>1
      <4> QED BY <4>1 DEF TxType
    <3>3. /\ phase'[s] = "idle" /\ ticket'[s] = ticket[s] /\ txs' = txs
          /\ outcome'[s] = IF txs[ticket[s]].status = "ok" THEN "ok" ELSE "failed"
      BY <1>5, <2>1 DEF ReceiveReceipt, EndCall
    <3> QED BY <3>1, <3>2, <3>3 DEF TxStatus
  <2>2. CASE s # t
    BY <1>5, <2>2 DEF ReceiveReceipt, EndCall
  <2> QED BY <2>1, <2>2
<1>6. ASSUME NEW t \in Sessions, Abort(t) \/ ReceiptTimeout(t)
      PROVE  Same(s) \/ (phase'[s] = "idle" /\ outcome'[s] = "error")
  BY <1>6 DEF Abort, ReceiptTimeout, EndCall
<1>7. ASSUME NEW h \in Hosts, Restart(h)
      PROVE  Same(s) \/ (phase'[s] = "idle" /\ outcome'[s] = "none")
  BY <1>7 DEF Restart
<1>8. ASSUME \/ \E t \in Sessions, l \in Locs :
                   FetchPublic(t, l) \/ FetchFirstChunk(t, l) \/ FetchOtherChunks(t, l)
             \/ \E t \in Sessions, v \in Users : FetchKey(t, v)
             \/ \E i \in 1..Len(txs) : Execute(i) \/ Revert(i)
             \/ \E h \in Hosts, u \in Users : InitializeKeys(h, u)
             \/ \E a \in annPool : MineAnnouncement(a)
             \/ UNCHANGED vars
      PROVE  Same(s)
  BY <1>8 DEF FetchPublic, FetchFirstChunk, FetchOtherChunks, FetchKey, Execute,
     Revert, InitializeKeys, MineAnnouncement, txVars, vars
<1> HIDE DEF Same
<1> QED BY <1>2, <1>3, <1>4, <1>5, <1>6, <1>7, <1>8 DEF Next, SessionStep

\* A user who is told that a call succeeded or that its transaction failed is
\* told what the chain did with it, and that is final.
THEOREM UsersAreToldTheTruth == Spec => []OutcomeTruthful
<1>1. Init => TicketInv
  BY DEF Init, TicketInv
<1>2. TicketInv => OutcomeTruthful
  BY DEF TicketInv, OutcomeTruthful
<1>3. TypeInv /\ TicketInv /\ [Next]_vars => TicketInv'
  BY TicketStep
<1> QED BY <1>1, <1>2, <1>3, TypeInvInit, TypeInvNext, PTL DEF Spec

-----------------------------------------------------------------------------
(* A transaction reverts only because of another one: what a session has   *)
(* fetched, and what a pending transaction was made from, is still current *)
(* unless a transaction executed since has written it, and keys never      *)
(* change.                                                                 *)

(* The inductive invariant                                                 *)

\* One of the transactions ts was executed after height t and wrote to ls.
Overwritten(ts, t, ls) ==
    \E j \in 1..Len(ts) :
        ts[j].status = "ok" /\ t < ts[j].at /\ Written(ts[j].call) \cap ls # {}

\* tx is executed if its turn comes in storage m with announced keys pk.
Works(tx, m, pk) ==
    /\ Guard(tx.call, [l \in Locs |-> m[l].val])
    /\ \A l \in tx.call.reads : tx.ins[l] = m[l]
    /\ \A v \in KeyOwners(tx.call) : pk[v] # NoKey /\ tx.keys[v] = pk[v]

\* Nothing comes from the future.
HistoryInv ==
    /\ \A s \in Sessions : since[s] <= height
    /\ \A i \in 1..Len(txs) : txs[i].since <= height /\ txs[i].at <= height

\* What a session has fetched is current or overwritten; an idle one has
\* fetched nothing.
SnapInv ==
    \A s \in Sessions, l \in Locs :
        /\ phase[s] = "idle" => snap[s][l] = NotRead /\ half[s][l] = NotRead
        /\ phase[s] = "sim" =>
              /\ snap[s][l] \in {NotRead, mem[l]} \/ Overwritten(txs, since[s], {l})
              /\ half[s][l] \in {NotRead, mem[l]} \/ Overwritten(txs, since[s], {l})

PendingInv ==
    \A i \in 1..Len(txs) : txs[i].status = "pending" =>
        \/ Overwritten(txs, txs[i].since, Read(txs[i].call))
        \/ Works(txs[i], mem, pki)

-----------------------------------------------------------------------------
(* Steps of the chain                                                      *)

LEMMA WorksIsExecutable ==
    \A i \in 1..Len(txs) : Works(txs[i], mem, pki) <=> Executable(txs[i])
BY DEF Works, Executable, ProofVerifies, PlainMem

\* What was overwritten stays so.
LEMMA OverwrittenStays ==
    ASSUME TypeInv, [Next]_vars
    PROVE  \A t \in Nat, ls \in SUBSET Locs :
              Overwritten(txs, t, ls) => Overwritten(txs', t, ls)
<1> SUFFICES ASSUME NEW t \in Nat, NEW ls \in SUBSET Locs, NEW j \in 1..Len(txs),
                    txs[j].status = "ok", t < txs[j].at,
                    Written(txs[j].call) \cap ls # {}
             PROVE  Overwritten(txs', t, ls)
  BY DEF Overwritten
<1>1. j \in 1..Len(txs') /\ txs'[j] = txs[j]
  BY SettledForEver
<1> QED BY <1>1 DEF Overwritten

\* Executing a transaction overwrites what changes, for everybody who began
\* before.
LEMMA ExecuteOverwrites ==
    ASSUME TypeInv, NEW i \in 1..Len(txs), Execute(i)
    PROVE  /\ \A t \in Nat, ls \in SUBSET Locs :
                 t <= height /\ Written(txs[i].call) \cap ls # {}
                     => Overwritten(txs', t, ls)
           /\ \A l \in Locs : l \notin Written(txs[i].call) => mem'[l] = mem[l]
<1> USE DEF TypeInv, TxTypeOK
<1>1. txs[i] \in TxType
  OBVIOUS
<1>2. i \in 1..Len(txs') /\ txs'[i] = Settled(txs[i], "ok", height + 1)
  BY DEF Execute
<1>3. /\ Settled(txs[i], "ok", height + 1).call = txs[i].call
      /\ Settled(txs[i], "ok", height + 1).status = "ok"
      /\ Settled(txs[i], "ok", height + 1).at = height + 1
  BY <1>1 DEF Settled, TxType
<1>4. ASSUME NEW t \in Nat, NEW ls \in SUBSET Locs, t <= height,
             Written(txs[i].call) \cap ls # {}
      PROVE  Overwritten(txs', t, ls)
  <2>1. t < height + 1
    BY <1>4
  <2> QED BY <1>2, <1>3, <1>4, <2>1 DEF Overwritten
<1>5. \A l \in Locs : l \notin Written(txs[i].call) => mem'[l] = mem[l]
  BY DEF Execute, Updated, Written
<1> QED BY <1>4, <1>5

\* The storage at l changes only if l is overwritten for everybody who began
\* before.
LEMMA ChangedIsOverwritten ==
    ASSUME TypeInv, [Next]_vars
    PROVE  \A l \in Locs, t \in Nat :
              t <= height => mem'[l] = mem[l] \/ Overwritten(txs', t, {l})
<1> SUFFICES ASSUME NEW l \in Locs, NEW t \in Nat, t <= height
             PROVE  mem'[l] = mem[l] \/ Overwritten(txs', t, {l})
  OBVIOUS
<1>1. ASSUME NEW i \in 1..Len(txs), Execute(i)
      PROVE  mem'[l] = mem[l] \/ Overwritten(txs', t, {l})
  <2>1. CASE l \in Written(txs[i].call)
    <3>1. Written(txs[i].call) \cap {l} # {} /\ {l} \in SUBSET Locs
      BY <2>1
    <3> QED BY <1>1, <3>1, ExecuteOverwrites
  <2>2. CASE l \notin Written(txs[i].call)
    BY <1>1, <2>2, ExecuteOverwrites
  <2> QED BY <2>1, <2>2
<1>2. CASE \A i \in 1..Len(txs) : ~Execute(i)
  BY <1>2, OnlyExecuteWrites
<1> QED BY <1>1, <1>2

-----------------------------------------------------------------------------
(* History                                                                 *)

\* Transactions are sent by Transact and settled by the chain.
LEMMA OnlyTheseChangeTxs ==
    ASSUME [Next]_vars
    PROVE  \/ UNCHANGED txs
           \/ \E s \in Sessions : Transact(s)
           \/ \E j \in 1..Len(txs) : Execute(j) \/ Revert(j)
<1>1. ASSUME NEW s \in Sessions, SessionStep(s), ~Transact(s) PROVE UNCHANGED txs
  BY <1>1 DEF SessionStep, FetchPublic, FetchFirstChunk, FetchOtherChunks, FetchKey,
     Abort, ReceiveReceipt, ReceiptTimeout, EndCall, txVars
<1>2. ASSUME NEW s \in Sessions, NEW c \in Calls, CallFunction(s, c) PROVE UNCHANGED txs
  BY <1>2 DEF CallFunction
<1>3. ASSUME \/ \E h \in Hosts, u \in Users : InitializeKeys(h, u)
             \/ \E a \in annPool : MineAnnouncement(a)
             \/ \E h \in Hosts : Restart(h)
             \/ UNCHANGED vars
      PROVE  UNCHANGED txs
  BY <1>3 DEF InitializeKeys, MineAnnouncement, Restart, txVars, vars
<1> QED BY <1>1, <1>2, <1>3 DEF Next

\* Heights only grow, and every record of one is in the past.
LEMMA HistoryStep ==
    ASSUME TypeInv, HistoryInv, [Next]_vars
    PROVE  HistoryInv' /\ height <= height'
<1> USE DEF TypeInv, TxTypeOK
<1>1. height' \in Nat /\ height <= height' /\ \A s \in Sessions : since'[s] <= height'
  <2> DEFINE Same == since' = since /\ height' = height
  <2>1. ASSUME Same
        PROVE  height' \in Nat /\ height <= height'
                 /\ \A s \in Sessions : since'[s] <= height'
    BY <2>1 DEF HistoryInv
  <2>2. ASSUME \/ \E s \in Sessions, c \in Calls : CallFunction(s, c)
               \/ \E s \in Sessions : Abort(s) \/ ReceiveReceipt(s) \/ ReceiptTimeout(s)
               \/ \E h \in Hosts : Restart(h)
        PROVE  height' = height /\ \A s \in Sessions : since'[s] \in {since[s], height, 0}
    BY <2>2 DEF CallFunction, Abort, ReceiveReceipt, ReceiptTimeout, EndCall, Restart
  <2>3. ASSUME \E i \in 1..Len(txs) : Execute(i)
        PROVE  height' = height + 1 /\ since' = since
    BY <2>3 DEF Execute
  <2>4. ASSUME \/ \E s \in Sessions, l \in Locs :
                     FetchPublic(s, l) \/ FetchFirstChunk(s, l) \/ FetchOtherChunks(s, l)
               \/ \E s \in Sessions, v \in Users : FetchKey(s, v)
               \/ \E s \in Sessions : Transact(s)
               \/ \E i \in 1..Len(txs) : Revert(i)
               \/ \E h \in Hosts, u \in Users : InitializeKeys(h, u)
               \/ \E a \in annPool : MineAnnouncement(a)
               \/ UNCHANGED vars
        PROVE  Same
    BY <2>4 DEF FetchPublic, FetchFirstChunk, FetchOtherChunks, FetchKey, Transact,
       Revert, InitializeKeys, MineAnnouncement, txVars, vars
  <2> HIDE DEF Same
  <2>5. ASSUME height' = height, \A s \in Sessions : since'[s] \in {since[s], height, 0}
        PROVE  height' \in Nat /\ height <= height'
                 /\ \A s \in Sessions : since'[s] <= height'
    <3>1. ASSUME NEW s \in Sessions PROVE since'[s] <= height
      <4>1. since'[s] \in {since[s], height, 0} /\ since[s] <= height
        BY <2>5 DEF HistoryInv
      <4> QED BY <4>1
    <3> QED BY <2>5, <3>1
  <2>6. ASSUME height' = height + 1, since' = since
        PROVE  height' \in Nat /\ height <= height'
                 /\ \A s \in Sessions : since'[s] <= height'
    BY <2>6 DEF HistoryInv
  <2> QED BY <2>1, <2>2, <2>3, <2>4, <2>5, <2>6 DEF Next, SessionStep
<1>2. ASSUME NEW i \in 1..Len(txs')
      PROVE  txs'[i].since <= height' /\ txs'[i].at <= height'
  <2>1. CASE UNCHANGED txs
    <3>1. txs[i] \in TxType /\ i \in 1..Len(txs)
      BY <1>2, <2>1
    <3>2. txs[i].since \in Nat /\ txs[i].at \in Nat
      BY <3>1 DEF TxType
    <3> QED BY <1>1, <2>1, <3>1, <3>2 DEF HistoryInv
  <2>2. ASSUME NEW s \in Sessions, Transact(s) PROVE txs'[i].since <= height' /\ txs'[i].at <= height'
    <3>1. PICK r \in Rnd : txs' = Append(txs, Sent(s, r))
      BY <2>2 DEF Transact, Sent
    <3>2. height' = height
      BY <2>2 DEF Transact
    <3>3. CASE i \in 1..Len(txs)
      <4>1. txs \in Seq(TxType)
        BY DEF TypeInv, TxTypeOK
      <4>2. txs'[i] = txs[i]
        BY <3>1, <3>3, <4>1
      <4>3. txs[i].since <= height /\ txs[i].at <= height
        BY <3>3 DEF HistoryInv
      <4> QED BY <3>2, <4>2, <4>3
    <3>4. CASE i \notin 1..Len(txs)
      <4>1. txs'[i] = Sent(s, r)
        BY <1>2, <3>1, <3>4
      <4>2. Sent(s, r).since = since[s] /\ Sent(s, r).at = 0
        BY DEF Sent
      <4> QED BY <3>2, <4>1, <4>2 DEF HistoryInv
    <3> QED BY <3>3, <3>4
  <2>3. ASSUME NEW j \in 1..Len(txs), NEW result, NEW h \in Nat, h <= height',
               txs' = [txs EXCEPT ![j] = Settled(txs[j], result, h)]
        PROVE  txs'[i].since <= height' /\ txs'[i].at <= height'
    <3>1. i \in 1..Len(txs) /\ txs[i] \in TxType
      BY <1>2, <2>3
    <3>2. txs[i].since \in Nat /\ txs[i].at \in Nat
      BY <3>1 DEF TxType
    <3>3. txs[i].since <= height' /\ txs[i].at <= height'
      BY <1>1, <3>1, <3>2 DEF HistoryInv
    <3>4. Settled(txs[i], result, h).since = txs[i].since /\ Settled(txs[i], result, h).at = h
      BY <3>1 DEF Settled, TxType
    <3>5. txs'[i] = IF i = j THEN Settled(txs[i], result, h) ELSE txs[i]
      BY <2>3, <3>1
    <3> QED BY <2>3, <3>3, <3>4, <3>5
  <2>4. ASSUME NEW j \in 1..Len(txs), Execute(j)
        PROVE  txs'[i].since <= height' /\ txs'[i].at <= height'
    <3>1. height' = height + 1
            /\ txs' = [txs EXCEPT ![j] = Settled(txs[j], "ok", height + 1)]
      BY <2>4 DEF Execute
    <3>2. height + 1 \in Nat /\ height + 1 <= height'
      BY <3>1
    <3> HIDE DEF TypeInv, TxTypeOK
    <3> QED BY <2>3, <3>1, <3>2
  <2>5. ASSUME NEW j \in 1..Len(txs), Revert(j)
        PROVE  txs'[i].since <= height' /\ txs'[i].at <= height'
    <3>1. height' = height
            /\ txs' = [txs EXCEPT ![j] = Settled(txs[j], "reverted", height)]
      BY <2>5 DEF Revert
    <3>2. height \in Nat /\ height <= height'
      BY <3>1
    <3> HIDE DEF TypeInv, TxTypeOK
    <3> QED BY <2>3, <3>1, <3>2
  <2>6. \/ UNCHANGED txs
        \/ \E s \in Sessions : Transact(s)
        \/ \E j \in 1..Len(txs) : Execute(j) \/ Revert(j)
    BY OnlyTheseChangeTxs
  <2> QED BY <2>1, <2>2, <2>4, <2>5, <2>6
<1> QED BY <1>1, <1>2 DEF HistoryInv

-----------------------------------------------------------------------------
(* What sessions have fetched                                              *)

LEMMA SnapStep ==
    ASSUME TypeInv, HistoryInv, SnapInv, [Next]_vars
    PROVE  SnapInv'
<1> USE DEF TypeInv, TxTypeOK
<1> SUFFICES ASSUME NEW s \in Sessions, NEW l \in Locs
    PROVE  /\ phase'[s] = "idle" => snap'[s][l] = NotRead /\ half'[s][l] = NotRead
           /\ phase'[s] = "sim" =>
                 /\ snap'[s][l] \in {NotRead, mem'[l]} \/ Overwritten(txs', since'[s], {l})
                 /\ half'[s][l] \in {NotRead, mem'[l]} \/ Overwritten(txs', since'[s], {l})
  BY DEF SnapInv, Overwritten
<1>1. /\ Overwritten(txs, since[s], {l}) => Overwritten(txs', since[s], {l})
      /\ mem'[l] = mem[l] \/ Overwritten(txs', since[s], {l})
  <2>1. since[s] \in Nat /\ since[s] <= height /\ {l} \in SUBSET Locs
    BY DEF HistoryInv
  <2> HIDE DEF TypeInv, TxTypeOK
  <2> QED BY <2>1, OverwrittenStays, ChangedIsOverwritten
<1>2. /\ phase[s] = "idle" => snap[s][l] = NotRead /\ half[s][l] = NotRead
      /\ phase[s] = "sim" =>
            /\ snap[s][l] \in {NotRead, mem[l]} \/ Overwritten(txs, since[s], {l})
            /\ half[s][l] \in {NotRead, mem[l]} \/ Overwritten(txs, since[s], {l})
  BY DEF SnapInv
<1> DEFINE Same(t) == /\ phase'[t] = phase[t] /\ since'[t] = since[t]
                      /\ snap'[t] = snap[t] /\ half'[t] = half[t]
           Reset(t) == phase'[t] = "idle" /\ snap'[t][l] = NotRead /\ half'[t][l] = NotRead
           Begun(t) == /\ phase[t] = "idle" /\ phase'[t] = "sim"
                       /\ snap'[t] = snap[t] /\ half'[t] = half[t]
           Fetched(t) ==
               /\ phase[t] = "sim" /\ phase'[t] = "sim" /\ since'[t] = since[t]
               /\ mem'[l] = mem[l] /\ txs' = txs
               /\ snap'[t][l] \in {snap[t][l], mem[l]} \/ Overwritten(txs, since[t], {l})
               /\ half'[t][l] \in {half[t][l], NotRead, mem[l]}
<1>3. ASSUME NEW t \in Sessions, NEW c \in Calls, CallFunction(t, c)
      PROVE  Same(s) \/ Begun(s)
  BY <1>3 DEF CallFunction, CallsIdle
<1>4. ASSUME NEW t \in Sessions, NEW k \in Locs, FetchPublic(t, k) \/ FetchFirstChunk(t, k)
      PROVE  Same(s) \/ Fetched(s)
  BY <1>4 DEF FetchPublic, FetchFirstChunk, MayFetch
<1>5. ASSUME NEW t \in Sessions, NEW k \in Locs, FetchOtherChunks(t, k)
      PROVE  Same(s) \/ Fetched(s)
  <2>1. CASE t # s
    BY <1>5, <2>1 DEF FetchOtherChunks
  <2>2. CASE t = s
    <3>1. /\ phase[s] = "sim" /\ half[s][k] # NotRead
          /\ phase' = phase /\ since' = since /\ mem' = mem /\ txs' = txs
          /\ snap'[s][l] = IF k = l THEN IF mem[l] = half[s][l] THEN mem[l] ELSE Torn
                                    ELSE snap[s][l]
          /\ half'[s][l] \in {half[s][l], NotRead}
      BY <1>5, <2>2 DEF FetchOtherChunks, MayFetch
    <3>2. CASE k = l /\ mem[l] # half[s][l]
      BY <1>2, <3>1, <3>2
    <3> QED BY <3>1, <3>2
  <2> QED BY <2>1, <2>2
<1>6. ASSUME NEW t \in Sessions, Transact(t) PROVE Same(s) \/ phase'[s] = "await"
  BY <1>6 DEF Transact
<1>7. ASSUME NEW t \in Sessions, Abort(t) \/ ReceiveReceipt(t) \/ ReceiptTimeout(t)
      PROVE  Same(s) \/ Reset(s)
  BY <1>7 DEF Abort, ReceiveReceipt, ReceiptTimeout, EndCall
<1>8. ASSUME NEW h \in Hosts, Restart(h) PROVE Same(s) \/ Reset(s)
  BY <1>8 DEF Restart
<1>9. ASSUME \/ \E t \in Sessions, v \in Users : FetchKey(t, v)
             \/ \E i \in 1..Len(txs) : Execute(i) \/ Revert(i)
             \/ \E h \in Hosts, u \in Users : InitializeKeys(h, u)
             \/ \E a \in annPool : MineAnnouncement(a)
             \/ UNCHANGED vars
      PROVE  Same(s)
  BY <1>9 DEF FetchKey, Execute, Revert, InitializeKeys, MineAnnouncement, txVars, vars
<1> HIDE DEF Same, Reset, Begun, Fetched
<1>10. Same(s) \/ Reset(s) \/ Begun(s) \/ Fetched(s) \/ phase'[s] = "await"
  BY <1>3, <1>4, <1>5, <1>6, <1>7, <1>8, <1>9 DEF Next, SessionStep
<1>11. CASE Same(s)
  BY <1>1, <1>2, <1>11 DEF Same
<1>12. CASE Fetched(s)
  BY <1>1, <1>2, <1>12 DEF Fetched
<1>13. CASE Reset(s) \/ Begun(s) \/ phase'[s] = "await"
  BY <1>2, <1>13 DEF Reset, Begun
<1> QED BY <1>10, <1>11, <1>12, <1>13

-----------------------------------------------------------------------------
(* Pending transactions                                                    *)

\* A transaction that is sent would be executed at once, unless something it
\* read has been overwritten already.
LEMMA SentWorks ==
    ASSUME KsInv, TypeInv, SnapInv, NEW s \in Sessions, NEW r \in Rnd,
           call[s] \in Calls, Transact(s)
    PROVE  \/ Overwritten(txs, since[s], Read(call[s]))
           \/ Works(Sent(s, r), mem, pki)
<1> USE DEF TypeInv, TxTypeOK
<1> DEFINE c == call[s]
<1> SUFFICES ASSUME ~Overwritten(txs, since[s], Read(c))
             PROVE  Works(Sent(s, r), mem, pki)
  OBVIOUS
<1>1. c \in Calls /\ c.reads \subseteq Locs /\ c.pubReads \subseteq Locs
        /\ c.reads \cup c.writes \subseteq Locs
  BY CallAssumption DEF CallType
<1>2. /\ phase[s] = "sim"
      /\ \A l \in Read(c) : snap[s][l] # NotRead
      /\ \A v \in KeyOwners(c) : cache[s[1]][v] # NoKey
      /\ Guard(c, Simulated(s))
  BY DEF Transact
<1>3. ASSUME NEW l \in Read(c) PROVE l \in Locs /\ snap[s][l] = mem[l]
  <2>1. l \in Locs
    BY <1>1, <1>3 DEF Read
  <2>2. ~Overwritten(txs, since[s], {l})
    BY <1>3 DEF Overwritten
  <2> QED BY <1>2, <2>1, <2>2 DEF SnapInv
<1>4. Guard(c, PlainMem)
  <2>1. \A l \in c.pubReads : Simulated(s)[l] = PlainMem[l]
    BY <1>3, SentinelAssumption DEF Read, Simulated, PlainMem
  <2>2. Simulated(s) \in Plains /\ PlainMem \in Plains
    BY SimulatedType, PlainMemType
  <2> QED BY <1>1, <1>2, <2>1, <2>2, EffAssumption
<1>5. /\ Sent(s, r).call = c
      /\ Sent(s, r).ins = [l \in Locs |-> IF l \in c.reads THEN snap[s][l] ELSE NotRead]
      /\ Sent(s, r).keys = [v \in Users |-> IF v \in KeyOwners(c) THEN cache[s[1]][v]
                                                                ELSE NoKey]
  BY DEF Sent
<1>6. \A l \in c.reads : Sent(s, r).ins[l] = mem[l]
  BY <1>1, <1>3, <1>5 DEF Read
<1>7. ASSUME NEW v \in KeyOwners(c)
      PROVE  pki[v] # NoKey /\ Sent(s, r).keys[v] = pki[v]
  <2>1. v \in Users /\ s[1] \in Hosts
    BY <1>1, CallAssumption, LocationAssumption DEF KeyOwners, Circuit, Private, CallType, Sessions
  <2>2. cache[s[1]][v] = pki[v]
    BY <1>2, <2>1 DEF KsInv, CacheCoherent
  <2> QED BY <1>2, <1>5, <2>1, <2>2
<1> QED BY <1>4, <1>5, <1>6, <1>7 DEF Works, PlainMem

\* A transaction that would be executed still would be after a step, unless
\* the step overwrites something it read.
LEMMA WorksOn ==
    ASSUME OneHome, KsInv, TypeInv, HistoryInv, [Next]_vars,
           NEW i \in 1..Len(txs), Works(txs[i], mem, pki)
    PROVE  \/ Overwritten(txs', txs[i].since, Read(txs[i].call))
           \/ Works(txs[i], mem', pki')
<1> DEFINE c == txs[i].call
<1>1. txs[i] \in TxType
  BY DEF TypeInv, TxTypeOK
<1>2. /\ c \in Calls /\ txs[i].since \in Nat /\ txs[i].since <= height
      /\ Read(c) \in SUBSET Locs
      /\ c.pubReads \subseteq Read(c) /\ c.reads \subseteq Read(c)
  BY <1>1, CallAssumption DEF HistoryInv, TxType, CallType, Read
<1> SUFFICES ASSUME ~Overwritten(txs', txs[i].since, Read(c))
             PROVE  Works(txs[i], mem', pki')
  OBVIOUS
<1>3. \A l \in Read(c) : l \in Locs /\ mem'[l] = mem[l]
  <2>1. \A l \in Read(c) : ~Overwritten(txs', txs[i].since, {l})
    BY DEF Overwritten
  <2> QED BY <1>2, <2>1, ChangedIsOverwritten
<1>4. Guard(c, PlainMem')
  <2>1. PlainMem \in Plains
    BY PlainMemType DEF TypeInv
  <2>2. PlainMem' \in Plains
    <3>1. mem' \in [Locs -> Content]
      BY TypeInvNext DEF TypeInv, TxTypeOK
    <3> QED BY <3>1 DEF PlainMem, Plains, Content
  <2>3. \A l \in c.pubReads : PlainMem[l] = PlainMem'[l]
    BY <1>2, <1>3 DEF PlainMem
  <2>4. Guard(c, PlainMem)
    BY DEF Works, PlainMem
  <2> QED BY <1>2, <2>1, <2>2, <2>3, <2>4, EffAssumption
<1>5. \A l \in c.reads : txs[i].ins[l] = mem'[l]
  BY <1>2, <1>3 DEF Works
<1>6. ASSUME NEW v \in KeyOwners(c)
      PROVE  pki'[v] # NoKey /\ txs[i].keys[v] = pki'[v]
  <2>1. v \in Users
    BY <1>2, CallAssumption, LocationAssumption DEF KeyOwners, Circuit, Private, CallType
  <2> QED BY <1>6, <2>1, NextIsKsNext, PkiStep DEF Works
<1> QED BY <1>4, <1>5, <1>6 DEF Works, PlainMem

LEMMA PendingStep ==
    ASSUME OneHome, KsInv, TypeInv, HistoryInv, SnapInv, PendingInv, [Next]_vars
    PROVE  PendingInv'
<1> SUFFICES ASSUME NEW i \in 1..Len(txs'), txs'[i].status = "pending"
             PROVE  \/ Overwritten(txs', txs'[i].since, Read(txs'[i].call))
                    \/ Works(txs'[i], mem', pki')
  BY DEF PendingInv, Works, Overwritten
<1>0. txs \in Seq(TxType)
  BY DEF TypeInv, TxTypeOK
<1>1. CASE i \in 1..Len(txs)
  <2>1. /\ txs'[i].call = txs[i].call /\ txs'[i].since = txs[i].since
        /\ txs'[i].ins = txs[i].ins /\ txs'[i].keys = txs[i].keys
        /\ txs[i].status = "pending"
    BY <1>1, SettledForEver
  <2>2. Works(txs[i], mem', pki') => Works(txs'[i], mem', pki')
    BY <2>1 DEF Works
  <2>3. CASE Overwritten(txs, txs[i].since, Read(txs[i].call))
    <3>1. txs[i] \in TxType
      BY <1>0, <1>1
    <3>2. txs[i].since \in Nat /\ Read(txs[i].call) \in SUBSET Locs
      BY <3>1, CallAssumption DEF TxType, CallType, Read
    <3> QED BY <2>1, <2>3, <3>2, OverwrittenStays
  <2>4. CASE Works(txs[i], mem, pki)
    BY <1>1, <2>1, <2>2, <2>4, WorksOn
  <2> QED BY <1>1, <2>1, <2>3, <2>4 DEF PendingInv
<1>2. CASE i \notin 1..Len(txs)
  <2>1. PICK s \in Sessions, r \in Rnd :
           Transact(s) /\ call[s] \in Calls /\ txs' = Append(txs, Sent(s, r))
    <3>1. \A j \in 1..Len(txs), result \in TxStatus, h \in Nat :
             txs' = [txs EXCEPT ![j] = Settled(txs[j], result, h)] => Len(txs') = Len(txs)
      BY <1>0
    <3> QED BY <1>2, <3>1, TxsStep
  <2>2. txs'[i] = Sent(s, r)
    BY <1>0, <1>2, <2>1
  <2>3. mem' = mem /\ pki' = pki
    BY <2>1 DEF Transact, ksVars
  <2>4. Sent(s, r).call = call[s] /\ Sent(s, r).since = since[s]
    BY DEF Sent
  <2>5. CASE Overwritten(txs, since[s], Read(call[s]))
    <3>1. since[s] \in Nat /\ Read(call[s]) \in SUBSET Locs
      BY <2>1, CallAssumption DEF TypeInv, TxTypeOK, CallType, Read
    <3> QED BY <2>2, <2>4, <2>5, <3>1, OverwrittenStays
  <2>6. CASE Works(Sent(s, r), mem, pki)
    BY <2>2, <2>3, <2>6
  <2> QED BY <2>1, <2>5, <2>6, SentWorks
<1> QED BY <1>1, <1>2

-----------------------------------------------------------------------------
(* Reverted transactions                                                   *)

LEMMA RevertStep ==
    ASSUME TypeInv, HistoryInv, PendingInv, RevertOnlyOnConflict, [Next]_vars
    PROVE  RevertOnlyOnConflict'
<1> DEFINE Conflict(ts, i) ==
        \E j \in 1..Len(ts) :
            /\ ts[j].status = "ok"
            /\ ts[i].since < ts[j].at /\ ts[j].at <= ts[i].at
            /\ Written(ts[j].call) \cap Read(ts[i].call) # {}
<1> SUFFICES ASSUME NEW i \in 1..Len(txs'), txs'[i].status = "reverted"
             PROVE  Conflict(txs', i)
  BY DEF RevertOnlyOnConflict
<1>0. txs \in Seq(TxType)
  BY DEF TypeInv, TxTypeOK
<1>1. ASSUME i \in 1..Len(txs), txs[i].status = "reverted" PROVE Conflict(txs', i)
  <2>1. PICK j \in 1..Len(txs) :
            /\ txs[j].status = "ok"
            /\ txs[i].since < txs[j].at /\ txs[j].at <= txs[i].at
            /\ Written(txs[j].call) \cap Read(txs[i].call) # {}
    BY <1>1 DEF RevertOnlyOnConflict
  <2>2. txs'[j] = txs[j] /\ txs'[i] = txs[i] /\ j \in 1..Len(txs')
    BY <1>1, <2>1, SettledForEver
  <2> QED BY <2>1, <2>2
<1>2. ASSUME i \in 1..Len(txs), Revert(i) PROVE Conflict(txs', i)
  <2>1. txs[i].status = "pending" /\ ~Works(txs[i], mem, pki)
    BY <1>2, WorksIsExecutable DEF Revert, NextInLine
  <2>2. PICK j \in 1..Len(txs) :
            /\ txs[j].status = "ok" /\ txs[i].since < txs[j].at
            /\ Written(txs[j].call) \cap Read(txs[i].call) # {}
    BY <1>2, <2>1 DEF PendingInv, Overwritten
  <2>3. txs[j].at <= height
    BY DEF HistoryInv
  <2>4. /\ j \in 1..Len(txs') /\ txs'[j] = txs[j]
        /\ txs'[i].call = txs[i].call /\ txs'[i].since = txs[i].since
    BY <1>2, <2>2, SettledForEver
  <2>5. txs'[i].at = height
    <3>1. txs[i] \in TxType
      BY <1>0, <1>2
    <3>2. txs'[i] = Settled(txs[i], "reverted", height)
      BY <1>0, <1>2 DEF Revert
    <3> QED BY <3>1, <3>2 DEF Settled, TxType
  <2> QED BY <2>2, <2>3, <2>4, <2>5
<1>3. CASE UNCHANGED txs
  BY <1>1, <1>3
<1>4. ASSUME NEW s \in Sessions, Transact(s) PROVE Conflict(txs', i)
  <2>1. PICK r \in Rnd : txs' = Append(txs, Sent(s, r))
    BY <1>4 DEF Transact, Sent
  <2>2. Sent(s, r).status = "pending"
    BY DEF Sent
  <2>3. i \in 1..Len(txs) /\ txs'[i] = txs[i]
    BY <1>0, <2>1, <2>2
  <2> QED BY <1>1, <2>3
<1>5. ASSUME NEW k \in 1..Len(txs), Execute(k) \/ Revert(k), ~(k = i /\ Revert(i))
      PROVE  Conflict(txs', i)
  <2>1. /\ i \in 1..Len(txs)
        /\ i # k => txs'[i] = txs[i]
        /\ i = k => txs'[i] = Settled(txs[i], "ok", height + 1)
    BY <1>0, <1>5 DEF Execute, Revert
  <2>2. txs[i] \in TxType
    BY <1>0, <2>1
  <2>3. Settled(txs[i], "ok", height + 1).status = "ok"
    BY <2>2 DEF Settled, TxType
  <2> QED BY <1>1, <2>1, <2>3
<1> HIDE DEF Conflict
<1> QED BY <1>2, <1>3, <1>4, <1>5, OnlyTheseChangeTxs

\* If no account is used from two data directories, then a transaction reverts
\* only if one executed since its call began has written something it read.
THEOREM RevertsAreConflicts == ASSUME OneHome PROVE Spec => []RevertOnlyOnConflict
<1> DEFINE Inv == /\ KsInv /\ TypeInv /\ HistoryInv /\ SnapInv /\ PendingInv
                  /\ RevertOnlyOnConflict
<1>1. Init => Inv
  <2> SUFFICES ASSUME Init PROVE Inv
    OBVIOUS
  <2>1. KsInv /\ TypeInv
    BY KsInvInit, TypeInvInit DEF Init
  <2>2. HistoryInv /\ SnapInv /\ PendingInv /\ RevertOnlyOnConflict
    BY DEF Init, HistoryInv, SnapInv, PendingInv, RevertOnlyOnConflict
  <2> QED BY <2>1, <2>2
<1>2. Inv /\ [Next]_vars => Inv'
  <2> SUFFICES ASSUME Inv, [Next]_vars PROVE Inv'
    OBVIOUS
  <2>1. KsInv' /\ TypeInv'
    BY NextIsKsNext, KsInvNext, TypeInvNext
  <2>2. HistoryInv' /\ SnapInv' /\ PendingInv' /\ RevertOnlyOnConflict'
    BY HistoryStep, SnapStep, PendingStep, RevertStep
  <2> QED BY <2>1, <2>2
<1> QED BY <1>1, <1>2, PTL DEF Spec
=============================================================================

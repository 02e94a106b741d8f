------------------------------ MODULE Keystore ------------------------------
(***************************************************************************)
(* Key management of the zkay runtime for one crypto backend: the key      *)
(* files below cfg.data_dir, the ZkayKeystoreInterface object each process *)
(* keeps in memory, and the PKI contract on the chain that all of them     *)
(* read and write.                                                         *)
(*                                                                         *)
(* A host is one data directory with the process running on it; Accounts   *)
(* says for which accounts keys are initialised there.  A process runs one *)
(* statement at a time, so at most one initialize_keys_for is under way    *)
(* per host; the hosts and the chain interleave freely.                    *)
(***************************************************************************)
CONSTANTS
    Users,      \* accounts (addresses)
    Hosts,      \* data directories, each with its process
    Accounts,   \* [Hosts -> SUBSET Users]: the accounts used from a host
    Keys,       \* key pairs; a pair is identified with its public key
    NoKey       \* "no key": absent dictionary entry, file or announcement

ASSUME AccountsAssumption == Accounts \in [Hosts -> SUBSET Users]
ASSUME NoKeyAssumption == NoKey \notin Keys

VARIABLES
    keyFile,    \* keyFile[h][u]: the key pair stored on disk
    pairs,      \* pairs[h][u]: local_key_pairs of the process
    cache,      \* cache[h][u]: local_pk_store of the process
    initPc,     \* initPc[h][u]: progress of initialize_keys_for
    pki,        \* pki[u]: the key the PKI contract returns for u
    annPool     \* announcePk transactions sent and not yet mined

ksVars == <<keyFile, pairs, cache, initPc, pki, annPool>>

-----------------------------------------------------------------------------

MaybeKey == Keys \cup {NoKey}
KeyTable == [Hosts -> [Users -> MaybeKey]]

KsTypeOK ==
    /\ keyFile \in KeyTable
    /\ pairs \in KeyTable
    /\ cache \in KeyTable
    /\ initPc \in [Hosts -> [Users -> {"idle", "request", "announce", "await"}]]
    /\ pki \in [Users -> MaybeKey]
    /\ annPool \subseteq [user: Users, key: Keys]

\* No account is used from two data directories.
OneHome ==
    \A h1, h2 \in Hosts : h1 # h2 => Accounts[h1] \cap Accounts[h2] = {}

Hosted(h, u) == u \in Accounts[h]

\* The process of h is not inside initialize_keys_for.
KeysIdle(h) == \A u \in Users : initPc[h][u] = "idle"

HasInitializedKeys(h, u) == pairs[h][u] # NoKey

\* Key pairs nobody has generated before (key files are never deleted).
FreshKeys == Keys \ {keyFile[h][u] : h \in Hosts, u \in Users}

-----------------------------------------------------------------------------

KsInit ==
    /\ keyFile = [h \in Hosts |-> [u \in Users |-> NoKey]]
    /\ pairs = [h \in Hosts |-> [u \in Users |-> NoKey]]
    /\ cache = [h \in Hosts |-> [u \in Users |-> NoKey]]
    /\ initPc = [h \in Hosts |-> [u \in Users |-> "idle"]]
    /\ pki = [u \in Users |-> NoKey]
    /\ annPool = {}

\* Mutation: the key file is written but never read back.
GenerateAlways(h, u, k) ==
    /\ k \in FreshKeys
    /\ keyFile' = [keyFile EXCEPT ![h][u] = k]

\* Mutation: a generated pair is not written to disk.
GenerateWithoutSaving(h, u, k) ==
    /\ IF keyFile[h][u] = NoKey THEN k \in FreshKeys ELSE k = keyFile[h][u]
    /\ UNCHANGED keyFile

\* _generate_or_load_key_pair returns k: the pair on disk, or a fresh one that
\* it writes to disk first.
GenerateOrLoad(h, u, k) ==
    /\ IF keyFile[h][u] = NoKey THEN k \in FreshKeys ELSE k = keyFile[h][u]
    /\ keyFile' = [keyFile EXCEPT ![h][u] = k]

\* initialize_keys_for skips accounts it has keys for; for others add_keypair
\* stores the pair locally before it looks at the PKI.
AddKeypair(h, u) ==
    /\ Hosted(h, u)
    /\ KeysIdle(h)
    /\ ~HasInitializedKeys(h, u)
    /\ \E k \in Keys :
          /\ GenerateOrLoad(h, u, k)
          /\ pairs' = [pairs EXCEPT ![h][u] = k]
    /\ initPc' = [initPc EXCEPT ![h][u] = "request"]
    /\ UNCHANGED <<cache, pki, annPool>>

\* req_public_key answers: some key is announced, which one is not looked at.
RequestAnswered(h, u) ==
    /\ initPc[h][u] = "request"
    /\ pki[u] # NoKey
    /\ initPc' = [initPc EXCEPT ![h][u] = "idle"]
    /\ UNCHANGED <<keyFile, pairs, cache, pki, annPool>>

\* req_public_key raises BlockChainError.  The contract reverts when no key is
\* announced, but every other failure of the call (a lost connection, say) is
\* turned into the same exception, so this can happen in any PKI state.
RequestFails(h, u) ==
    /\ initPc[h][u] = "request"
    /\ initPc' = [initPc EXCEPT ![h][u] = "announce"]
    /\ UNCHANGED <<keyFile, pairs, cache, pki, annPool>>

\* announce_public_key hands the announcePk transaction to the node.
AnnouncePublicKey(h, u) ==
    /\ initPc[h][u] = "announce"
    /\ annPool' = annPool \cup {[user |-> u, key |-> pairs[h][u]]}
    /\ initPc' = [initPc EXCEPT ![h][u] = "await"]
    /\ UNCHANGED <<keyFile, pairs, cache, pki>>

\* The receipt of the announcement arrives and add_keypair returns.
AnnounceConfirmed(h, u) ==
    /\ initPc[h][u] = "await"
    /\ [user |-> u, key |-> pairs[h][u]] \notin annPool
    /\ initPc' = [initPc EXCEPT ![h][u] = "idle"]
    /\ UNCHANGED <<keyFile, pairs, cache, pki, annPool>>

\* The announcement cannot be sent, or waiting for its receipt times out while
\* the transaction stays with the node: the exception leaves
\* initialize_keys_for and the local pair stays in the store.
AnnounceFails(h, u) ==
    /\ initPc[h][u] \in {"announce", "await"}
    /\ initPc' = [initPc EXCEPT ![h][u] = "idle"]
    /\ UNCHANGED <<keyFile, pairs, cache, pki, annPool>>

\* The PKI contract executes announcePk: it overwrites without a check.
AnnouncePk(a) ==
    /\ a \in annPool
    /\ pki' = [pki EXCEPT ![a.user] = a.key]
    /\ annPool' = annPool \ {a}
    /\ UNCHANGED <<keyFile, pairs, cache, initPc>>

\* getPk for an address that is not cached yet: ask the PKI, keep the answer.
GetPk(h, v) ==
    /\ KeysIdle(h)
    /\ cache[h][v] = NoKey
    /\ pki[v] # NoKey
    /\ cache' = [cache EXCEPT ![h][v] = pki[v]]
    /\ UNCHANGED <<keyFile, pairs, initPc, pki, annPool>>

\* Mutation: the progress of an initialisation survives the restart.
RestartForgettingProgress(h) ==
    /\ pairs' = [pairs EXCEPT ![h] = [u \in Users |-> NoKey]]
    /\ cache' = [cache EXCEPT ![h] = [u \in Users |-> NoKey]]
    /\ UNCHANGED <<keyFile, initPc, pki, annPool>>

\* The process ends at any point and is started again, or Runtime.reset drops
\* its singletons: only the key files survive.
RestartKeystore(h) ==
    /\ pairs' = [pairs EXCEPT ![h] = [u \in Users |-> NoKey]]
    /\ cache' = [cache EXCEPT ![h] = [u \in Users |-> NoKey]]
    /\ initPc' = [initPc EXCEPT ![h] = [u \in Users |-> "idle"]]
    /\ UNCHANGED <<keyFile, pki, annPool>>

\* One step of initialize_keys_for(u) on host h.
InitStep(h, u) ==
    \/ AddKeypair(h, u)
    \/ RequestAnswered(h, u)
    \/ RequestFails(h, u)
    \/ AnnouncePublicKey(h, u)
    \/ AnnounceConfirmed(h, u)
    \/ AnnounceFails(h, u)

KsNext ==
    \/ \E h \in Hosts, u \in Users : InitStep(h, u)
    \/ \E a \in annPool : AnnouncePk(a)
    \/ \E h \in Hosts, v \in Users : GetPk(h, v)
    \/ \E h \in Hosts : RestartKeystore(h)

KsSpec == KsInit /\ [][KsNext]_ksVars

-----------------------------------------------------------------------------
(* Properties                                                              *)

\* A key that the PKI has returned once is the key it returns for ever:
\* restarts, lost answers, timed-out and repeated announcements included.
\* announcePk overwrites without a check (library_contracts.py:43-48) and
\* add_keypair announces after every failed request (interface.py:464-465), so
\* it rests on the key file and on OneHome alone.
PkiKeyStable == [][\A u \in Users : pki[u] # NoKey => pki'[u] = pki[u]]_ksVars

\* getPk never invalidates local_pk_store (interface.py:484-490): what it
\* returns from there must still be what the PKI contract, which the
\* verification on the chain asks, returns.
CacheCoherent ==
    \A h \in Hosts, v \in Users : cache[h][v] # NoKey => cache[h][v] = pki[v]

\* add_keypair accepts any announced key (interface.py:462-463) without
\* comparing it to the pair it just stored: the secret key a process uses must
\* nevertheless belong to the public key the PKI returns for the account.
OwnKeyAnnounced ==
    \A h \in Hosts, u \in Users :
        (pairs[h][u] # NoKey /\ pki[u] # NoKey) => pairs[h][u] = pki[u]

\* initialize_keys_for skips an account whose pair is in the store
\* (has_initialized_keys_for, offchain.py:238), and add_keypair promises to
\* "announce the public key to the pki if necessary" (interface.py:454): an
\* account whose initialisation is over and would be skipped is announced.
InitializedMeansAnnounced ==
    \A h \in Hosts, u \in Users :
        (HasInitializedKeys(h, u) /\ initPc[h][u] = "idle") => pki[u] # NoKey

\* The comment in add_keypair: "Announce if not yet in pki" (interface.py:461).
\* An announcement is sent only while the PKI has no key for the account.
AnnounceOnlyIfMissing ==
    [][\A a \in annPool' \ annPool : pki[a.user] = NoKey]_ksVars
=============================================================================

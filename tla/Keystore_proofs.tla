-------------------------- MODULE Keystore_proofs --------------------------
(***************************************************************************)
(* Proofs about Keystore: its state stays well-formed and, when no account *)
(* is used from two data directories, the chain, the key files, the keys   *)
(* in memory and the cached public keys never disagree.                    *)
(***************************************************************************)
EXTENDS Keystore, TLAPS

-----------------------------------------------------------------------------
(* The inductive invariant                                                 *)

\* Within initialize_keys_for the pair is in the store already.
KsProgress ==
    \A h \in Hosts, u \in Users : initPc[h][u] # "idle" => pairs[h][u] # NoKey

\* Key files exist for accounts of the host only, ...
FilesHosted ==
    \A h \in Hosts, u \in Users : keyFile[h][u] # NoKey => Hosted(h, u)

\* ... the pair in memory is the one in the file, ...
PairsFromFiles ==
    \A h \in Hosts, u \in Users : pairs[h][u] # NoKey => pairs[h][u] = keyFile[h][u]

\* ... and so are the keys in announcements under way and in the PKI.
PoolFromFiles ==
    \A a \in annPool : \E h \in Hosts : keyFile[h][a.user] = a.key

PkiFromFiles ==
    \A u \in Users : pki[u] # NoKey => \E h \in Hosts : keyFile[h][u] = pki[u]

KsTypeInv == KsTypeOK /\ KsProgress

KsInv ==
    /\ KsTypeInv
    /\ FilesHosted
    /\ PairsFromFiles
    /\ PoolFromFiles
    /\ PkiFromFiles
    /\ CacheCoherent

-----------------------------------------------------------------------------

LEMMA KsTypeInvInit == KsInit => KsTypeInv
BY DEF KsInit, KsTypeInv, KsTypeOK, KsProgress, KeyTable, MaybeKey

LEMMA InitStepType ==
    ASSUME KsTypeInv, NEW h \in Hosts, NEW u \in Users, InitStep(h, u)
    PROVE  KsTypeInv'
<1> USE NoKeyAssumption DEF KsTypeInv, KsTypeOK, KsProgress, KeyTable, MaybeKey
<1>1. CASE AddKeypair(h, u)
  <2>1. PICK k \in Keys : GenerateOrLoad(h, u, k) /\ pairs' = [pairs EXCEPT ![h][u] = k]
    BY <1>1 DEF AddKeypair
  <2>2. keyFile' \in KeyTable /\ pairs' \in KeyTable
    BY <2>1 DEF GenerateOrLoad
  <2>3. KsProgress'
    BY <1>1, <2>1 DEF AddKeypair
  <2> QED BY <1>1, <2>2, <2>3 DEF AddKeypair
<1>2. CASE RequestAnswered(h, u)
  BY <1>2 DEF RequestAnswered
<1>3. CASE RequestFails(h, u)
  BY <1>3 DEF RequestFails
<1>4. CASE AnnouncePublicKey(h, u)
  <2>1. pairs[h][u] \in Keys
    BY <1>4 DEF AnnouncePublicKey
  <2> QED BY <1>4, <2>1 DEF AnnouncePublicKey
<1>5. CASE AnnounceConfirmed(h, u)
  BY <1>5 DEF AnnounceConfirmed
<1>6. CASE AnnounceFails(h, u)
  BY <1>6 DEF AnnounceFails
<1> QED BY <1>1, <1>2, <1>3, <1>4, <1>5, <1>6 DEF InitStep

LEMMA KsTypeInvNext == KsTypeInv /\ [KsNext]_ksVars => KsTypeInv'
<1> SUFFICES ASSUME KsTypeInv, [KsNext]_ksVars PROVE KsTypeInv'
  OBVIOUS
<1> USE DEF KsTypeInv, KsTypeOK, KsProgress, KeyTable, MaybeKey
<1>1. CASE \E h \in Hosts, u \in Users : InitStep(h, u)
  BY <1>1, InitStepType
<1>2. ASSUME NEW a \in annPool, AnnouncePk(a) PROVE KsTypeInv'
  BY <1>2 DEF AnnouncePk
<1>3. ASSUME NEW h \in Hosts, NEW v \in Users, GetPk(h, v) PROVE KsTypeInv'
  BY <1>3 DEF GetPk
<1>4. ASSUME NEW h \in Hosts, RestartKeystore(h) PROVE KsTypeInv'
  BY <1>4 DEF RestartKeystore
<1>5. CASE UNCHANGED ksVars
  BY <1>5 DEF ksVars
<1> QED BY <1>1, <1>2, <1>3, <1>4, <1>5 DEF KsNext

\* The tables of the keystores and of the PKI stay well-formed, and only
\* complete pairs are announced, whatever requests, announcements and
\* processes fail.
THEOREM KsTypeCorrect == KsSpec => []KsTypeOK
<1>1. KsTypeInv => KsTypeOK
  BY DEF KsTypeInv
<1> QED BY <1>1, KsTypeInvInit, KsTypeInvNext, PTL DEF KsSpec

-----------------------------------------------------------------------------
(* Coherence                                                               *)

\* With one home per account, two hosts cannot hold files for the same one.
LEMMA OneFile ==
    ASSUME OneHome, FilesHosted, NEW u \in Users, NEW g \in Hosts, NEW h \in Hosts,
           keyFile[g][u] # NoKey, keyFile[h][u] # NoKey
    PROVE  g = h
BY DEF OneHome, FilesHosted, Hosted

\* The files only grow: a step that keeps existing files keeps what was made
\* from them.
LEMMA KeyFilesPersist ==
    ASSUME KsTypeInv, [KsNext]_ksVars
    PROVE  \A h \in Hosts, u \in Users :
              keyFile[h][u] # NoKey => keyFile'[h][u] = keyFile[h][u]
<1> USE DEF KsTypeInv, KsTypeOK, KeyTable
<1>1. ASSUME NEW h \in Hosts, NEW u \in Users, AddKeypair(h, u)
      PROVE  \A g \in Hosts, v \in Users :
                keyFile[g][v] # NoKey => keyFile'[g][v] = keyFile[g][v]
  BY <1>1 DEF AddKeypair, GenerateOrLoad
<1>2. CASE UNCHANGED keyFile
  BY <1>2
<1> QED BY <1>1, <1>2 DEF KsNext, InitStep, RequestAnswered, RequestFails,
           AnnouncePublicKey, AnnounceConfirmed, AnnounceFails, AnnouncePk, GetPk,
           RestartKeystore, ksVars

LEMMA KsInvInit == KsInit => KsInv
<1> SUFFICES ASSUME KsInit PROVE KsInv
  OBVIOUS
<1>1. KsTypeInv
  BY KsTypeInvInit
<1> QED BY <1>1 DEF KsInit, KsInv, FilesHosted, PairsFromFiles, PoolFromFiles,
           PkiFromFiles, CacheCoherent

\* When the PKI has a key for u, the home of u has it in its file, and every
\* key on its way to the PKI is the same.
LEMMA PoolAgreesWithPki ==
    ASSUME OneHome, KsInv, NEW a \in annPool, pki[a.user] # NoKey
    PROVE  pki[a.user] = a.key
<1> USE DEF KsInv, KsTypeInv, KsTypeOK
<1>0. a.user \in Users /\ a.key \in Keys
  OBVIOUS
<1>1. PICK g \in Hosts : keyFile[g][a.user] = a.key
  BY DEF PoolFromFiles
<1>2. PICK h \in Hosts : keyFile[h][a.user] = pki[a.user]
  BY <1>0 DEF PkiFromFiles
<1>3. g = h
  BY <1>0, <1>1, <1>2, OneFile, NoKeyAssumption
<1> QED BY <1>1, <1>2, <1>3

\* A known key of the PKI survives every step.
LEMMA PkiStep ==
    ASSUME OneHome, KsInv, [KsNext]_ksVars
    PROVE  \A u \in Users : pki[u] # NoKey => pki'[u] = pki[u]
<1> USE DEF KsInv, KsTypeInv, KsTypeOK
<1>1. ASSUME NEW a \in annPool, AnnouncePk(a)
      PROVE  \A u \in Users : pki[u] # NoKey => pki'[u] = pki[u]
  BY <1>1, PoolAgreesWithPki DEF AnnouncePk
<1>2. CASE UNCHANGED pki
  BY <1>2
<1> QED BY <1>1, <1>2 DEF KsNext, InitStep, AddKeypair, RequestAnswered,
           RequestFails, AnnouncePublicKey, AnnounceConfirmed, AnnounceFails,
           GetPk, RestartKeystore, ksVars

LEMMA AddKeypairInv ==
    ASSUME KsInv, NEW h \in Hosts, NEW u \in Users, AddKeypair(h, u)
    PROVE  FilesHosted' /\ PairsFromFiles'
<1> USE NoKeyAssumption DEF KsInv, KsTypeInv, KsTypeOK, KeyTable, MaybeKey
<1>1. PICK k \in Keys : GenerateOrLoad(h, u, k) /\ pairs' = [pairs EXCEPT ![h][u] = k]
  BY DEF AddKeypair
<1>2. keyFile' = [keyFile EXCEPT ![h][u] = k]
  BY <1>1 DEF GenerateOrLoad
<1>3. FilesHosted'
  BY <1>2 DEF FilesHosted, AddKeypair, Hosted
<1>4. PairsFromFiles'
  <2> SUFFICES ASSUME NEW g \in Hosts, NEW v \in Users, pairs'[g][v] # NoKey
               PROVE  pairs'[g][v] = keyFile'[g][v]
    BY DEF PairsFromFiles
  <2>1. CASE g = h /\ v = u
    BY <1>1, <1>2, <2>1
  <2>2. CASE ~(g = h /\ v = u)
    BY <1>1, <1>2, <2>2 DEF PairsFromFiles
  <2> QED BY <2>1, <2>2
<1> QED BY <1>3, <1>4

LEMMA KsInvNext ==
    ASSUME OneHome, KsInv, [KsNext]_ksVars
    PROVE  KsInv'
<1>1. KsTypeInv'
  BY KsTypeInvNext DEF KsInv
<1>2. \A h \in Hosts, u \in Users :
         keyFile[h][u] # NoKey => keyFile'[h][u] = keyFile[h][u]
  BY KeyFilesPersist DEF KsInv
<1>3. \A u \in Users : pki[u] # NoKey => pki'[u] = pki[u]
  BY PkiStep
<1> USE NoKeyAssumption DEF KsInv, KsTypeInv, KsTypeOK, KeyTable, MaybeKey
<1>4. FilesHosted' /\ PairsFromFiles'
  <2>1. ASSUME NEW h \in Hosts, NEW u \in Users, AddKeypair(h, u)
        PROVE  FilesHosted' /\ PairsFromFiles'
    BY <2>1, AddKeypairInv
  <2>2. ASSUME NEW h \in Hosts, RestartKeystore(h)
        PROVE  FilesHosted' /\ PairsFromFiles'
    BY <2>2 DEF RestartKeystore, FilesHosted, PairsFromFiles, Hosted
  <2>3. CASE UNCHANGED <<keyFile, pairs>>
    BY <2>3 DEF FilesHosted, PairsFromFiles, Hosted
  <2> QED BY <2>1, <2>2, <2>3 DEF KsNext, InitStep, RequestAnswered, RequestFails,
             AnnouncePublicKey, AnnounceConfirmed, AnnounceFails, AnnouncePk, GetPk,
             ksVars
<1>5. PoolFromFiles'
  <2> SUFFICES ASSUME NEW a \in annPool'
               PROVE  \E h \in Hosts : keyFile'[h][a.user] = a.key
    BY DEF PoolFromFiles
  <2>1. CASE a \in annPool
    BY <1>2, <2>1 DEF PoolFromFiles
  <2>2. ASSUME NEW h \in Hosts, NEW u \in Users, AnnouncePublicKey(h, u), a \notin annPool
        PROVE  keyFile'[h][a.user] = a.key
    <3>1. a = [user |-> u, key |-> pairs[h][u]]
      BY <2>2 DEF AnnouncePublicKey
    <3>2. pairs[h][u] # NoKey
      BY <2>2 DEF AnnouncePublicKey, KsProgress
    <3> QED BY <2>2, <3>1, <3>2 DEF AnnouncePublicKey, PairsFromFiles
  <2>3. CASE annPool' \subseteq annPool
    BY <2>1, <2>3
  <2> QED BY <2>1, <2>2, <2>3 DEF KsNext, InitStep, AddKeypair, RequestAnswered,
             RequestFails, AnnounceConfirmed, AnnounceFails, AnnouncePk, GetPk,
             RestartKeystore, ksVars
<1>6. PkiFromFiles'
  <2> SUFFICES ASSUME NEW u \in Users, pki'[u] # NoKey
               PROVE  \E h \in Hosts : keyFile'[h][u] = pki'[u]
    BY DEF PkiFromFiles
  <2>1. CASE pki[u] # NoKey
    BY <1>2, <1>3, <2>1 DEF PkiFromFiles
  <2>2. CASE pki[u] = NoKey
    <3>1. PICK a \in annPool : AnnouncePk(a)
      BY <2>2 DEF KsNext, InitStep, AddKeypair, RequestAnswered, RequestFails,
         AnnouncePublicKey, AnnounceConfirmed, AnnounceFails, GetPk,
         RestartKeystore, ksVars
    <3>2. a.user = u /\ pki'[u] = a.key
      BY <2>2, <3>1 DEF AnnouncePk
    <3>3. PICK h \in Hosts : keyFile[h][u] = a.key
      BY <3>2 DEF PoolFromFiles
    <3> QED BY <1>2, <3>2, <3>3
  <2> QED BY <2>1, <2>2
<1>7. CacheCoherent'
  <2>1. ASSUME NEW h \in Hosts, NEW v \in Users, GetPk(h, v)
        PROVE  CacheCoherent'
    BY <2>1 DEF GetPk, CacheCoherent
  <2>2. ASSUME NEW h \in Hosts, RestartKeystore(h)
        PROVE  CacheCoherent'
    BY <2>2 DEF RestartKeystore, CacheCoherent
  <2>3. CASE UNCHANGED cache
    BY <1>3, <2>3 DEF CacheCoherent
  <2> QED BY <2>1, <2>2, <2>3 DEF KsNext, InitStep, AddKeypair, RequestAnswered,
             RequestFails, AnnouncePublicKey, AnnounceConfirmed, AnnounceFails,
             AnnouncePk, ksVars
<1> QED BY <1>1, <1>4, <1>5, <1>6, <1>7

\* What the hosts hold in files and in memory, what is announced and what is on
\* its way to the PKI belong together in every reachable state.
THEOREM KsInvariant == ASSUME OneHome PROVE KsSpec => []KsInv
<1>1. KsInit => KsInv
  BY KsInvInit
<1>2. KsInv /\ [KsNext]_ksVars => KsInv'
  BY KsInvNext
<1> QED BY <1>1, <1>2, PTL DEF KsSpec

\* If no account is used from two data directories, a key the PKI has returned
\* is the key it returns for ever, for any number of hosts, accounts and keys
\* and any interleaving of restarts, lost answers and late announcements.
THEOREM KeyStability == ASSUME OneHome PROVE KsSpec => PkiKeyStable
<1>1. KsInv /\ [KsNext]_ksVars
         => [\A u \in Users : pki[u] # NoKey => pki'[u] = pki[u]]_ksVars
  BY PkiStep
<1> QED BY <1>1, KsInvariant, PTL DEF KsSpec, PkiKeyStable

\* Under the same condition the public keys every process has cached are the
\* ones the PKI contract returns.
THEOREM CacheCorrect == ASSUME OneHome PROVE KsSpec => []CacheCoherent
<1>1. KsInv => CacheCoherent
  BY DEF KsInv
<1> QED BY <1>1, KsInvariant, PTL

LEMMA OwnKeyFromInv == ASSUME OneHome, KsInv PROVE OwnKeyAnnounced
<1> USE DEF KsInv, KsTypeInv, KsTypeOK, KeyTable
<1> SUFFICES ASSUME NEW h \in Hosts, NEW u \in Users,
                    pairs[h][u] # NoKey, pki[u] # NoKey
             PROVE  pairs[h][u] = pki[u]
  BY DEF OwnKeyAnnounced
<1>1. keyFile[h][u] = pairs[h][u]
  BY DEF PairsFromFiles
<1>2. PICK g \in Hosts : keyFile[g][u] = pki[u]
  BY DEF PkiFromFiles
<1>3. g = h
  BY <1>1, <1>2, OneFile
<1> QED BY <1>1, <1>2, <1>3

\* Under the same condition the key pair a process uses for an account belongs
\* to the public key that is announced for it.
THEOREM OwnKeyCorrect == ASSUME OneHome PROVE KsSpec => []OwnKeyAnnounced
<1>1. KsInv => OwnKeyAnnounced
  BY OwnKeyFromInv
<1> QED BY <1>1, KsInvariant, PTL
=============================================================================

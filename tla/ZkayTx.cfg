SPECIFICATION Spec
CONSTANTS
    h1 = h1
    h2 = h2
    u1 = u1
    u2 = u2
    k1 = k1
    k2 = k2
    a = a
    b = b
    p = p
    NoKey = NoKey
    All = All
    NoCall = NoCall
    NotRead = NotRead
    Torn = Torn
    Zero = 0
    Rnd = {1}
    MaxTxs = 2
    Hosts <- MCHosts
    Users <- MCUsers
    Keys <- MCKeys
    Accounts <- MCAccounts
    Locs <- MCLocs
    Owner <- MCOwner
    Vals <- MCVals
    Calls <- MCCalls
    Guard <- MCGuard
    Eff <- MCEff
INVARIANT TypeOK
INVARIANT Decryptable
INVARIANT RevertOnlyOnConflict
INVARIANT OutcomeTruthful
PROPERTY Serializable

SPECIFICATION KsSpec
CONSTANTS
    h1 = h1
    h2 = h2
    u1 = u1
    u2 = u2
    k1 = k1
    k2 = k2
    k3 = k3
    NoKey = NoKey
    Hosts <- MCHosts
    Users <- MCUsers
    Keys <- MCKeys
    Accounts <- MCAccounts
SYMMETRY Symmetry
PROPERTY AnnounceOnlyIfMissing

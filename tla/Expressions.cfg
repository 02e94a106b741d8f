SPECIFICATION Spec
CONSTANTS
    me = me
    other = other
    noKey = noKey
    c1 = c1
    c2 = c2
    none = none
    vx = vx
    vy = vy
    vw = vw
    vm = vm
    local = local
    additive = additive
    plain = plain
    paillier = paillier
    ecdh = ecdh
    Programs <- MCPrograms
    StateVars = {vx, vy, vw, vm}
    CircuitVars = {vx, vy, vw, local}
    HomOrder <- MCHomOrder
    CryptoOf <- MCCryptoOf
    Sizes <- MCSizes
    MaxSize = 16
    AddressSize = 16
    FieldPrime = 13
    VarType <- MCVarType
    Keys = {me, other}
    NoKey = noKey
    KeyValues = {c1, c2}
    Stores <- MCStores
    None = none
INVARIANTS TypeOK SummariesExact BackendsListed CircuitsAreFinite SimulationAgrees SerializedAlike
PROPERTY Terminates
CHECK_DEADLOCK FALSE

SPECIFICATION Spec
CONSTANTS
    me = me
    all = all
    sv = sv
    fv = fv
    pv = pv
    nv = nv
    fresh = fresh
    call = call
    a1 = a1
    a2 = a2
    everybody = everybody
    Me = me
    All = all
    Fresh = fresh
    Call = call
    Everybody = everybody
    StateVars = {sv, fv}
    Params = {pv}
    Locals = {nv}
    Addrs = {a1, a2}
    MaxDepth = 9
    Nodes <- MCNodes
    Immutable <- MCImmutable
    Programs <- MCPrograms
INVARIANTS TypeOK AliasesHold
CHECK_DEADLOCK FALSE

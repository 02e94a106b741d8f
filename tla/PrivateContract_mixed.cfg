SPECIFICATION Spec
CONSTANTS
    Me = "me"
    All = "all"
    StateVars = {"own", "a", "b", "bal", "n"}
    Final = {"own"}
    Labels = {"to"}
    TypeOf <- Types
    StaticLabels <- MCStatics
    Accounts = {A1, A2}
    Contracts <- MixedContracts
    Main = "main"
    Mappings = {"bal"}
    V = 3
    MaxTx = 1
INVARIANT SenderIsStored
SYMMETRY AccountSymmetry
CHECK_DEADLOCK FALSE

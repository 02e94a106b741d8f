SPECIFICATION Spec
CONSTANTS
    Me = "me"
    All = "all"
    StateVars = {"own", "a", "b", "bal", "n"}
    Final = {"own"}
    Labels = {"to"}
    TypeOf <- Types
    StaticLabels <- MCStatics
    Accounts = {A1, A2}
    Contracts <- MCContracts
    Main = "main"
    Mappings = {"bal"}
    V = 3
    MaxTx = 1
INVARIANTS TypeOK HonestCallsSucceed RevealsNothing
PROPERTY DoesWhatTheSourceDoes
SYMMETRY AccountSymmetry
CHECK_DEADLOCK FALSE

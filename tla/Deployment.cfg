CONSTANTS
    alice = alice  bob = bob
    s1 = s1  s2 = s2
    f = f  g = g
    c1 = c1  c2 = c2
    groth16 = groth16  gm17 = gm17
    p1 = p1  p2 = p2
    Hosts = {alice, bob}
    Developers = {alice}
    Sources = {s1, s2}
    Names = {f, g}
    Circuits = {c1, c2}
    CircuitOf <- MCCircuitOf
    Schemes = {groth16, gm17}
    Projects <- MCProjects
    NoFile = NoFile
    Pkis = {p1, p2}
    PkiOf <- MCPkiOf
    LibSchemes = {gm17}
    MaxCommands = 3
    MaxCuts = 1
    MaxSessions = 2
    MaxDeploys = 2
    Others <- MCOthers
    MaxFailures = 1
SPECIFICATION MCSpec
INVARIANTS TypeOK KeysFitUnlessCut ConnectGuaranteeUnlessCut ConnectableUnlessStuck
CHECK_DEADLOCK FALSE

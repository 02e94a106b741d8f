SPECIFICATION Spec
CONSTANTS
    outer = outer
    inner = inner
    leaf = leaf
    plain = plain
    view = view
    NoList = NoList
    Unset = Unset
    Fns <- MCFns
    Public <- MCPublic
    Verified <- MCVerified
    Own <- MCOwn
    Body <- MCBody
INVARIANT TypeOK
INVARIANT CleanWhenIdle
INVARIANT ProofInputsInPlace
INVARIANT DirectMeansExternalUnlessRefused

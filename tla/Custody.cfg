SPECIFICATION Spec
CONSTANTS
    Archivers = {a1, a2}
    Readers = {r1}
    good = good
    bad = bad
    sig1 = sig1
    sig2 = sig2
    forged = forged
    Payloads = {good, bad}
    Sound = {good}
    Bundles = {sig1, sig2, forged}
    Genuine = {sig1, sig2}
    Adoption = "required"
    Foreign <- MCForeign
    CommitKey = CommitKey
    Damaged = Damaged
    None = None
    MaxFaults = 2
SYMMETRY ArchiverSymmetry
CHECK_DEADLOCK FALSE
INVARIANTS
    NothingPremature
    ConfirmedIsComplete
    ConflictIsReal
    CreatedOnce
    ErrorIsExplained
    VerdictWasTrue
PROPERTY
    ImplementsRegister

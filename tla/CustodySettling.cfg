SPECIFICATION FairSpec
CONSTANTS
    Archivers = {a1, a2}
    Readers = {}
    good = good
    bad = bad
    sig1 = sig1
    sig2 = sig2
    forged = forged
    Payloads = {good, bad}
    Sound = {good}
    Bundles = {sig1, sig2, forged}
    Genuine = {sig1, sig2}
    Adoption = "required"
    Foreign <- MCForeign
    CommitKey = CommitKey
    Damaged = Damaged
    None = None
    MaxFaults = 2
CHECK_DEADLOCK FALSE
PROPERTY
    CommitSettles

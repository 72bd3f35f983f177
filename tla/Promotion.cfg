SPECIFICATION FairSpec
CONSTANTS
  ReleaseCount = 2
  ImageCount = 2
  NoDigest = NoDigest
  Releases <- MCReleases
  Images <- MCImages
  Units <- MCUnits
  Digests <- MCDigests
  Digest <- MCDigest
  Members <- FullMembers
  Scope <- MCOpen
  Soak <- MCSoak
  Quarantined = {}
  Seeded = {}
  AdminWrites = FALSE
  MaxClock = 1
  MaxFaults = 2
INVARIANTS
  HomServesSoakedApprovals
  ReceiptIsRecoverable
PROPERTIES
  ApprovalOnlyWhenWhole
  ImplementsChannel
  CandidateIsSettled
  ApprovalIsSettled
CHECK_DEADLOCK FALSE

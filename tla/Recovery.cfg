SPECIFICATION Spec
CONSTANTS
  ReleaseCount = 4
  ImageCount = 3
  NoDigest = NoDigest
  Releases <- MCReleases
  Images <- MCImages
  Units <- MCUnits
  Digests <- MCDigests
  Digest <- MCDigest
  Members <- SplitMembers
  Scope <- MCHomOnly
  Soak <- MCSoak
  Quarantined = {4}
  Seeded = {1, 2, 3, 4}
  AdminWrites = TRUE
  MaxClock = 1
  MaxFaults = 2
INVARIANTS
  UnheldTagIsRecorded
  UnheldUnitIsOneRelease
  EveryMemberHeldWhileWriting
  PassedKeepsWatermark
PROPERTIES
  HoldLiftedBySuccess
  ReceiptOnlyWhenWhole
CHECK_DEADLOCK FALSE

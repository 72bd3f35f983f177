SPECIFICATION OperatedSpec
CONSTANTS
  ReleaseCount = 2
  ImageCount = 2
  NoDigest = NoDigest
  Releases <- MCReleases
  Images <- MCImages
  Units <- MCUnits
  Digests <- MCDigests
  Digest <- MCDigest
  Members <- FullMembers
  Scope <- MCHomOnly
  Soak <- MCSoak
  Quarantined = {}
  Seeded = {1, 2}
  AdminWrites = FALSE
  MaxClock = 1
  MaxFaults = 3
PROPERTIES
  HoldIsLiftable
CHECK_DEADLOCK FALSE

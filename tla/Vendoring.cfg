\* Three builds in either mode, or three fetches, while the pins change.
CONSTANTS
  PinSets <- MCPinSets
  Commits = {"c1", "c2"}
  Refs = {"v1.5.4", "v1.6.0"}
  Modes = {"pinned", "head"}
  MaxBuilds = 3
  Fetchers = {1, 2, 3}
  OtherAsset = "other"
SPECIFICATION Spec
CONSTRAINT BuildsOrFetches
INVARIANTS TypeOK CachedBuildsAreTheirKeys PassedArtifactIsPinned VendoredIsVerified
           VendoredStays CheckPinsAgrees
CHECK_DEADLOCK FALSE

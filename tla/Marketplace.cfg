SPECIFICATION Spec
CONSTANTS
  Providers <- MCProviders
  Ranges <- MCRanges
  NoVendor = 0
  MaxInvocations = 2
  FullTraffic = TRUE
INVARIANTS TypeOK PinsHonoured PerformanceBeatsTrust AlikeFollowsBaseline
PROPERTY BestServed

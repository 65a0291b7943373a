SPECIFICATION Spec
CONSTANTS
  Providers <- TwoProviders
  Ranges <- EqualsRange
  NoVendor = 0
  MaxInvocations = 2
  FullTraffic = TRUE
INVARIANT PinsHonoured

SPECIFICATION Spec
CONSTANTS
  Providers <- TwoProviders
  Ranges <- AnyVersion
  NoVendor = 0
  MaxInvocations = 1
  FullTraffic = FALSE
PROPERTY NobodyStarves

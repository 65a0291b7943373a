SPECIFICATION Spec
CONSTANTS
  r1 = r1
  r2 = r2
  acme = acme
  globex = globex
  s1 = s1
  s2 = s2
  Malformed = Malformed
  Requests <- OneRequest
  Names <- TwoNames
  Vendors <- TwoVendors
  Schemas <- MCSchemas
  Payloads <- MCPayloads
  Edited <- OneName
  MaxEdits = 1
INVARIANT NeverSeesMalformedInput
CHECK_DEADLOCK FALSE

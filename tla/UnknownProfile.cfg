CONSTANTS
  prod = prod
  test = test
  aud = aud
  tenant = tenant
  p1 = p1
  p2 = p2
  id = id
  token = token
  assertion = assertion
  path = path
  Null = Null
  Unknown = Unknown
  Configurations <- MCConfigurations
  Hosts <- MCHosts
  Services <- MCServices
  KnownAs <- MCKnownAs
  Durations = {"30s"}
  APIMajor = 1
  APIMinorRequired = 1
  ProviderVersion <- MCProviderVersion
  MaxRetries = 1
SPECIFICATION Spec
INVARIANTS UnknownEndpointIsRefused
CHECK_DEADLOCK FALSE

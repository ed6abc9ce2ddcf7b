CONSTANTS
  api = api
  web = web
  dns = dns
  DNS = DNS
  kv = kv
  Kv = Kv
  KV = KV
  hsm = hsm
  pol = pol
  POL = POL
  alt = alt
  ungranted = ungranted
  std = std
  tls = tls
  gone = gone
  ec = ec
  noexport = noexport
  text = text
  crypto = crypto
  own = own
  svc = svc
  host = host
  Null = Null
  Unknown = Unknown
  NoRegistration = NoRegistration
  NoState = NoState
  NoPlan = NoPlan
  Replaced = Replaced
  Names = {api, web}
  DNSNames = {dns, DNS}
  Vaults = {kv, Kv, KV, hsm}
  PolicyIDs = {pol, POL, alt, ungranted}
  Issuance = {std, tls, gone, ec, noexport}
  Malformed = {ec}
  Unexportable = {noexport}
  CryptoOnly = crypto
  Texts = {text, crypto}
  LabelKeys = {own, svc}
  Endpoints = {host}
  Canonical <- MCCanonical
  Folded <- MCFolded
  Ungranted <- MCUngranted
  Elsewhere <- MCElsewhere
  Configs <- AllConfigs
  GrantTables <- MCGrants
  Offered = {std, tls, ec, noexport}
  InjectedLabel = svc
  MaxEdits = 2
  MaxEvents = 1
  MaxApplies = 2
SPECIFICATION Spec
INVARIANTS TypeOK ApplyThenEmptyPlan AppliedMeansConfigured
PROPERTIES OnlyKnownContradictions DestinationStays ReissueIsAnnounced UriStays PurgeGateSees
CHECK_DEADLOCK FALSE

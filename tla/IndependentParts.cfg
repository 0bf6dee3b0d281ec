SPECIFICATION Spec
CONSTANTS
  c1 = c1
  p1 = p1
  r1 = r1
  f1 = f1
  f2 = f2
  Clients = {c1}
  Windows <- MCWindows
  HourSpan = 5
  CleanupSpacing = 2
  LimiterHorizon = 9
  Operations = {"PUBLISH"}
  RateLimits <- MCRateLimits
  DefaultRateLimit <- MCDefaultRateLimit
  WindowHorizon = 7
  p2 = p2
  p3 = p3
  k1 = k1
  k2 = k2
  a1 = a1
  a2 = a2
  a3 = a3
  StoreAuthors = {p1, p2, p3}
  StoreKinds = {k1, k2}
  Addresses = {a1, a2, a3}
  Times = {1, 2}
  StoreIds = {1, 2}
  maxReplaceableEventPubkeys = 1
  maxReplaceableEventsPerPubkey = 1
  maxAddressableEvents = 2
  StoreHorizon = 1
  MaxUnknownReads = 1
  Pubkeys = {p1}
  Roles = {r1}
  Ids = {1, 2}
  MaxGroupEvents = 4
  Fetches = {f1, f2}
  CACHE_TTL = 2
  InfoHorizon = 5
  InvalidRelayUrls <- MCInvalid
  MAX_TLV_ENTRIES = 20
  MAX_RELAY_URL_LENGTH = 512
  MAX_IDENTIFIER_LENGTH = 1024
  DEFAULT_LIMIT = 5000
  Samples <- MCSamples
  HexStrings <- MCHexStrings
  HexPrefixes <- MCHexPrefixes
  PublicKeys <- MCPublicKeys
  PublicKeyOf <- MCPublicKeyOf
  LowercaseOf <- MCLowercaseOf
  WebSocketUrls <- MCWebSocketUrls
  CanonicalUrl <- MCCanonicalUrl
  Coordinates <- MCCoordinates
  NumberOf <- MCNumberOf
  LongTexts <- MCLongTexts
  JsonTexts <- MCJsonTexts
  TextsFound <- MCTextsFound
  LongElements = {"long"}
  LongQueries = {"long"}
  BlankTexts = {"", " "}
  MAX_TAG_COUNT = 9
  MAX_FILTER_VALUES = 3
  MAX_FILTER_COUNT = 2
  MaxKind = 65535
  MIN_CREATED_AT = 2
  MAX_CREATED_AT = 100
  MAX_LIMIT = 5000
  UnixTime = 1000
  Hour = 60
  TenMinutes = 10
  Unset = Unset
  NaN = NaN
  GroupIds = {"g1", "g2"}
  FractionTexts = {"1.5"}
  LeadingNumberOf <- MCLeadingNumberOf
  Geohashes = {"u1"}
  MAX_FREQUENCY = 86400
  MAX_TIMEOUT = 300000
  Refused = Refused
  Garbage = Garbage
  TwoDays = 500
  FacadeUrls = {"u1", "u2"}
  Callbacks = {"cb"}
  PublishCalls = {"q1"}
  MaxRelayObjects = 3
  ManagementCalls = {"m1", "m2"}
  ManagementSigners = {"signer1", "signer2"}
  ManagementMethods <- MCManagementMethods
  z1 = z1
  z2 = z2
  ZapSubscriptions = {z1, z2}
  MaxZaps = 2
  s1 = s1
  s2 = s2
  SimpleCallers = {s1, s2}
  MaxSimpleRequests = 4
  MaxClientKeys = 2
  SimplePermissions = {"sign_event"}
  RequestedPermissions = {}
  MaxBunkerStops = 1
SYMMETRY Symmetry
INVARIANTS
  LimitsAreExact
  AddressableConverges
  ReplaceableIsNewest
  StoresBounded
  GroupIsReconstructed
  ServedIsFresh
  ConnectedHasSession
  CallsEndCleanly
  ForgeriesRefused
  ConversionsReadBack
CHECK_DEADLOCK FALSE

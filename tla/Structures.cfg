\* The data structures and algorithms, each on inputs of its own.
SPECIFICATION Spec
CONSTANTS
  KvWorkers = {kv1, kv2}
  Prompts <- SomePrompts
  MaxBatches = 3
  MaxLives = 2
  CacheWorkers = {"w1", "w2"}
  Texts <- SomeTexts
  MaxTreeSize = 1
  Requesters = {r1, r2}
  MaxOperations = 2
  Pasts <- SomePasts
  HashWorkers <- ThreeWorkers
  Points = {0, 1, 2, 3}
  RingLists <- SomeLists
  RingCallers = {rc1, rc2}
  CounterWidth = 2
  MaxTokens = 4
  StopChoices <- SomeStops
  TokenIds <- SomeTokenIds
  MaxMessages = 3
  PrefillWorkers <- TwoPrefills
  RateWindow = 4
  RateMinSamples = 2
  Kin = {"k1", "k2", "k3"}
  Agents = {1, 2}
  Ranks = {1, 2, 3}
  Spots = {1, 2}
  Tokenizers = {"t1", "t2"}
  Encoders = {"e1", "e2"}
  EntryBytes <- SomeEntryBytes
  MaxEntries = 3
  MaxBytes = 4
  MaxEntryBytes = 3
  Chats = {"c1", "c2", "c3"}
  Models = {"m1", "m2"}
  Unset = Unset
  NoField = NoField
  MaxMergeTokens = 2
  ResponseIds = {"i1", "i2"}
  Users = {"u1", "u2"}
  Nobody = "nobody"
  MaxStores = 3
  Depths = {2}
  MaxStream = 4
  MaxPartial = 3
INVARIANTS
  IndexIsExact ChoicesAreSound DecodingIsExact AnswersAreWhole
  RequestsAreKept RoutingTextsAgree IdentitiesAreStable SettingsAreSound EstimatesAreSound
  RequestsReachTheirWorker AnswersAreExact HistoriesAreSound
PROPERTIES
  TreeIsSound CachesAreExact BindingsAreSound
\* No part but the feed has these workers, and none but the tree these threads.
SYMMETRY PartSymmetry
\* The algorithms end.
CHECK_DEADLOCK FALSE

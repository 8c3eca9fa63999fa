\* Two Programs on two backends, and two Programs of a rank that is scraped.
CONSTANTS
    Keys = {k1, k2}
    Targets = {t1, t2}
    None = None
    MaxRequests = 3
    MaxEpochs = 4
    Tenants = {p1, p2}
    ScrapedRanks = {r1}
    NoRank = NoRank
    TokenCounts = {1, 2}
    NativeTokens = {0, 2}
    Unknown = Unknown
    MaxSnapshots = 2
SPECIFICATION MCSpec
INVARIANTS
  IInv ObservationsAreSound
PROPERTIES
  PlacementsAreFenced RuntimeIsService
CHECK_DEADLOCK FALSE

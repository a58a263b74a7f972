SPECIFICATION Spec
CONSTANTS
  r1 = r1
  Resolvers = {r1}
  Configs <- MCConfigs
  Initial <- MCInitial
  Envelopes <- MCEnvelopes
  CacheMax = 1
  MaxVersion = 2
INVARIANTS TypeOK VersionNamesConfig ResolutionMatchesReference
  ConflictsAreLinted CachesCurrent
CHECK_DEADLOCK FALSE

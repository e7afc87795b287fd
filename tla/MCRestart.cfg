CONSTANTS
  gen = gen
  G = G
  A = A
  E = E
  NoKey = NoKey
  link1 = link1
  link2 = link2
  s1 = s1
  s1x = s1x
  e2A = e2A
  rA = rA
  sA = sA
  rG = rG
  Hash <- RestartHash
  Account <- RestartAccount
  Zero = NoKey
  Block <- RestartBlocks
  EpochLink <- RestartEpochLink
  EpochOf <- RestartEpochOf
  EpochSigner <- RestartEpochSigner
  GenesisHash = gen
  GenesisAccount = G
  Modulus = 4
  Rank <- RestartRank
  publish_thresholds <- RestartThresholds
SPECIFICATION RestartSpec
INVARIANTS
  CachesFollowTables
PROPERTIES
  CommittedCementedStay

CONSTANTS
  gen = gen
  G = G
  A = A
  D = D
  E = E
  NoKey = NoKey
  s1 = s1
  s1x = s1x
  oA = oA
  oAx = oAx
  cA = cA
  sA = sA
  rG = rG
  rGs = rGs
  zA = zA
  oD = oD
  sD = sD
  qA = qA
  nG = nG
  wG = wG
  dG = dG
  eG = eG
  fG = fG
  bG = bG
  oZ = oZ
  pA = pA
  pD = pD
  nD = nD
  link1 = link1
  link2 = link2
  e1G = e1G
  e2G = e2G
  xG = xG
  e1A = e1A
  e2A = e2A
  f1A = f1A
  rA1 = rA1
  rA2 = rA2
  sG = sG
  tG = tG
  vG = vG
  lA = lA
  uA = uA
  Hash <- MixHash
  Account <- MCAccount
  Zero = NoKey
  Block <- MixBlock
  EpochLink <- MCEpochLink
  EpochOf <- MCEpochOf
  EpochSigner <- MCEpochSigner
  GenesisHash = gen
  GenesisAccount = G
  Modulus = 4
  Rank <- MCRank
  publish_thresholds <- MCThresholds
SPECIFICATION Spec
INVARIANTS
  ChainsLinked
  SendsPendingOrReceived
  Conservation
  RepWeightsDelegated
  NestedRollbackAllowed
  VisitedUntouched
  ForkHasRival
  BalancesSumUp
  LedgerInv
PROPERTIES
  ImplementsLattice
  CementedStay
  OnlyDependentsRemoved
  RollbackEnds

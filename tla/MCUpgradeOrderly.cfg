\* Two proxies, the orderly environment with fairness.
SPECIFICATION FairSpec
CONSTANTS
  NProxies = 2
  Commits = {v1, v2, v3, v4}
  MaxNonce = 24
  MaxRequests = 2
  MaxFaults = 1
  MaxEvents = 2
  F = F
  G = G
  s1 = s1
  s2 = s2
  s3 = s3
  v1 = v1
  v2 = v2
  v3 = v3
  v4 = v4
  v5 = v5
  v6 = v6
  SELECTORS_SELECTOR = SELECTORS_SELECTOR
  NoCommit = NoCommit
  NoHash = NoHash
  NoSlot = NoSlot
  Facets <- MCFacets
  Selectors <- MCSelectors
  Initcodes <- MCInitcodes
  facetSrc <- MCFacetSrc
  facet_selectors <- MCFacetSelectors
  facet_initcode <- MCFacetInitcode
  ReadsEnvironment <- MCReadsEnvironment
  Fragile <- MCFragile
  Detections <- MCDetections
INVARIANTS
  AuditIsClean
PROPERTIES
  ServesOneCommit
  RetiredStayRecorded
  UpgradeCompletes

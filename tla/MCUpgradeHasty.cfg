\* deploy is run again after the migration executed and before accept.
SPECIFICATION HastySpec
CONSTANTS
  NProxies = 1
  Commits = {v1}
  MaxNonce = 8
  MaxRequests = 0
  MaxFaults = 0
  MaxEvents = 0
  F = F
  G = G
  s1 = s1
  s2 = s2
  s3 = s3
  v1 = v1
  v2 = v2
  v3 = v3
  v4 = v4
  v5 = v5
  v6 = v6
  SELECTORS_SELECTOR = SELECTORS_SELECTOR
  NoCommit = NoCommit
  NoHash = NoHash
  NoSlot = NoSlot
  Facets <- MCFacets
  Selectors <- MCSelectors
  Initcodes <- MCInitcodes
  facetSrc <- MCFacetSrc
  facet_selectors <- MCFacetSelectors
  facet_initcode <- MCFacetInitcode
  ReadsEnvironment <- MCReadsEnvironment
  Fragile <- MCFragile
  Detections <- MCDetections
INVARIANTS
  AuditIsClean

\* One proxy, any environment: votes on superseded migrations, re-runs, faults.
SPECIFICATION Spec
CONSTANTS
  NProxies = 1
  Commits = {v2, v3, v5}
  MaxNonce = 10
  MaxRequests = 1
  MaxFaults = 1
  MaxEvents = 2
  F = F
  G = G
  s1 = s1
  s2 = s2
  s3 = s3
  v1 = v1
  v2 = v2
  v3 = v3
  v4 = v4
  v5 = v5
  v6 = v6
  SELECTORS_SELECTOR = SELECTORS_SELECTOR
  NoCommit = NoCommit
  NoHash = NoHash
  NoSlot = NoSlot
  Facets <- MCFacets
  Selectors <- MCSelectors
  Initcodes <- MCInitcodes
  facetSrc <- MCFacetSrc
  facet_selectors <- MCFacetSelectors
  facet_initcode <- MCFacetInitcode
  ReadsEnvironment <- MCReadsEnvironment
  Fragile <- MCFragile
  Detections <- MCDetections
INVARIANTS
  IInv
  RecordsVerify
  VerifiedMigrationIsAcceptable
  RerunReuses
  CheckForetellsDeploy

SPECIFICATION Spec
CONSTANTS
  r1 = r1
  r2 = r2
  main = main
  contrib = contrib
  amd64 = amd64
  arm64 = arm64
  s1 = s1
  s2 = s2
  Dists = Dists
  Flat = Flat
  Unset = Unset
  Missing = Missing
  Clients = {r1, r2}
  Codenames = {1, 2}
  LongerNames <- MCLongerNames
  CfgCodename = Unset
  CfgArchs = {}
  CfgComponent = main
  Common = {1}
  Components = {main, contrib}
  Archs = {amd64, arm64}
  DefaultArchs = {amd64, arm64}
  Files <- MCFiles
  InitReleases <- MCInitReleases
  InitStores <- MCInitStores
  ContentsOf <- MCContentsOf
  Manifests <- MCManifests
  Requests <- MCRequests
  Faults = TRUE
  MaxPuts = 1
INVARIANTS
  TypeOK
  OneStanzaEach
  ShownWhereStored
  FetchReturnsStored
  EverythingIsListed
  ReleaseIsRead
  NobodyStuck
PROPERTIES
  ImplementsCatalogue
CHECK_DEADLOCK FALSE

SPECIFICATION ServicesSpec
CHECK_DEADLOCK FALSE
CONSTANTS
  Imports <- MCImports
  ImportAccounts <- MCAccounts
  AiImports <- MCAiImports
  SlotFiles <- MCSlotFiles
  Blocks = {1, 2}
  AiConcurrency = 1
  MaxSuggestions = 1
  MaxFound = 1
  Contents <- RoleCatalogs
  Items <- TwoItems
  Specs <- SavedSpecs
  MinBase = 2
  DefaultHours = 20
  MaxEdits = 2
  MaxRestarts = 1
  Calls <- Calls3
  CatalogNodes <- TwoNodes
  KindOf <- ReadKinds
  TTL = 2
  CacheCap = 1
  MaxTime = 2
  Readers <- MCReaders
  OpOf <- Operations
  LimitOf <- PageLimits
  Source = "neo4j"
  MaxInFlight = 1
  MaxRows = 2
  Replies <- GraphReplies
  Pub = "p"
  Context = TRUE
INVARIANTS
  HoursWellPlaced
  ImportsContained
  PlansSound
  ChatGrounded
  ViewsConsistent
  ReadsExact
  RolesPinned

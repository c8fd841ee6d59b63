SPECIFICATION MCSpec
CONSTANTS
    AdminApps = {"a", "b", "c"}
    Blank = ""
    Metas = {"m1", "m2"}
    BadMeta = "bad"
    Graphs <- MCGraphs
    Catalogs <- MCCatalogs
    Configs <- MCConfigs
    Observed <- MCObserved
    Clients = {"c1", "c2"}
    MaxNodes = 2
    MaxEdges = 1
    MaxRequests = 3
    MaxDbFailures = 1
    Tenants = {"t1", "t2"}
    DeployApps = {"a", "b"}
    Versions = {"v1", "v2"}
    MaxTs = 3
    MaxTrackedApps = 2
    MaxMarkers = 3
    MaxDeployFaults = 1
INVARIANTS
    GraphStoreTypeOK
    ImportReplaces
    AnswersCoherent
    MarkersExact
CHECK_DEADLOCK FALSE

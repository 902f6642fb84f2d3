\* One commit, an error in its completion and a scan.
SPECIFICATION FairSpec
CONSTANTS
    None = None
    p1 = p1  p2 = p2  a1 = a1  d1 = d1
    Procs = {p1}
    Preps = {1}
    Assets = {a1}
    Deployments = {d1}
    AssetsOf <- OneAsset
    DeploymentOf <- OneDeployment
    AssetOf <- SameAsset
    MaxTroubles = 2
CHECK_DEADLOCK FALSE
PROPERTIES PendingIsFinished

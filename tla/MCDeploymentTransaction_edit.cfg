\* One Deployment, two processes, and the user editing the same files.
SPECIFICATION Spec
CONSTANTS
    file1 = file1  file2 = file2  file3 = file3  folder = folder
    dep1 = dep1
    first = first  changed = changed  user = user
    in1 = in1
    asset1 = asset1  asset2 = asset2
    NoBytes = NoBytes  NoProc = NoProc  NoTxn = NoTxn  NoPath = NoPath
    NoDeployment = NoDeployment  NoInputs = NoInputs
    Paths = {file1, file2}
    Keys = {file1, file2, folder}
    Bytes = {first, changed, user}
    Inputs = {in1, in2}
    Assets = {asset1, asset2}
    Procs = {p1, p2}
    Deployments = {dep1}
    Txns = {t1, t2, t3}
    Authorities = {FALSE, TRUE}
    MaxFaults = 1
    MaxEdits = 2
    Closure <- ApartClosure
    Plan <- ScriptPlan
    AssetsOf <- MCAssetsOf
    FirstInputs <- MCFirst
    FirstDisk <- NoFiles
    UserFiles <- MCUserFiles
CHECK_DEADLOCK FALSE
SYMMETRY Interchangeable
INVARIANTS TypeOK
PROPERTIES ResolutionIsAtomic ReplacesWhatItRead

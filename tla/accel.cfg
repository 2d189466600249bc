SPECIFICATION Spec
CONSTANTS
    Packages <- AllPackages
    MaxCfgs = 4
    MaxFds = 10
    MaxTmp = 3
INVARIANTS TypeOK UnloadedIsClear RemovedIsGone

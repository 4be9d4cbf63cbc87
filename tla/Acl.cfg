SPECIFICATION FairSpec
CONSTANTS
    Privs <- MCPrivs
    Slots <- MCSlots
    Vals <- MCVals
    ChainNames <- MCChainNames
    Configs <- MCConfigs
    StartMetas <- MCMetas
CHECK_DEADLOCK FALSE
INVARIANTS
    AclTypeOK
    AllowedByARule
    VerdictIsPolicy
PROPERTIES
    EveryCheckEnds

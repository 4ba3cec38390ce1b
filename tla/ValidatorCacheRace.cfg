CONSTANTS
    MaxValSets = 2
    SetLen <- MCSetLen
    MaxRefreshes = 3

INIT Init
NEXT Next

INVARIANT ConsistentSnapshot

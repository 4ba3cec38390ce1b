CONSTANTS
    r1 = r1
    r2 = r2
    NoRelayer = NoRelayer
    Relayers <- MCRelayers
    Turns <- MCTurns
    MaxSeq = 2
    MaxTime = 4
    RelayInterval = 2
    SequenceUpdateLatency = 1
    InturnRelayerTimeout = 1
    TxDelayAlertThreshHold = 1
    MaxValSets = 1
    MaxFaults = 0
    MaxCrashes = 1

SPECIFICATION Spec

PROPERTY AlertClearedOnlyAfterDelivery

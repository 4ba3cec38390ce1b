CONSTANTS
    r1 = r1
    r2 = r2
    NoRelayer = NoRelayer
    Relayers <- MCRelayers
    Turns <- MCTurns
    MaxSeq = 1
    MaxTime = 5
    RelayInterval = 2
    SequenceUpdateLatency = 1
    InturnRelayerTimeout = 1
    TxDelayAlertThreshHold = 5
    MaxValSets = 2
    MaxFaults = 1
    MaxCrashes = 0

SPECIFICATION FairSpec

PROPERTY AllDelivered

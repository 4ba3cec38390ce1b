CONSTANTS
    r1 = r1
    r2 = r2
    NoRelayer = NoRelayer
    Relayers <- MCRelayers
    Turns <- MCTurns
    MaxSeq = 2
    MaxTime = 4
    RelayInterval = 2
    SequenceUpdateLatency = 1
    InturnRelayerTimeout = 1
    TxDelayAlertThreshHold = 4
    MaxValSets = 1
    MaxFaults = 1
    MaxCrashes = 0

SPECIFICATION Spec

INVARIANT TypeOK
INVARIANT CursorNotAhead
INVARIANT DbAgreesWithChain
INVARIANT ClaimedOnlyVoted

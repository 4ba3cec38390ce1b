CONSTANTS
    c1 = c1
    c2 = c2
    Channels <- MCTwoChannels
    MaxSeq = 2
    MaxHeight = 2

SPECIFICATION Spec

INVARIANT DeliveredOnlyReceived

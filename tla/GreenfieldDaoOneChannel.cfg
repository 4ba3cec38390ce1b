CONSTANTS
    c1 = c1
    c2 = c2
    Channels <- MCOneChannel
    MaxSeq = 3
    MaxHeight = 4

SPECIFICATION Spec

INVARIANT NoPackageSkipped
INVARIANT DeliveredOnlyReceived

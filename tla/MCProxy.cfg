CONSTANTS
    Desc = {d1, d2}
    None = None
    ReadBurst <- MCReadBurst
    ChunkMax <- MCChunkMax
    MaxRead <- MCMaxRead
    MaxAppSend <- MCMaxAppSend
    BufSizes <- MCBufSizes
    Lengths <- MCLengths
    AllowBusyStart = FALSE
    AllowSelfProxy = TRUE

SPECIFICATION Spec
SYMMETRY Symmetry

INVARIANT TypeOK
INVARIANT ProxyLinksSymmetric
INVARIANT InboundConserved
INVARIANT ProxyNeverExceedsLimit

\* Once every descriptor has been deleted nothing is enabled.
CHECK_DEADLOCK FALSE

\* StartProxy to a target that already has a source: SetProxiedFrom
\* throws after the caller has set its own ProxyTarget.
CONSTANTS
    Desc = {d1, d2, d3}
    None = None
    ReadBurst <- MCReadBurst
    ChunkMax <- MCChunkMax
    MaxRead <- MCMaxRead
    MaxAppSend <- MCMaxAppSend
    BufSizes <- MCBufSizes
    Lengths <- MCLengths
    AllowBusyStart = TRUE
    AllowSelfProxy = TRUE

SPECIFICATION Spec
SYMMETRY Symmetry

INVARIANT NoDanglingProxyLink

CHECK_DEADLOCK FALSE

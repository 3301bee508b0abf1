CONSTANTS
    Flights <- MCFlights
    CtCap <- MCCtCap
    MaxChunks <- MCMaxChunks
    PeerData <- MCPeerData

SPECIFICATION Spec

INVARIANT HandshakeEventOnceFirst
INVARIANT HandshakeSignalledWhenDone
INVARIANT CiphertextFlushed

PROPERTY HandshakeProgress

\* Deletion of the descriptor is the end of its life: nothing is enabled after it.
CHECK_DEADLOCK FALSE

CONSTANTS
    MaxTime <- MCMaxTime
    Quantum <- MCQuantum
    DefaultConnectTimeout <- MCDefaultConnectTimeout
    InactivityTimeouts <- MCInactivityTimeouts
    ConnectTimeouts <- MCConnectTimeouts

SPECIFICATION Spec

INVARIANT TypeOK
INVARIANT TimeoutCloseImmediate
INVARIANT InactivityCloseWithinTwice
INVARIANT ConnectCloseWithinPeriod

\* Time stops at MaxTime, and a deleted descriptor or a stopped reactor
\* does nothing more.
CHECK_DEADLOCK FALSE

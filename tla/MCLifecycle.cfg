CONSTANTS
    d1 = d1
    d2 = d2
    d3 = d3
    D <- MCD
    MaxFd <- MCMaxFd

SYMMETRY MCSymmetry

SPECIFICATION Spec

INVARIANT NoForeignClose
INVARIANT FdsReleased
INVARIANT RegisteredOnlyLive

\* Deletion of the descriptor is the end of its life: nothing is enabled
\* once every descriptor is dead and the table is full.
CHECK_DEADLOCK FALSE

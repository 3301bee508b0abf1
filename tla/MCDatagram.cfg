CONSTANTS
    MaxDatagrams <- MCMaxDatagrams
    Lengths <- MCLengths
    ReadBurst <- MCReadBurst
    WriteBurst <- MCWriteBurst

SPECIFICATION Spec

INVARIANT TypeOK
INVARIANT WriteArmedOnlyWithPages

PROPERTY QueuedDatagramLeaves
PROPERTY DatagramRefinement

\* Deletion of the descriptor is the end of its life: nothing is enabled after it.
CHECK_DEADLOCK FALSE

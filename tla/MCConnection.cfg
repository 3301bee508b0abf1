CONSTANTS
    MaxBytes <- MCMaxBytes
    MaxPageLen <- MCMaxPageLen
    IovMax <- MCIovMax

SPECIFICATION Spec

INVARIANT TypeOK
INVARIANT OutboundBytesAccounted
INVARIANT InterestMatchesState

PROPERTY CloseNeverRetracted
PROPERTY CloseAfterWritingCompletes
PROPERTY StreamRefinement

\* Deletion of the descriptor is the end of its life: nothing is enabled after it.
CHECK_DEADLOCK FALSE

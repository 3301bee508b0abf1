CONSTANTS
    MaxBytes <- MCMaxBytes
    MaxPageLen <- MCMaxPageLen
    IovMax <- MCIovMax

SPECIFICATION Spec

INVARIANT CloseCounterAccurate

\* Deletion of the descriptor is the end of its life: nothing is enabled after it.
CHECK_DEADLOCK FALSE

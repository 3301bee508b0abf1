CONSTANTS
    Clients <- MCClients
    AcceptCount <- MCAcceptCount
    MaxFds <- MCMaxFds

SPECIFICATION Spec

INVARIANT NoFdLeak
PROPERTY QueuedClientAcceptedBelowLimit

\* Every client may have been served and the listener deleted: the run may stop.
CHECK_DEADLOCK FALSE

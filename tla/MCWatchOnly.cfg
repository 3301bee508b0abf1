SPECIFICATION Spec

INVARIANT InterestFollowsNotify
PROPERTY NotifyDelivered

\* Assertion failures abort the process: nothing is enabled after one.
CHECK_DEADLOCK FALSE

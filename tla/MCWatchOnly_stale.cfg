SPECIFICATION Spec

INVARIANT WriteOnlyWhenNotifying

CHECK_DEADLOCK FALSE

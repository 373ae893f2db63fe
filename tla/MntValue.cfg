SPECIFICATION Spec
INVARIANT ValueIsAssigned
CHECK_DEADLOCK FALSE

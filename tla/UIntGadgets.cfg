SPECIFICATION Spec
INVARIANTS NumbersAreMeant CacheAgrees CallsAreExact
CHECK_DEADLOCK FALSE

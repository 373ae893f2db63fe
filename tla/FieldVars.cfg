SPECIFICATION Spec
INVARIANTS FieldValuesAreMeant BitsAreMeant CallsAreExact
CHECK_DEADLOCK FALSE

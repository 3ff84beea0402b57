\* The second binding raises after the first was applied.
SPECIFICATION Spec
CHECK_DEADLOCK FALSE
INVARIANT KeepsConfigOnBindingFailure

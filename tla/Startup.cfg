\* Every combination of raising steps and inputs.
SPECIFICATION Spec
CHECK_DEADLOCK FALSE
INVARIANTS
    TypeOK
    FailsOnlyWhenFatal
    CatalogInServingStore
    NoAccidentalStore

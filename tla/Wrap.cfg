SPECIFICATION Spec
INVARIANTS FailuresCleanUp CloseReleasesAll
CHECK_DEADLOCK FALSE

\* Without failures: a deletion of the Addon between the apply and the
\* finalizer.
CONSTANTS
  MaxFaults = 0
  MaxEdits = 0
  MaxTypeRemovals = 0
  TypesReturn = TRUE
SPECIFICATION Spec
INVARIANT NoOrphanedManifests
CHECK_DEADLOCK FALSE

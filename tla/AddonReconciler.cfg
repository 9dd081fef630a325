\* One Addon; one failure, one deletion of its resources by a user, one
\* required type that is removed and served again.  The controller stops
\* once the Addon is gone, so a state without successors is expected.
CONSTANTS
  MaxFaults = 1
  MaxEdits = 1
  MaxTypeRemovals = 1
  TypesReturn = TRUE
SPECIFICATION Spec
PROPERTY Installed AddonEventuallyRemoved
CHECK_DEADLOCK FALSE

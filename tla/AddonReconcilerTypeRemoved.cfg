\* One Addon whose required type is removed for good: the CRD is not
\* served again.  No failures or edits are needed.
CONSTANTS
  MaxFaults = 0
  MaxEdits = 0
  MaxTypeRemovals = 1
  TypesReturn = FALSE
SPECIFICATION Spec
PROPERTY AddonEventuallyRemoved
CHECK_DEADLOCK FALSE

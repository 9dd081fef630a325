\* One failed call: getOrgByProject's error, dropped by handleDeletion.
CONSTANTS
  MaxFaults = 1
SPECIFICATION Spec
INVARIANT NoOrphanedOrgUser
CHECK_DEADLOCK FALSE

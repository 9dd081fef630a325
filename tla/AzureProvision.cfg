\* Three names left to the provider, one failure, and one edit by others
\* (naming a resource, deleting one the cluster created in Azure, or writing
\* the security group's rules), one foreign rule.
\* Once the Cluster is gone nothing is left to do.
CONSTANTS
  Fields <- MCFields
  ForeignRules <- MCForeignRules
  lb1 = lb1
  MaxFaults = 1
  MaxEdits = 1
SPECIFICATION Spec
PROPERTY Provisioned BaselineKept
CHECK_DEADLOCK FALSE

CONSTANTS
  MaxFaults <- MCMaxFaults
  OwnedChoices <- MCOwnedChoices
SPECIFICATION Spec
INVARIANT TypeOK
INVARIANT NoOrphanedResources
INVARIANT CredentialsOutliveCloudCleanup
INVARIANT NodesAfterInClusterCleanup
PROPERTY ImplementsDeletionOrder

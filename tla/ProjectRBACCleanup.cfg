CONSTANTS
  p1 = p1
  p2 = p2
  Projects <- MCProjects
  Missing = Missing
  MaxFaults = 1
  MaxOutOfBand = 0
SPECIFICATION Spec

PROPERTY ProjectEventuallyRemoved

CONSTANTS
  o1 = o1
  o2 = o2
  Objects <- MCObjects
  MaxEdits = 2
  MaxFaults = 1
SPECIFICATION Spec
PROPERTY Converges

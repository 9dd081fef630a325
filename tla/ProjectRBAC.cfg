CONSTANTS
  p1 = p1
  p2 = p2
  Projects <- MCProjects
  Missing = Missing
  MaxFaults = 1
  MaxOutOfBand = 1
SPECIFICATION Spec
INVARIANT TypeOK NoGrantAfterRemoval
PROPERTY NoLostSubject BindingsConverge


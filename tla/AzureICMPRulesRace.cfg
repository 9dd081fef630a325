CONSTANTS
  lb1 = lb1
  ForeignRules <- MCForeignRules
  MaxEdits = 2
  MaxFaults = 1
SPECIFICATION Spec
PROPERTY ForeignRulesPreserved

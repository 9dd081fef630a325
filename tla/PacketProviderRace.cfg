CONSTANTS
  Default = Default
  UserCycle = UserCycle
  Unset = Unset
  MaxCalls = 2
SPECIFICATION Spec
INVARIANT UserCycleKept

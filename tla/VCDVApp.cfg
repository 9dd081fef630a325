CONSTANTS
  DefaultName = DefaultName
  CustomName = CustomName
  NoName = NoName
  MaxCrashes = 1
SPECIFICATION Spec
PROPERTY NetworkEventuallyAttached

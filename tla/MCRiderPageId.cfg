CONSTANTS
  None = None
  CarPackages = {sedan}
  Undefined = Undefined
  MaxPreviews = 2
  MaxStarts = 2
  NumPackages = 2
  MaxFaults = 0
  MaxCancels = 1
SPECIFICATION Spec
INVARIANT TripIDIsString
CHECK_DEADLOCK FALSE

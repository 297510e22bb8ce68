CONSTANTS
  t1 = t1
  t2 = t2
  d1 = d1
  d2 = d2
  d3 = d3
  g1 = g1
  g2 = g2
  suv = suv
  van = van
  None = None
  Trips = {t1}
  Drivers = {d1, d2}
  TripPackage <- OnePackageTrips
  DriverPackage <- OnePackageDrivers
  Goroutines = {g1}
  MaxRetries = 3
  MaxFaults = 1
  MayClose = {}
  Crashable = {"driver-service"}
  Fallible = {}
SPECIFICATION Spec
INVARIANT AssignmentIsFinal
CHECK_DEADLOCK FALSE

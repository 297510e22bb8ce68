CONSTANTS
  t1 = t1
  t2 = t2
  d1 = d1
  d2 = d2
  d3 = d3
  g1 = g1
  g2 = g2
  suv = suv
  van = van
  None = None
  Trips = {t1, t2}
  Drivers = {d1, d2, d3}
  TripPackage <- OnePackageTrips
  DriverPackage <- OnePackageDrivers
  Goroutines = {g1, g2}
  MaxRetries = 1
  MaxFaults = 0
  MayClose = {}
  Crashable = {}
  Fallible = {}
SPECIFICATION Spec
INVARIANTS ExactlyOnceUnlessFaults PaymentsAreKept
PROPERTY LivesLikeATrip
SYMMETRY Symmetry
CHECK_DEADLOCK FALSE

CONSTANTS
  t1 = t1
  t2 = t2
  d1 = d1
  d2 = d2
  d3 = d3
  g1 = g1
  g2 = g2
  suv = suv
  van = van
  None = None
  Trips = {t1}
  Drivers = {d1}
  TripPackage <- OnePackageTrips
  DriverPackage <- OnePackageDrivers
  Goroutines = {g1}
  MaxRetries = 1
  MaxFaults = 1
  MayClose = {t1, d1}
  Crashable = {"payment-service", "driver-service"}
  Fallible = {"open session", "notify", "match", "reoffer", "unregister", "settle", "webhook"}
SPECIFICATION FairSpec
PROPERTIES AnnouncedIsPursued AcceptedReachesRider PaidIsRecorded
CHECK_DEADLOCK FALSE

CONSTANTS
  None = None
  CarPackages = {sedan}
  Trips = {t1, t2}
  MaxRequests = 2
  MaxMoves = 1
  MaxFaults = 2
SPECIFICATION FairSpec
INVARIANTS TypeOK OneAnswerPerRequest RequestIsAnswerable AnswersAreUnderWay LatestLocationIsSent
PROPERTIES ComesOnline ActiveIsPublished GoneIsUnregistered
CHECK_DEADLOCK FALSE

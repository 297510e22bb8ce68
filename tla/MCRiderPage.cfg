CONSTANTS
  None = None
  CarPackages = {sedan}
  Undefined = Undefined
  MaxPreviews = 2
  MaxStarts = 2
  NumPackages = 2
  MaxFaults = 1
  MaxCancels = 1
SPECIFICATION FairSpec
INVARIANTS TypeOK BookedIsAnnounced FaresShownAreStored MatchingShowsWhatIsBooked MatchingIsUnanswered
PROPERTIES MatchingEnds BooksOneAtATime
CHECK_DEADLOCK FALSE

--------------------------- MODULE RiderPageProofs ---------------------------
(***************************************************************************)
(* The safety of a rider's page, for any numbers of previews, starts,      *)
(* packages, faults and cancellations.                                     *)
(*                                                                         *)
(* That a rider gets one trip per cancellation is not inductive: a rider   *)
(* can pick a package only while the page waits for no driver and has had  *)
(* no event, and then there must be a cancellation to spare               *)
(* (OneMoreIsAllowed).  That the screen with the packages is such a state  *)
(* needs MatchingIsUnanswered, and that the page has a session whenever    *)
(* it was told of one (SessionIsKept).                                     *)
(***************************************************************************)
EXTENDS RiderPage, FiniteSetTheorems, TLAPS

\* A call that has come as far as the insert, the publication, has its effect.
StagesAreTrue == \A s \in Starts :
  /\ start[s] \in {"inserted", "announced", "answered", "booked"} => s \in inserted
  /\ start[s] \in {"announced", "answered", "booked"} => s \in announced

\* A preview is answered when its fares are stored.
AnsweredIsStored == \A p \in Previews :
  preview[p] \in {"answered", "done"} => saved[p] = NumPackages

\* The page shows previews that were answered.
ShownIsDone == trip # None /\ trip.preview # None => preview[trip.preview] = "done"

\* The status that says there is a session comes with the session.
SessionIsKept == tripStatus = PaymentSessionCreated => paymentSession # None

\* A rider who may pick a package has cancelled every booking there has been.
OneMoreIsAllowed ==
  view \in {"none", "ui"} /\ ~isMatching /\ tripStatus = None => Cardinality(Bookings) <= cancels

\* While a driver is looked for, a page on which nothing was pending when the
\* trip was booked shows the booked route, and nothing has become pending.
MatchingIsSettled ==
  isMatching /\ cancels = 0 => \A s \in Bookings \ overtaken :
    trip # None /\ trip.preview = fareOf[s] /\ ~timer /\ Pending = {}

Inv ==
  /\ TypeOK
  /\ StagesAreTrue
  /\ AnsweredIsStored
  /\ ShownIsDone
  /\ SessionIsKept
  /\ MatchingIsUnanswered
  /\ OneTripPerCancellation
  /\ OneMoreIsAllowed
  /\ MatchingIsSettled

-----------------------------------------------------------------------------
(* Bookings and screens *)

LEMMA HomeTypeStays ==
  ASSUME HomeTypeOK, UNCHANGED homeVars
  PROVE  HomeTypeOK'
PROOF
<1> QED BY DEF HomeTypeOK, homeVars

LEMMA BookingsFinite ==
  /\ Bookings \in SUBSET Starts
  /\ IsFiniteSet(Bookings)
  /\ Cardinality(Bookings) \in Nat
PROOF
<1>1. IsFiniteSet(Starts)
  BY FS_Interval, BookingAssumption DEF Starts
<1>2. Bookings \in SUBSET Starts
  BY DEF Bookings
<1> QED BY <1>1, <1>2, FS_Subset, FS_CardinalityType

\* Where the packages are offered, no driver is looked for and no event has come.
LEMMA SelectScreen ==
  ASSUME TypeOK, SessionIsKept, Screen = "select"
  PROVE  /\ view = "ui"
         /\ trip # None /\ trip.preview \in Previews
         /\ ~isMatching /\ tripStatus = None
PROOF
<1>1. view = "ui"
  BY DEF Screen, TypeOK
<1>2. trip # None /\ trip \in TripPreview
  BY <1>1 DEF Screen, StatusScreen, TypeOK
<1>3. tripStatus = None
  BY <1>1, <1>2 DEF Screen, StatusScreen, TypeOK, SessionIsKept, EventTypes
<1>4. ~isMatching /\ trip.preview # None
  BY <1>1, <1>2, <1>3, RiderPageAssumption DEF Screen, StatusScreen, TypeOK, EventTypes
<1> QED BY <1>1, <1>2, <1>3, <1>4 DEF TripPreview

-----------------------------------------------------------------------------
(* Initial states *)

LEMMA InitInv == Init => Inv
PROOF
<1> SUFFICES ASSUME Init PROVE Inv
  OBVIOUS
<1> USE DEF Init, BookingInit
<1>1. TypeOK
  <2>1. BookingTypeOK
    BY BookingAssumption DEF BookingTypeOK
  <2>2. cancels \in 0 .. MaxCancels
    BY RiderPageAssumption
  <2>3. wire \in SUBSET emitted /\ emitted \in SUBSET Event
    OBVIOUS
  <2>4. trip = None /\ destination = None /\ tripStatus = None /\ paymentSession = None
    OBVIOUS
  <2>5. missed = {} /\ overtaken = {} /\ timer = FALSE /\ isMatching = FALSE
    OBVIOUS
  <2>6. socket = "closed" /\ view = "none"
    OBVIOUS
  <2>7. HomeTypeOK
    BY DEF HomeInit, HomeTypeOK
  <2> HIDE DEF Init, BookingInit
  <2> QED BY <2>1, <2>2, <2>3, <2>4, <2>5, <2>6, <2>7 DEF TypeOK
<1>2. Bookings = {} /\ Cardinality(Bookings) = 0
  BY FS_EmptySet DEF Bookings
<1>3. StagesAreTrue /\ AnsweredIsStored /\ ShownIsDone /\ MatchingIsUnanswered
  BY DEF StagesAreTrue, AnsweredIsStored, ShownIsDone, MatchingIsUnanswered
<1>4. SessionIsKept
  BY RiderPageAssumption DEF SessionIsKept, EventTypes
<1>5. OneTripPerCancellation /\ OneMoreIsAllowed /\ MatchingIsSettled
  BY <1>2 DEF OneTripPerCancellation, OneMoreIsAllowed, MatchingIsSettled
<1> QED BY <1>1, <1>3, <1>4, <1>5 DEF Inv

-----------------------------------------------------------------------------
(* Steps of trip-service *)

\* What trip-service does to a call makes no booking and no preview pending, and
\* takes nothing back that the page has been told.
TripServiceIsTrue ==
  /\ BookingTypeOK'
  /\ StagesAreTrue'
  /\ AnsweredIsStored'
  /\ fareOf' = fareOf
  /\ Bookings' = Bookings
  /\ Pending' \subseteq Pending
  /\ \A p \in Previews : preview[p] = "done" => preview'[p] = "done"

LEMMA PreviewSteps ==
  ASSUME BookingTypeOK, StagesAreTrue, AnsweredIsStored, NEW p \in Previews,
         GetRoute(p) \/ SaveRideFare(p) \/ AnswerPreview(p) \/ PreviewFails(p)
  PROVE  TripServiceIsTrue
PROOF
<1> USE BookingAssumption DEF BookingTypeOK
<1>1. UNCHANGED <<start, fareOf, inserted, announced>>
  BY DEF GetRoute, SaveRideFare, AnswerPreview, PreviewFails
<1>2. BookingTypeOK'
  <2>1. CASE GetRoute(p)
    BY <2>1 DEF GetRoute
  <2>2. CASE SaveRideFare(p)
    BY <2>2 DEF SaveRideFare
  <2>3. CASE AnswerPreview(p)
    BY <2>3 DEF AnswerPreview
  <2>4. CASE PreviewFails(p)
    BY <2>4 DEF PreviewFails, Fault
  <2> QED BY <2>1, <2>2, <2>3, <2>4
<1>3. AnsweredIsStored'
  BY DEF AnsweredIsStored, GetRoute, SaveRideFare, AnswerPreview, PreviewFails
<1>4. StagesAreTrue' /\ Bookings' = Bookings
  BY <1>1 DEF StagesAreTrue, Bookings
<1>5. Pending' \subseteq Pending
  BY DEF Pending, GetRoute, SaveRideFare, AnswerPreview, PreviewFails
<1>6. \A q \in Previews : preview[q] = "done" => preview'[q] = "done"
  BY DEF GetRoute, SaveRideFare, AnswerPreview, PreviewFails
<1> QED BY <1>1, <1>2, <1>3, <1>4, <1>5, <1>6 DEF TripServiceIsTrue

LEMMA StartSteps ==
  ASSUME BookingTypeOK, StagesAreTrue, AnsweredIsStored, NEW s \in Starts,
         StartCall(s)
  PROVE  TripServiceIsTrue
PROOF
<1> USE BookingAssumption DEF BookingTypeOK, StartCall
<1>1. UNCHANGED <<preview, saved, fareOf>>
  BY DEF InsertTrip, PublishTripCreated, AnswerStart, StartFails
<1>2. BookingTypeOK'
  <2>1. CASE InsertTrip(s)
    BY <2>1 DEF InsertTrip
  <2>2. CASE PublishTripCreated(s)
    BY <2>2 DEF PublishTripCreated
  <2>3. CASE AnswerStart(s)
    BY <2>3 DEF AnswerStart
  <2>4. CASE StartFails(s)
    BY <2>4 DEF StartFails, Fault
  <2> QED BY <2>1, <2>2, <2>3, <2>4
<1>3. AnsweredIsStored' /\ Pending' = Pending
  BY <1>1 DEF AnsweredIsStored, Pending
<1>4. StagesAreTrue'
  BY DEF StagesAreTrue, InsertTrip, PublishTripCreated, AnswerStart, StartFails
<1>5. Bookings' = Bookings
  BY DEF Bookings, InsertTrip, PublishTripCreated, AnswerStart, StartFails
<1> QED BY <1>1, <1>2, <1>3, <1>4, <1>5 DEF TripServiceIsTrue

LEMMA EndSteps ==
  ASSUME BookingTypeOK, StagesAreTrue, AnsweredIsStored,
         Crash \/ \E p \in Previews : NoRoute(p)
  PROVE  TripServiceIsTrue
PROOF
<1> USE BookingAssumption DEF BookingTypeOK, TripServiceEnds
<1>1. TripServiceEnds /\ faults' \in 0 .. MaxFaults
  BY DEF Crash, NoRoute, Fault
<1>2. BookingTypeOK'
  BY <1>1
<1>3. AnsweredIsStored' /\ StagesAreTrue'
  BY <1>1 DEF AnsweredIsStored, StagesAreTrue
<1>4. Bookings' = Bookings
  BY <1>1 DEF Bookings, StartsAtWork
<1>5. Pending' \subseteq Pending
  BY <1>1 DEF Pending
<1>6. \A q \in Previews : preview[q] = "done" => preview'[q] = "done"
  BY <1>1 DEF PreviewsAtWork
<1> QED BY <1>1, <1>2, <1>3, <1>4, <1>5, <1>6 DEF TripServiceIsTrue

LEMMA ServicesInv ==
  ASSUME Inv, Services
  PROVE  Inv'
PROOF
<1> USE DEF Inv
<1>1. TripServiceIsTrue
  BY PreviewSteps, StartSteps, EndSteps
  DEF Services, TripService, PreviewCall, TypeOK
<1>2. UNCHANGED <<page, connection, events, history>>
  BY DEF Services
<1> USE DEF page, connection, events, history, TripServiceIsTrue
<1>3. TypeOK'
  BY <1>1, <1>2, HomeTypeStays DEF TypeOK
<1>4. StagesAreTrue' /\ AnsweredIsStored'
  BY <1>1
<1>5. ShownIsDone'
  BY <1>1, <1>2 DEF ShownIsDone, TypeOK, TripPreview
<1>6. SessionIsKept' /\ MatchingIsUnanswered'
  BY <1>2 DEF SessionIsKept, MatchingIsUnanswered
<1>7. OneTripPerCancellation' /\ OneMoreIsAllowed'
  BY <1>1, <1>2 DEF OneTripPerCancellation, OneMoreIsAllowed
<1>8. MatchingIsSettled'
  BY <1>1, <1>2 DEF MatchingIsSettled
<1> QED BY <1>3, <1>4, <1>5, <1>6, <1>7, <1>8

-----------------------------------------------------------------------------
(* Steps of the page *)

\* The page sends a preview, or shows one that was answered.
LEMMA PreviewPageInv ==
  ASSUME Inv, NEW p \in Previews, TimerFires(p) \/ ShowPreview(p)
  PROVE  Inv'
PROOF
<1> USE DEF Inv
<1>1. UNCHANGED <<start, fareOf, inserted, announced, saved, faults, isMatching,
                  tripStatus, paymentSession, connection, events, history>>
  BY DEF TimerFires, ShowPreview
<1> USE DEF connection, events, history
<1>2. TypeOK'
  <2>1. CASE TimerFires(p)
    BY <2>1, <1>1, HomeTypeStays DEF TimerFires, TypeOK, BookingTypeOK
  <2>2. CASE ShowPreview(p)
    BY <2>2, <1>1, HomeTypeStays DEF ShowPreview, TypeOK, BookingTypeOK, TripPreview
  <2> QED BY <2>1, <2>2
<1>3. StagesAreTrue' /\ Bookings' = Bookings
  BY <1>1 DEF StagesAreTrue, Bookings
<1>4. AnsweredIsStored'
  BY <1>1 DEF TimerFires, ShowPreview, AnsweredIsStored, TypeOK, BookingTypeOK
<1>5. ShownIsDone'
  BY DEF TimerFires, ShowPreview, ShownIsDone, TypeOK, BookingTypeOK, TripPreview
<1>6. SessionIsKept' /\ MatchingIsUnanswered'
  BY <1>1 DEF SessionIsKept, MatchingIsUnanswered
<1>7. OneTripPerCancellation' /\ OneMoreIsAllowed'
  BY <1>1, <1>3 DEF OneTripPerCancellation, OneMoreIsAllowed
<1>8. MatchingIsSettled'
  <2>1. timer \/ p \in Pending
    BY DEF TimerFires, ShowPreview, Pending
  <2> QED BY <1>1, <1>3, <2>1 DEF MatchingIsSettled
<1> QED BY <1>2, <1>3, <1>4, <1>5, <1>6, <1>7, <1>8

\* The rider clicks on the map.
LEMMA MapClickInv ==
  ASSUME Inv, MapClick
  PROVE  Inv'
PROOF
<1> USE DEF Inv, MapClick, bookingVars, connection, events, history
<1>1. TypeOK'
  BY HomeTypeStays DEF TypeOK, BookingTypeOK
<1>2. Bookings' = Bookings
  BY DEF Bookings
<1>3. StagesAreTrue' /\ AnsweredIsStored' /\ ShownIsDone' /\ SessionIsKept' /\ MatchingIsUnanswered'
  BY DEF StagesAreTrue, AnsweredIsStored, ShownIsDone, SessionIsKept, MatchingIsUnanswered
<1>4. OneTripPerCancellation' /\ OneMoreIsAllowed' /\ MatchingIsSettled'
  BY <1>2 DEF OneTripPerCancellation, OneMoreIsAllowed, MatchingIsSettled
<1> QED BY <1>1, <1>3, <1>4

\* The rider picks a package: one booking more, of the preview on the page.
LEMMA StartTripInv ==
  ASSUME Inv, NEW s \in Starts, StartTrip(s)
  PROVE  Inv'
PROOF
<1> USE DEF Inv, connection, events
<1>1. /\ view = "ui" /\ trip # None /\ trip.preview \in Previews
      /\ ~isMatching /\ tripStatus = None
  BY SelectScreen DEF StartTrip
<1>2. TypeOK'
  BY <1>1, HomeTypeStays DEF StartTrip, TypeOK, BookingTypeOK
<1>3. Bookings' = Bookings \cup {s} /\ s \notin Bookings
  BY DEF StartTrip, Bookings, TypeOK, BookingTypeOK
<1>4. Cardinality(Bookings') = Cardinality(Bookings) + 1 /\ Cardinality(Bookings) \in Nat
  BY <1>3, BookingsFinite, FS_AddElement
<1>5. Cardinality(Bookings) <= cancels
  BY <1>1 DEF OneMoreIsAllowed
<1>6. StagesAreTrue' /\ AnsweredIsStored' /\ ShownIsDone'
  BY DEF StartTrip, StagesAreTrue, AnsweredIsStored, ShownIsDone, TypeOK, BookingTypeOK
<1>7. SessionIsKept' /\ MatchingIsUnanswered'
  BY <1>1 DEF StartTrip, SessionIsKept, MatchingIsUnanswered
<1>8. OneTripPerCancellation' /\ OneMoreIsAllowed'
  BY <1>4, <1>5 DEF StartTrip, OneTripPerCancellation, OneMoreIsAllowed, TypeOK
<1>9. MatchingIsSettled'
  <2> SUFFICES ASSUME cancels = 0, NEW r \in Bookings', r \notin overtaken'
               PROVE  (trip # None /\ trip.preview = fareOf[r] /\ ~timer /\ Pending = {})'
    BY DEF MatchingIsSettled, StartTrip
  <2>1. Bookings = {}
    BY <1>4, <1>5, BookingsFinite, FS_EmptySet
  <2>2. r = s /\ ~timer /\ Pending = {}
    BY <1>3, <2>1 DEF StartTrip
  <2>3. Pending' = Pending
    BY DEF StartTrip, Pending
  <2> QED BY <1>1, <2>2, <2>3 DEF StartTrip, TypeOK, BookingTypeOK
<1> QED BY <1>2, <1>6, <1>7, <1>8, <1>9

\* The answer to a start gives the page a trip.
LEMMA TripStartedInv ==
  ASSUME Inv, NEW s \in Starts, TripStarted(s)
  PROVE  Inv'
PROOF
<1> USE DEF Inv, TripStarted, connection, events, history
<1>1. /\ Mounted => trip' \in TripPreview
      /\ ~Mounted => trip' = trip
      /\ trip # None => trip'.preview = trip.preview
      /\ trip = None /\ trip' # None => trip'.preview = None
  BY RiderPageAssumption DEF TypeOK, TripPreview, Property, StartResponse
<1>2. trip # None => trip' # None
  BY <1>1, RiderPageAssumption
<1>3. TypeOK'
  BY <1>1, HomeTypeStays DEF TypeOK, BookingTypeOK
<1>4. Bookings' = Bookings /\ Pending' = Pending
  BY DEF Bookings, Pending, TypeOK, BookingTypeOK
<1>5. StagesAreTrue' /\ AnsweredIsStored'
  BY DEF StagesAreTrue, AnsweredIsStored, TypeOK, BookingTypeOK
<1>6. ShownIsDone'
  BY <1>1 DEF ShownIsDone
<1>7. SessionIsKept' /\ MatchingIsUnanswered'
  BY DEF SessionIsKept, MatchingIsUnanswered
<1>8. OneTripPerCancellation' /\ OneMoreIsAllowed'
  BY <1>4 DEF OneTripPerCancellation, OneMoreIsAllowed
<1>9. MatchingIsSettled'
  BY <1>1, <1>2, <1>4 DEF MatchingIsSettled
<1> QED BY <1>3, <1>5, <1>6, <1>7, <1>8, <1>9

\* A start that has failed is no booking any more.
LEMMA StartFailedInv ==
  ASSUME Inv, NEW s \in Starts, StartFailed(s)
  PROVE  Inv'
PROOF
<1> USE DEF Inv, StartFailed, connection, events, history
<1>1. TypeOK'
  BY HomeTypeStays DEF TypeOK, BookingTypeOK
<1>2. Bookings' = Bookings \ {s} /\ s \in Bookings
  BY DEF Bookings, TypeOK, BookingTypeOK
<1>3. Cardinality(Bookings') = Cardinality(Bookings) - 1 /\ Cardinality(Bookings) \in Nat
  BY <1>2, BookingsFinite, FS_RemoveElement
<1>4. StagesAreTrue' /\ AnsweredIsStored' /\ ShownIsDone' /\ SessionIsKept' /\ MatchingIsUnanswered'
  BY DEF StagesAreTrue, AnsweredIsStored, ShownIsDone, SessionIsKept, MatchingIsUnanswered,
         TypeOK, BookingTypeOK
<1>5. OneTripPerCancellation' /\ OneMoreIsAllowed'
  BY <1>3 DEF OneTripPerCancellation, OneMoreIsAllowed, TypeOK
<1>6. MatchingIsSettled'
  BY DEF MatchingIsSettled
<1> QED BY <1>1, <1>4, <1>5, <1>6

\* Cancelling clears the page and counts.
LEMMA CancelTripInv ==
  ASSUME Inv, CancelTrip
  PROVE  Inv'
PROOF
<1>1. cancels \in Nat /\ cancels' = cancels + 1 /\ cancels' \in 0 .. MaxCancels
  <2>1. cancels \in 0 .. MaxCancels
    BY DEF Inv, TypeOK
  <2>2. cancels < MaxCancels /\ cancels' = cancels + 1
    BY DEF CancelTrip
  <2>3. MaxCancels \in Nat
    BY RiderPageAssumption
  <2> QED BY <2>1, <2>2, <2>3
<1>2. OneTripPerCancellation' /\ OneMoreIsAllowed'
  <2>1. Bookings' = Bookings
    BY DEF CancelTrip, bookingVars, Bookings
  <2>2. Cardinality(Bookings') \in Nat /\ Cardinality(Bookings') <= cancels'
    BY <1>1, <2>1, BookingsFinite DEF Inv, OneTripPerCancellation
  <2> QED BY <1>1, <2>2 DEF OneTripPerCancellation, OneMoreIsAllowed
<1> USE DEF Inv, CancelTrip, bookingVars, connection, events
<1>3. TypeOK'
  BY <1>1, HomeTypeStays DEF TypeOK, BookingTypeOK
<1>4. StagesAreTrue' /\ AnsweredIsStored' /\ ShownIsDone' /\ MatchingIsUnanswered'
  BY DEF StagesAreTrue, AnsweredIsStored, ShownIsDone, MatchingIsUnanswered
<1>5. SessionIsKept'
  BY RiderPageAssumption DEF SessionIsKept, EventTypes
<1>6. MatchingIsSettled'
  BY <1>1 DEF MatchingIsSettled
<1> QED BY <1>3, <1>4, <1>5, <1>2, <1>6

\* An event reaches the page, which then waits for none, or is lost.
LEMMA NotifyInv ==
  ASSUME Inv, NEW e \in Event, Notify(e)
  PROVE  Inv'
PROOF
<1> USE DEF Inv, Notify, bookingVars, connection, history
<1>1. e.type \in EventTypes /\ e.trip \in Starts
  BY DEF Event
<1>2. TypeOK'
  BY <1>1, HomeTypeStays DEF TypeOK, BookingTypeOK, HandleMessage
<1>3. Bookings' = Bookings /\ Pending' = Pending
  BY DEF Bookings, Pending
<1>4. StagesAreTrue' /\ AnsweredIsStored' /\ ShownIsDone'
  BY DEF StagesAreTrue, AnsweredIsStored, ShownIsDone
<1>5. CASE socket = "open"
  <2>1. tripStatus' = e.type /\ tripStatus' # None
    BY <1>1, <1>5, RiderPageAssumption DEF HandleMessage
  <2>2. ~isMatching'
    BY <1>5, <2>1 DEF HandleMessage, MatchingIsUnanswered, TypeOK
  <2>3. SessionIsKept'
    BY <1>1, <1>5, RiderPageAssumption DEF HandleMessage, SessionIsKept
  <2> QED BY <1>2, <1>3, <1>4, <2>1, <2>2, <2>3
    DEF MatchingIsUnanswered, OneTripPerCancellation, OneMoreIsAllowed, MatchingIsSettled
<1>6. CASE socket # "open"
  BY <1>2, <1>3, <1>4, <1>6
  DEF SessionIsKept, MatchingIsUnanswered, OneTripPerCancellation, OneMoreIsAllowed,
      MatchingIsSettled
<1> QED BY <1>5, <1>6

\* The page goes, and nobody can book on it any more.
LEMMA UnmountInv ==
  ASSUME Inv, NEW v \in {"gone", "left"}, Unmount(v), HomeTypeOK', timer' \in BOOLEAN,
         UNCHANGED <<bookingVars, events, history>>
  PROVE  Inv'
PROOF
<1> USE DEF Inv, Unmount, bookingVars, events, history
<1>1. TypeOK'
  BY HomeTypeStays DEF TypeOK, BookingTypeOK
<1>2. Bookings' = Bookings
  BY DEF Bookings
<1>3. StagesAreTrue' /\ AnsweredIsStored' /\ ShownIsDone' /\ MatchingIsUnanswered'
  BY DEF StagesAreTrue, AnsweredIsStored, ShownIsDone, MatchingIsUnanswered
<1>4. SessionIsKept'
  BY RiderPageAssumption DEF SessionIsKept, EventTypes
<1>5. OneTripPerCancellation' /\ OneMoreIsAllowed' /\ MatchingIsSettled'
  BY <1>2 DEF OneTripPerCancellation, OneMoreIsAllowed, MatchingIsSettled
<1> QED BY <1>1, <1>3, <1>4, <1>5

\* What changes neither the page's state nor the calls, but for failures, and does
\* not give a page back that has gone.
LEMMA OtherInv ==
  ASSUME Inv, TypeOK',
         view' \in {"none", "ui"} => view \in {"none", "ui"},
         UNCHANGED <<preview, saved, start, fareOf, inserted, announced, page, history>>
  PROVE  Inv'
PROOF
<1> USE DEF Inv, page, history
<1>1. Bookings' = Bookings /\ Pending' = Pending
  BY DEF Bookings, Pending
<1>2. StagesAreTrue' /\ AnsweredIsStored' /\ ShownIsDone' /\ SessionIsKept' /\ MatchingIsUnanswered'
  BY DEF StagesAreTrue, AnsweredIsStored, ShownIsDone, SessionIsKept, MatchingIsUnanswered
<1>3. OneTripPerCancellation' /\ OneMoreIsAllowed' /\ MatchingIsSettled'
  BY <1>1 DEF OneTripPerCancellation, OneMoreIsAllowed, MatchingIsSettled
<1> QED BY <1>2, <1>3

-----------------------------------------------------------------------------
(* The theorems *)

LEMMA NextInv == Inv /\ [Next]_vars => Inv'
PROOF
<1> SUFFICES ASSUME Inv, [Next]_vars PROVE Inv'
  OBVIOUS
<1>1. CASE Services
  BY <1>1, ServicesInv
<1>2. CASE RiderActs
  <2>1. CASE MapClick
    BY <2>1, MapClickInv
  <2>2. ASSUME NEW s \in Starts, StartTrip(s) PROVE Inv'
    BY <2>2, StartTripInv
  <2>3. CASE CancelTrip
    BY <2>3, CancelTripInv
  <2>4. CASE Mount
    <3>1. TypeOK'
      BY <2>4 DEF Inv, Mount, ChooseRider, UserTypes, TypeOK, BookingTypeOK, HomeTypeOK,
                  bookingVars, page, events, history
    <3> QED BY <2>4, <3>1, OtherInv DEF Mount, bookingVars
  <2>5. CASE Back
    <3>1. HomeTypeOK' /\ timer' \in BOOLEAN
      BY <2>5 DEF Inv, Back, GoBack, TypeOK, HomeTypeOK
    <3> QED BY <2>5, <3>1, UnmountInv DEF Back
  <2>6. CASE Pay
    <3>1. HomeTypeOK' /\ timer' \in BOOLEAN
      BY <2>6 DEF Inv, Pay, homeVars, TypeOK, HomeTypeOK
    <3> QED BY <2>6, <3>1, UnmountInv DEF Pay
  <2>7. CASE LeaveSuccess
    <3>1. TypeOK'
      BY <2>7 DEF Inv, LeaveSuccess, ReturnHome, TypeOK, BookingTypeOK, HomeTypeOK,
                  bookingVars, page, events, history
    <3> QED BY <2>7, <3>1, OtherInv DEF LeaveSuccess, bookingVars
  <2> QED BY <1>2, <2>1, <2>2, <2>3, <2>4, <2>5, <2>6, <2>7 DEF RiderActs
<1>3. CASE PageReacts
  <2>1. ASSUME NEW p \in Previews, TimerFires(p) \/ ShowPreview(p) PROVE Inv'
    BY <2>1, PreviewPageInv
  <2>2. ASSUME NEW s \in Starts, TripStarted(s) \/ StartFailed(s) PROVE Inv'
    BY <2>2, TripStartedInv, StartFailedInv
  <2> QED BY <1>3, <2>1, <2>2 DEF PageReacts
<1>4. ASSUME NEW e \in Event, Emit(e) PROVE Inv'
  <2>1. TypeOK'
    BY <1>4, HomeTypeStays DEF Inv, Emit, TypeOK, BookingTypeOK, bookingVars, page, connection, history
  <2> QED BY <1>4, <2>1, OtherInv DEF Emit, bookingVars, connection
<1>5. ASSUME NEW e \in Event, Notify(e) PROVE Inv'
  BY <1>5, NotifyInv
<1>6. CASE SocketOpens
  <2>1. TypeOK'
    BY <1>6, HomeTypeStays
    DEF Inv, SocketOpens, TypeOK, BookingTypeOK, bookingVars, page, events, history
  <2> QED BY <1>6, <2>1, OtherInv DEF SocketOpens, bookingVars
<1>7. ASSUME NEW v \in {"ui", "error"}, SocketCloses(v) PROVE Inv'
  <2>1. TypeOK'
    BY <1>7, BookingAssumption, HomeTypeStays
    DEF Inv, SocketCloses, Fault, TypeOK, BookingTypeOK, page, events, history
  <2> QED BY <1>7, <2>1, OtherInv DEF SocketCloses
<1>8. ASSUME NEW outcome \in Outcomes, Return(outcome) PROVE Inv'
  <2>1. TypeOK'
    BY <1>8 DEF Inv, Return, StripeReturns, TypeOK, BookingTypeOK, HomeTypeOK, bookingVars,
                page, events, history
  <2> QED BY <1>8, <2>1, OtherInv DEF Return, bookingVars
<1>9. CASE UNCHANGED vars
  <2>1. TypeOK'
    BY <1>9, HomeTypeStays
    DEF Inv, TypeOK, BookingTypeOK, vars, bookingVars, page, connection, events, history
  <2> QED BY <1>9, <2>1, OtherInv DEF vars, bookingVars, connection
<1> QED BY <1>1, <1>2, <1>3, <1>4, <1>5, <1>6, <1>7, <1>8, <1>9 DEF Next

\* The strengthening holds in every reachable state of a rider's page.
THEOREM Invariance == Spec => []Inv
PROOF
<1> QED BY InitInv, NextInv, PTL DEF Spec

\* Every variable of the page and of its calls stays in its domain.
THEOREM TypeCorrect == Spec => []TypeOK
PROOF
<1>1. Inv => TypeOK
  BY DEF Inv
<1> QED BY <1>1, Invariance, PTL

\* The rider gets one trip, and one more for every cancellation.
THEOREM TripsAreCounted == Spec => []OneTripPerCancellation
PROOF
<1>1. Inv => OneTripPerCancellation
  BY DEF Inv
<1> QED BY <1>1, Invariance, PTL

\* A trip the rider was told of is stored and announced, whatever has failed.
THEOREM BookedTripsExist == Spec => []BookedIsAnnounced
PROOF
<1>1. Inv => BookedIsAnnounced
  BY DEF Inv, StagesAreTrue, BookedIsAnnounced
<1> QED BY <1>1, Invariance, PTL

\* The fares on the page are in the database.
THEOREM ShownFaresExist == Spec => []FaresShownAreStored
PROOF
<1>1. Inv => FaresShownAreStored
  BY DEF Inv, AnsweredIsStored, ShownIsDone, FaresShownAreStored, TypeOK, TripPreview
<1> QED BY <1>1, Invariance, PTL

\* A page that looks for a driver shows the route it has booked, if nothing was
\* pending then and nothing was cancelled.
THEOREM BookedRouteIsShown == Spec => []MatchingShowsWhatIsBooked
PROOF
<1>1. Inv => MatchingShowsWhatIsBooked
  BY DEF Inv, MatchingIsSettled, MatchingShowsWhatIsBooked
<1> QED BY <1>1, Invariance, PTL

\* A page that looks for a driver has had no event, so the next one ends the wait.
THEOREM NextEventEndsMatching == Spec => []MatchingIsUnanswered
PROOF
<1>1. Inv => MatchingIsUnanswered
  BY DEF Inv
<1> QED BY <1>1, Invariance, PTL

-----------------------------------------------------------------------------
(* The page implements the deal *)

LEMMA InitDeal == Init => Deal!Init
PROOF
<1> SUFFICES ASSUME Init PROVE Deal!Init
  OBVIOUS
<1>1. Bookings = {} /\ Cardinality(Bookings) = 0
  BY FS_EmptySet DEF Init, BookingInit, Bookings
<1> QED BY <1>1 DEF Init, Deal!Init, DealState

\* What neither changes the page nor the bookings makes no step of the deal.
LEMMA OtherDeal ==
  ASSUME Inv, UNCHANGED <<start, isMatching, tripStatus, cancels>>,
         view' = view \/ {view, view'} \subseteq {"none", "ui"}
                      \/ {view, view'} \cap {"none", "ui"} = {}
  PROVE  UNCHANGED Deal!vars
PROOF
<1>1. Bookings' = Bookings
  BY DEF Bookings
<1> QED BY <1>1 DEF Deal!vars, DealState

LEMMA StepDeal == Inv /\ [Next]_vars => [Deal!Next]_Deal!vars
PROOF
<1> SUFFICES ASSUME Inv, [Next]_vars PROVE [Deal!Next]_Deal!vars
  OBVIOUS
<1>1. CASE Services
  <2>1. Bookings' = Bookings
    BY <1>1, PreviewSteps, StartSteps, EndSteps
    DEF Inv, Services, TripService, PreviewCall, TypeOK, TripServiceIsTrue
  <2> QED BY <1>1, <2>1 DEF Services, page, connection, history, Deal!vars, DealState
<1>2. CASE MapClick
  BY <1>2, OtherDeal DEF MapClick, bookingVars, connection, history
<1>3. ASSUME NEW s \in Starts, StartTrip(s) PROVE Deal!Book
  <2>1. view = "ui" /\ ~isMatching /\ tripStatus = None
    BY <1>3, SelectScreen DEF Inv, StartTrip
  <2>2. Bookings' = Bookings \cup {s} /\ s \notin Bookings
    BY <1>3 DEF Inv, StartTrip, Bookings, TypeOK, BookingTypeOK
  <2>3. Cardinality(Bookings') = Cardinality(Bookings) + 1
    BY <2>2, BookingsFinite, FS_AddElement
  <2>4. Cardinality(Bookings) <= cancels
    BY <2>1 DEF Inv, OneMoreIsAllowed
  <2> QED BY <1>3, <2>1, <2>3, <2>4 DEF StartTrip, connection, Deal!Book, DealState
<1>4. CASE CancelTrip
  <2>1. view = "ui"
    BY <1>4 DEF Inv, TypeOK, CancelTrip, Screen
  <2>2. Bookings' = Bookings
    BY <1>4 DEF CancelTrip, bookingVars, Bookings
  <2>3. Deal!Cancel
    BY <1>4, <2>1, <2>2 DEF CancelTrip, connection, Deal!Cancel, DealState
  <2> QED BY <2>3 DEF Deal!Next
<1>5. CASE Mount
  BY <1>5, OtherDeal DEF Mount, bookingVars, page, history
<1>6. ASSUME NEW v \in {"gone", "left"}, Unmount(v), UNCHANGED <<start, cancels>>
      PROVE Deal!Leave
  <2>1. Bookings' = Bookings
    BY <1>6 DEF Bookings
  <2> QED BY <1>6, <2>1 DEF Unmount, Deal!Leave, DealState
<1>7. ASSUME NEW p \in Previews, TimerFires(p) \/ ShowPreview(p) PROVE UNCHANGED Deal!vars
  BY <1>7, OtherDeal DEF TimerFires, ShowPreview, connection, history
<1>8. ASSUME NEW s \in Starts, TripStarted(s) PROVE UNCHANGED Deal!vars
  <2>1. Bookings' = Bookings
    BY <1>8 DEF Inv, TripStarted, Bookings, TypeOK, BookingTypeOK
  <2> QED BY <1>8, <2>1 DEF TripStarted, connection, history, Deal!vars, DealState
<1>9. ASSUME NEW s \in Starts, StartFailed(s) PROVE Deal!Fail
  <2>1. Bookings' = Bookings \ {s} /\ s \in Bookings
    BY <1>9 DEF Inv, StartFailed, Bookings, TypeOK, BookingTypeOK
  <2>2. /\ Cardinality(Bookings') = Cardinality(Bookings) - 1
        /\ Cardinality(Bookings) \in Nat /\ Cardinality(Bookings') \in Nat
    <3>1. IsFiniteSet(Bookings')
      BY <2>1, BookingsFinite, FS_Subset
    <3> QED BY <2>1, <3>1, BookingsFinite, FS_RemoveElement, FS_CardinalityType
  <2>3. Cardinality(Bookings) > 0
    BY <2>2
  <2> QED BY <1>9, <2>2, <2>3 DEF StartFailed, connection, history, Deal!Fail, DealState
<1>10. ASSUME NEW e \in Event, Emit(e) PROVE UNCHANGED Deal!vars
  BY <1>10, OtherDeal DEF Emit, bookingVars, page, connection, history
<1>11. ASSUME NEW e \in Event, Notify(e) PROVE [Deal!Tell]_Deal!vars
  <2>1. Bookings' = Bookings
    BY <1>11 DEF Notify, bookingVars, Bookings
  <2>2. CASE socket = "open"
    <3>1. e.type \in EventTypes /\ tripStatus' = e.type /\ tripStatus' # None
      BY <1>11, <2>2, RiderPageAssumption DEF Event, Notify, HandleMessage
    <3> QED BY <1>11, <2>1, <3>1 DEF Notify, connection, history, Deal!Tell, Deal!vars, DealState
  <2>3. CASE socket # "open"
    BY <1>11, <2>3, OtherDeal DEF Notify, bookingVars, connection, history
  <2> QED BY <2>2, <2>3
<1>12. CASE SocketOpens \/ LeaveSuccess
  BY <1>12, OtherDeal DEF SocketOpens, LeaveSuccess, bookingVars, page, history
<1>13. ASSUME NEW outcome \in Outcomes, Return(outcome) PROVE UNCHANGED Deal!vars
  BY <1>13, OtherDeal DEF Return, bookingVars, page, history
<1>14. ASSUME NEW v \in {"ui", "error"}, SocketCloses(v) PROVE [Deal!Leave]_Deal!vars
  <2>1. Bookings' = Bookings
    BY <1>14 DEF SocketCloses, Bookings
  <2> QED BY <1>14, <2>1 DEF SocketCloses, page, history, Deal!Leave, Deal!vars, DealState
<1>15. CASE UNCHANGED vars
  BY <1>15, OtherDeal DEF vars, bookingVars, page, connection, history
<1>16. CASE RiderActs
  <2>1. CASE Back \/ Pay
    BY <1>6, <2>1 DEF Back, Pay, bookingVars, history, Deal!Next
  <2> QED BY <1>2, <1>3, <1>4, <1>5, <1>12, <1>16, <2>1 DEF RiderActs, Deal!Next
<1>17. CASE PageReacts
  BY <1>7, <1>8, <1>9, <1>17 DEF PageReacts, Deal!Next
<1> QED BY <1>1, <1>10, <1>11, <1>12, <1>13, <1>14, <1>15, <1>16, <1>17 DEF Next, Deal!Next

\* The page of a rider implements the deal: one booking at a time, and one more
\* for each that was cancelled, whatever callbacks, answers and events do.
THEOREM ImplementsDeal == Spec => BooksOneAtATime
PROOF
<1> QED BY InitDeal, StepDeal, Invariance, PTL DEF Spec, BooksOneAtATime, Deal!Spec

\* Whatever keeps to RiderDeal gives the rider one trip, and one more for every
\* cancellation.
THEOREM DealSuffices == BooksOneAtATime => []OneTripPerCancellation
PROOF
<1> DEFINE n == Cardinality(Bookings)
           Counted == n \in Nat /\ cancels \in Nat /\ n <= 1 + cancels
<1>1. Deal!Init => Counted
  BY DEF Deal!Init
<1>2. Counted /\ [Deal!Next]_(Deal!vars) => Counted'
  <2> SUFFICES ASSUME Counted, [Deal!Next]_(Deal!vars) PROVE Counted'
    OBVIOUS
  <2>1. \/ n <= cancels /\ n' = n + 1 /\ cancels' = cancels
        \/ n > 0 /\ n' = n - 1 /\ cancels' = cancels
        \/ n' = n /\ cancels' \in {cancels, cancels + 1}
    BY DEF Deal!Next, Deal!Book, Deal!Tell, Deal!Fail, Deal!Cancel, Deal!Leave, Deal!vars
  <2> HIDE DEF n
  <2> QED BY <2>1
<1>3. Counted => OneTripPerCancellation
  BY DEF OneTripPerCancellation
<1> QED BY <1>1, <1>2, <1>3, PTL DEF BooksOneAtATime, Deal!Spec

=============================================================================

------------------------------ MODULE RiderPage ------------------------------
(***************************************************************************)
(* The page of one rider (module Home), from the choice to ride to the     *)
(* return from Stripe, or to the Back button: the map clicks with their    *)
(* 500 ms timer, the previews and starts it has asked for (module          *)
(* Booking), the events that come over the websocket, and the screen       *)
(* RiderTripOverview makes of all that.  One mount of RiderMap is          *)
(* followed: another has a userID, a websocket and a state of its own.     *)
(*                                                                         *)
(* The page runs one callback at a time, but a handler that awaits a call  *)
(* goes on later, whatever the rider has done meanwhile, and neither the   *)
(* answers nor the events say which booking they belong to.                *)
(*                                                                         *)
(* What the other services do with an announced trip is TripFlow's         *)
(* subject.  Here they do not fail: they tell the rider either that no     *)
(* driver was found, or that one is assigned and then that a payment       *)
(* session is open, through queues that do not keep this order.            *)
(***************************************************************************)
EXTENDS Booking, Home

CONSTANTS
  Undefined,   \* undefined
  MaxCancels   \* bound: clicks on Cancel, Go back or Change Destination

NoDriversFound == "trip.event.no_drivers_found"
DriverAssigned == "trip.event.driver_assigned"
PaymentSessionCreated == "payment.event.session_created"

EventTypes == {NoDriversFound, DriverAssigned, PaymentSessionCreated}
Event == [type : EventTypes, trip : Starts]

\* TripPreview: a trip ID, and the preview that the route and the fares are of.
TripPreview == [tripID : Starts \cup {None, Undefined}, preview : Previews \cup {None}]

ASSUME RiderPageAssumption ==
  /\ None \notin Starts \cup Previews /\ None \notin EventTypes
  /\ None \notin TripPreview
  /\ Undefined \notin Starts /\ Undefined # None
  /\ MaxCancels \in Nat

VARIABLES
  trip,            \* the trip state: null, or a trip ID with a preview
  destination,     \* the preview whose destination the marker shows
  timer,           \* is the debounce timer running
  isMatching,      \* (isRequesting is set along with it and reset no later)
  tripStatus,      \* the type of the last event that made a difference
  paymentSession,  \* the trip whose session the page holds
  socket,          \* of the page: "connecting", "open" or "closed"
  view,            \* RiderMap: "none" yet, its "ui", an "error", "gone" or "left"
  emitted,         \* the events the services have sent to the rider
  wire,            \* those of them the gateway has not consumed yet
  missed,          \* history: the trips of which an event was lost
  cancels,         \* history: how often the rider has cancelled
  overtaken        \* history: the starts asked for while a preview was pending

page == <<trip, destination, timer, isMatching, tripStatus, paymentSession>>
connection == <<socket, view, homeVars>>
events == <<emitted, wire, missed>>
history == <<cancels, overtaken>>
vars == <<bookingVars, page, connection, events, history>>

Init ==
  /\ BookingInit
  /\ trip = None
  /\ destination = None
  /\ timer = FALSE
  /\ isMatching = FALSE
  /\ tripStatus = None
  /\ paymentSession = None
  /\ HomeInit
  /\ socket = "closed"
  /\ view = "none"
  /\ emitted = {}
  /\ wire = {}
  /\ missed = {}
  /\ cancels = 0
  /\ overtaken = {}

-----------------------------------------------------------------------------
(* What the rider sees *)

\* The first returns of RiderTripOverview: there is no trip, or the status hides
\* everything else.
StatusScreen ==
  IF trip = None THEN "start"
  ELSE IF tripStatus = PaymentSessionCreated /\ paymentSession # None THEN "payment"
  ELSE IF tripStatus = DriverAssigned THEN "driver found"
  ELSE IF tripStatus = NoDriversFound THEN "no drivers"
  ELSE "other"

\* RiderTripOverview, where RiderMap shows it.
Screen ==
  IF view # "ui" THEN view
  ELSE IF StatusScreen # "other" THEN StatusScreen
  ELSE IF isMatching THEN "matching"
  ELSE IF trip.preview # None THEN "select"
  ELSE "fallback"

\* Is there a component whose state can be set?
Mounted == view \in {"ui", "error"}

\* trip?.tripID as a condition: null, undefined and the empty ID are falsy.
HasTripID == trip # None /\ trip.tripID \in Starts

\* The previews the page is waiting for.
Pending == {p \in Previews : preview[p] \in {"sent", "saving", "answered"}}

-----------------------------------------------------------------------------
(* Choosing a destination *)

\* BUG variant: the page takes clicks on the map while a driver is looked for.
MapClick_WhileMatching ==
  /\ view = "ui"
  /\ \E p \in Previews : preview[p] = "unused"
  /\ ~HasTripID
  /\ ~timer
  /\ timer' = TRUE
  /\ UNCHANGED <<bookingVars, trip, destination, isMatching, tripStatus,
                 paymentSession, connection, events, history>>

\* handleMapClick: the guards are looked at when the rider clicks, and not again
\* when the timer fires.  (A further click starts the timer anew.)  The bound on
\* previews is one on clicks.
MapClick ==
  /\ view = "ui"
  /\ \E p \in Previews : preview[p] = "unused"
  /\ ~HasTripID
  /\ ~isMatching
  /\ ~timer
  /\ timer' = TRUE
  /\ UNCHANGED <<bookingVars, trip, destination, isMatching, tripStatus,
                 paymentSession, connection, events, history>>

\* The timer fires: the marker moves and the preview is asked for.  Unmounting
\* does not stop the timer; it stops with the document.
TimerFires(p) ==
  /\ view # "left"
  /\ timer
  /\ preview[p] = "unused"
  /\ \A q \in Previews : q < p => preview[q] # "unused"
  /\ timer' = FALSE
  /\ destination' = IF Mounted THEN p ELSE destination
  /\ preview' = [preview EXCEPT ![p] = "sent"]
  /\ UNCHANGED <<saved, start, fareOf, inserted, announced, faults, trip,
                 isMatching, tripStatus, paymentSession, connection, events, history>>

\* The answer to a preview replaces the trip, whatever the trip has become.  An
\* unmounted component has no trip to replace.
ShowPreview(p) ==
  /\ view # "left"
  /\ preview[p] = "answered"
  /\ preview' = [preview EXCEPT ![p] = "done"]
  /\ trip' = IF Mounted THEN [tripID |-> None, preview |-> p] ELSE trip
  /\ UNCHANGED <<saved, start, fareOf, inserted, announced, faults, destination,
                 timer, isMatching, tripStatus, paymentSession, connection,
                 events, history>>

-----------------------------------------------------------------------------
(* Booking *)

\* handleStartTrip, up to the call: the rider picks a package from DriverList.
\* Its return on a fare without an ID does not occur: a fare that is shown has
\* been stored, with an ID.
StartTrip(s) ==
  /\ Screen = "select"
  /\ start[s] = "unused"
  /\ \A r \in Starts : r < s => start[r] # "unused"
  /\ start' = [start EXCEPT ![s] = "sent"]
  /\ fareOf' = [fareOf EXCEPT ![s] = trip.preview]
  /\ isMatching' = TRUE
  /\ overtaken' = IF timer \/ Pending # {} THEN overtaken \cup {s} ELSE overtaken
  /\ UNCHANGED <<preview, saved, inserted, announced, faults, trip, destination,
                 timer, tripStatus, paymentSession, connection, events, cancels>>

\* What the gateway writes of a CreateTripResponse: encoding/json takes the
\* names of the fields from the generated tags.
StartResponse(s) == [trip_id |-> s]

\* A property of a JavaScript object.
Property(object, name) ==
  IF name \in DOMAIN object THEN object[name] ELSE Undefined

\* handleStartTrip goes on with the answer: it changes whatever trip the page
\* has by then, or makes one that has a trip ID only.
TripStarted(s) ==
  /\ view # "left"
  /\ start[s] = "answered"
  /\ start' = [start EXCEPT ![s] = "booked"]
  /\ trip' = IF Mounted
             THEN [tripID |-> Property(StartResponse(s), "tripID"),
                   preview |-> IF trip = None THEN None ELSE trip.preview]
             ELSE trip
  /\ UNCHANGED <<preview, saved, fareOf, inserted, announced, faults, destination,
                 timer, isMatching, tripStatus, paymentSession, connection,
                 events, history>>

\* BUG variant: a call that has failed leaves the page as it is.
StartFailed_StillMatching(s) ==
  /\ view # "left"
  /\ start[s] = "refused"
  /\ start' = [start EXCEPT ![s] = "failed"]
  /\ UNCHANGED <<preview, saved, fareOf, inserted, announced, faults, trip,
                 destination, timer, isMatching, tripStatus, paymentSession,
                 connection, events, history>>

\* handleStartTrip catches the error of the call.
StartFailed(s) ==
  /\ view # "left"
  /\ start[s] = "refused"
  /\ start' = [start EXCEPT ![s] = "failed"]
  /\ isMatching' = FALSE
  /\ UNCHANGED <<preview, saved, fareOf, inserted, announced, faults, trip,
                 destination, timer, tripStatus, paymentSession, connection,
                 events, history>>

\* BUG variant: cancelling leaves isMatching as it is.
CancelTrip_StillMatching ==
  /\ Screen \in {"driver found", "no drivers", "matching", "select"}
  /\ cancels < MaxCancels
  /\ cancels' = cancels + 1
  /\ trip' = None
  /\ destination' = None
  /\ tripStatus' = None
  /\ paymentSession' = None
  /\ UNCHANGED <<bookingVars, isMatching, timer, connection, events, overtaken>>

\* handleCancelTrip, from any screen that has the button: it clears the page and
\* tells nobody.  The timer and the calls in flight are not stopped.
CancelTrip ==
  /\ Screen \in {"driver found", "no drivers", "matching", "select"}
  /\ cancels < MaxCancels
  /\ cancels' = cancels + 1
  /\ trip' = None
  /\ destination' = None
  /\ isMatching' = FALSE
  /\ tripStatus' = None
  /\ paymentSession' = None
  /\ UNCHANGED <<bookingVars, timer, connection, events, overtaken>>

-----------------------------------------------------------------------------
(* Events *)

\* The events that may follow those there have been about a trip.
Following(types) ==
  CASE types = {} -> {NoDriversFound, DriverAssigned}
    [] types = {DriverAssigned} -> {PaymentSessionCreated}
    [] OTHER -> {}

Emitted(s) == {e.type : e \in {f \in emitted : f.trip = s}}

\* Another service publishes an event about an announced trip.
Emit(e) ==
  /\ e.trip \in announced
  /\ e.type \in Following(Emitted(e.trip))
  /\ emitted' = emitted \cup {e}
  /\ wire' = wire \cup {e}
  /\ UNCHANGED <<bookingVars, page, connection, missed, history>>

\* BUG variant: the effect does not name driver_assigned.
HandleMessage_NotWhenAssigned(e) ==
  /\ tripStatus' = e.type
  /\ paymentSession' = IF e.type = PaymentSessionCreated THEN e.trip ELSE paymentSession
  /\ isMatching' = IF tripStatus' # tripStatus /\ e.type # DriverAssigned
                   THEN FALSE ELSE isMatching

\* handleMessage, and the effect that runs when it has changed the status.
HandleMessage(e) ==
  /\ tripStatus' = e.type
  /\ paymentSession' = IF e.type = PaymentSessionCreated THEN e.trip ELSE paymentSession
  /\ isMatching' = IF tripStatus' # tripStatus THEN FALSE ELSE isMatching

\* The gateway writes the event to the page's websocket, or drops it when there
\* is none (its consumer has acknowledged it already).
Notify(e) ==
  /\ e \in wire
  /\ wire' = wire \ {e}
  /\ IF socket = "open"
     THEN HandleMessage(e) /\ UNCHANGED missed
     ELSE missed' = missed \cup {e.trip} /\ UNCHANGED <<tripStatus, paymentSession, isMatching>>
  /\ UNCHANGED <<bookingVars, trip, destination, timer, connection, emitted, history>>

-----------------------------------------------------------------------------
(* The websocket, and the beginning and end of the page *)

\* The rider chooses to ride: RiderMap is mounted and opens its websocket.
Mount ==
  /\ view = "none"
  /\ ChooseRider
  /\ view' = "ui"
  /\ socket' = "connecting"
  /\ UNCHANGED <<bookingVars, page, events, history>>

SocketOpens ==
  /\ socket = "connecting"
  /\ socket' = "open"
  /\ UNCHANGED <<bookingVars, page, view, homeVars, events, history>>

\* The socket ends; useBaseWebSocket does not open another.  After an error the
\* page shows nothing else any more.
SocketCloses(v) ==
  /\ socket # "closed" /\ view = "ui"
  /\ Fault
  /\ socket' = "closed"
  /\ view' = v
  /\ UNCHANGED <<preview, saved, start, fareOf, inserted, announced, page, homeVars,
                 events, history>>

\* The component goes, with its state; its websocket is closed in whatever state
\* it is.
Unmount(v) ==
  /\ view' = v
  /\ socket' = "closed"
  /\ trip' = None
  /\ destination' = None
  /\ isMatching' = FALSE
  /\ tripStatus' = None
  /\ paymentSession' = None

\* The rider goes back to the choice.  The timer and the calls in flight are not
\* stopped, and nobody is told of a booking.
Back ==
  /\ Mounted
  /\ GoBack
  /\ Unmount("gone")
  /\ UNCHANGED <<bookingVars, timer, events, history>>

\* The payment button leads to Stripe: the whole document goes.
Pay ==
  /\ Screen = "payment"
  /\ Unmount("left")
  /\ timer' = FALSE
  /\ UNCHANGED <<bookingVars, homeVars, events, history>>

\* Stripe returns the browser to a new document.
Return(outcome) ==
  /\ view = "left" /\ userType # None
  /\ StripeReturns(outcome)
  /\ UNCHANGED <<bookingVars, page, socket, view, events, history>>

\* The rider leaves the screen that says the payment went well.
LeaveSuccess ==
  /\ ReturnHome
  /\ UNCHANGED <<bookingVars, page, socket, view, events, history>>

-----------------------------------------------------------------------------
(* Specification *)

Services == TripService /\ UNCHANGED <<page, connection, events, history>>

RiderActs ==
  \/ MapClick
  \/ \E s \in Starts : StartTrip(s)
  \/ CancelTrip
  \/ Mount \/ Back
  \/ Pay \/ LeaveSuccess

PageReacts ==
  \/ \E p \in Previews : TimerFires(p) \/ ShowPreview(p)
  \/ \E s \in Starts : TripStarted(s) \/ StartFailed(s)

Next ==
  \/ Services
  \/ RiderActs
  \/ PageReacts
  \/ \E e \in Event : Emit(e) \/ Notify(e)
  \/ SocketOpens
  \/ SocketCloses("ui") \/ SocketCloses("error")
  \/ \E outcome \in Outcomes : Return(outcome)

Spec == Init /\ [][Next]_vars

\* What follows from a click on a package without the rider: the call, its answer
\* on the page, and a first event about the trip.
BookingGoesOn(s) ==
  \/ StartCall(s) /\ UNCHANGED <<page, connection, events, history>>
  \/ TripStarted(s) \/ StartFailed(s)
  \/ Emitted(s) = {} /\ \E e \in Event : e.trip = s /\ Emit(e)

\* A booking goes on once the rider has asked for it (an announced trip is not
\* left without an answer: what TripFlow needs for that is said there), and the
\* gateway goes on consuming.  Nothing is assumed of the rider, of the previews,
\* of the websocket or of the order of the events.
Fairness ==
  /\ \A s \in Starts : WF_vars(BookingGoesOn(s))
  /\ WF_vars(\E e \in Event : Notify(e))

FairSpec == Spec /\ Fairness

-----------------------------------------------------------------------------
(* Properties *)

\* Every variable stays in its domain.
TypeOK ==
  /\ BookingTypeOK
  /\ trip \in TripPreview \cup {None}
  /\ destination \in Previews \cup {None}
  /\ timer \in BOOLEAN /\ isMatching \in BOOLEAN
  /\ tripStatus \in EventTypes \cup {None}
  /\ paymentSession \in Starts \cup {None}
  /\ socket \in {"connecting", "open", "closed"}
  /\ view \in {"none", "ui", "error", "gone", "left"}
  /\ HomeTypeOK
  /\ emitted \in SUBSET Event
  /\ wire \in SUBSET emitted
  /\ missed \in SUBSET Starts
  /\ cancels \in 0 .. MaxCancels
  /\ overtaken \in SUBSET Starts

\* The calls whose failure the page has not been told of: those under way and
\* those that gave the rider a trip.
Bookings == {s \in Starts : start[s] \notin {"unused", "failed"}}

\* However clicks, answers and events interleave, the rider gets one trip, and
\* one more for every cancellation (which ends no trip).
OneTripPerCancellation == Cardinality(Bookings) <= 1 + cancels

\* A rider who was told of a trip is not left alone with it: the trip is stored
\* and was announced to the other services.
BookedIsAnnounced == \A s \in Starts :
  start[s] \in {"answered", "booked"} => s \in inserted \cap announced

\* The fares on the page are in the database, whatever has failed while they
\* were stored and whatever call they come from.
FaresShownAreStored ==
  trip # None /\ trip.preview # None => saved[trip.preview] = NumPackages

\* While a driver is looked for, the route on the map is that of the fare the
\* rider has chosen, unless a preview was pending when it was chosen or the
\* rider had cancelled a booking before.
MatchingShowsWhatIsBooked ==
  isMatching /\ cancels = 0 =>
    \A s \in Bookings \ overtaken : trip.preview = fareOf[s]

\* A page that waits for a driver has had no event since its booking began; so
\* whatever event comes next changes the status and ends the wait.
MatchingIsUnanswered == isMatching => tripStatus = None

\* The state of RiderDeal that a state of the page stands for.
DealState ==
  IF view \notin {"none", "ui"} THEN "gone"
  ELSE IF tripStatus # None THEN "told"
  ELSE IF isMatching THEN "waiting" ELSE "free"

Deal == INSTANCE RiderDeal WITH
  deal <- DealState, trips <- Cardinality(Bookings), chances <- cancels

\* The page implements the deal: a rider books only on a page that waits for
\* nothing and has been told nothing, and leaves that state, comes back to it and
\* is told of bookings as RiderDeal says, through whatever callbacks and failures.
BooksOneAtATime == Deal!Spec

\* A rider does not look at the matching screen forever, unless the page has no
\* websocket when it is told.
MatchingEnds == isMatching ~> (~isMatching \/ missed # {} \/ view # "ui")

-----------------------------------------------------------------------------
(* What the source says, and the program does not do *)

\* types.ts:46 and types.ts:50, "tripID: string": the page's trip has an ID that
\* is a string, that of a trip or the empty one.
TripIDIsString == trip # None => trip.tripID # Undefined

\* RiderTripOverview.tsx:95, "Driver Found: Waiting for payment session to be
\* created/ready": the screen that waits for the session is not shown to a rider
\* whose page has the session.
WaitsOnlyForSession == Screen = "driver found" => paymentSession = None

=============================================================================

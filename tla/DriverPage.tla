------------------------------ MODULE DriverPage ------------------------------
(***************************************************************************)
(* The page of one driver (module Home) and the gateway's handler of its   *)
(* websocket: the handshake that registers the driver, the locations the   *)
(* page sends, the requests that reach it, the screen DriverTripOverview   *)
(* shows of them, the driver's answers, and the way back to the choice.    *)
(* One mount of DriverMap is followed: another has a userID and a          *)
(* websocket of its own.                                                   *)
(*                                                                         *)
(* Each direction of the websocket keeps its order.  But what the gateway  *)
(* writes comes from two goroutines, the handler and a QueueConsumer,      *)
(* which may be that of another driver's handler and does not wait for     *)
(* this one.  So the first request can overtake the registration.          *)
(*                                                                         *)
(* The page keeps one requested trip and one status.  Every message        *)
(* replaces the status, and every request replaces the trip.               *)
(***************************************************************************)
EXTENDS Naturals, Sequences, Home

CONSTANTS
  Trips,       \* trip ids
  MaxRequests, \* bound: how often the driver is asked for one trip
  MaxMoves,    \* bound: positions the browser reports after the first
  MaxFaults    \* bound: failing calls

ASSUME DriverPageAssumption ==
  /\ None \notin Trips
  /\ MaxRequests \in Nat /\ MaxMoves \in Nat /\ MaxFaults \in Nat

VARIABLES
  socket,         \* the page's websocket: "none" yet, "connecting", "open" or "closed"
  view,           \* DriverMap: "none" yet, its "ui", an "error", or "gone"
  location,       \* the page's location: the number of position changes
  ref,            \* what the callbacks in the refs know: a location, the websocket
  driver,         \* does the page have the driver's data
  requestedTrip,  \* the trip on the page
  tripStatus,     \* the type of the last message, or the driver's answer
  up,             \* the messages on their way from the page to the gateway
  down,           \* the messages on their way from the gateway to the page
  handler,        \* where the gateway's handler of the socket stands
  registered,     \* driver-service: is the driver registered
  queue,          \* broker: queue[t], the requests for this driver to take t
  published,      \* broker: the answers the gateway has published
  requests,       \* history: requests[t], how often driver-service asked for t
  arrived,        \* history: arrived[t], how many requests reached the page
  answers,        \* history: answers[t], how often the driver has answered
  sent,           \* history: the location that was sent last, or None
  early,          \* history: did a request overtake the registration
  dropped,        \* history: the trips an answer to which was not sent
  faults          \* faults so far

position == <<location, ref>>
page == <<socket, view, driver, requestedTrip, tripStatus, position, homeVars>>
gateway == <<handler, registered>>
broker == <<queue, published>>
history == <<requests, arrived, answers, sent, early, dropped>>
vars == <<page, up, down, gateway, broker, history, faults>>

DriverLocation == "driver.cmd.location"
DriverTripRequest == "driver.cmd.trip_request"
DriverTripAccept == "driver.cmd.trip_accept"
DriverTripDecline == "driver.cmd.trip_decline"
DriverRegister == "driver.cmd.register"

AnswerTypes == {DriverTripAccept, DriverTripDecline}

Answers == [type : AnswerTypes, trip : Trips]
Locations == 0 .. MaxMoves
UpMessages == Answers \cup [type : {DriverLocation}, location : Locations]
DownMessages == [type : {DriverTripRequest}, trip : Trips]
                \cup [type : {DriverRegister}, trip : {None}]

Init ==
  /\ HomeInit
  /\ socket = "none"
  /\ view = "none"
  /\ location = 0
  /\ ref = [location |-> 0, ws |-> FALSE]
  /\ driver = FALSE
  /\ requestedTrip = None
  /\ tripStatus = None
  /\ up = <<>>
  /\ down = <<>>
  /\ handler = "none"
  /\ registered = FALSE
  /\ queue = [t \in Trips |-> 0]
  /\ published = {}
  /\ requests = [t \in Trips |-> 0]
  /\ arrived = [t \in Trips |-> 0]
  /\ answers = [t \in Trips |-> 0]
  /\ sent = None
  /\ early = FALSE
  /\ dropped = {}
  /\ faults = 0

Fault ==
  /\ faults < MaxFaults
  /\ faults' = faults + 1

\* The entry of the driver in the gateway's ConnectionManager.
Connected == handler \in {"awaiting location", "registered", "serving"}

-----------------------------------------------------------------------------
(* The beginning and end of the page *)

\* "I Want to Drive", and the Back button of the list of packages.
Choose ==
  /\ view = "none"
  /\ ChooseDriver \/ GoBack
  /\ UNCHANGED <<socket, view, driver, requestedTrip, tripStatus, position, up, down,
                 gateway, broker, history, faults>>

\* A package is selected: DriverMap is mounted and opens its websocket.  Its first
\* effects have the refs know the location but not yet the websocket.
Mount(p) ==
  /\ view = "none"
  /\ SelectPackage(p)
  /\ view' = "ui"
  /\ socket' = "connecting"
  /\ UNCHANGED <<driver, requestedTrip, tripStatus, position, up, down, gateway, broker,
                 history, faults>>

\* BUG variant: the hook closes an open websocket only.
Back_OpenOnly ==
  /\ view \in {"ui", "error"}
  /\ GoBack
  /\ view' = "gone"
  /\ socket' = IF socket = "open" THEN "closed" ELSE socket
  /\ driver' = FALSE
  /\ requestedTrip' = None
  /\ tripStatus' = None
  /\ down' = <<>>
  /\ UNCHANGED <<position, up, gateway, broker, history, faults>>

\* The driver goes back to the choice: the component goes with its state, and its
\* websocket is closed, open or connecting.  What the page has sent is still read;
\* a trip the driver has accepted is not given up.
Back ==
  /\ view \in {"ui", "error"}
  /\ GoBack
  /\ view' = "gone"
  /\ socket' = "closed"
  /\ driver' = FALSE
  /\ requestedTrip' = None
  /\ tripStatus' = None
  /\ down' = <<>>
  /\ UNCHANGED <<position, up, gateway, broker, history, faults>>

-----------------------------------------------------------------------------
(* The page's end of the websocket *)

\* BUG variant: the effect that points the ref to sendMessage is missing, so onopen
\* calls the initial, empty function.
SocketOpens_EmptyRef ==
  /\ socket = "connecting" /\ handler # "none"
  /\ socket' = "open"
  /\ UNCHANGED <<view, driver, requestedTrip, tripStatus, position, homeVars, up, down,
                 gateway, broker, history, faults>>

\* onopen sends the location its refs know, if they know the websocket.
SocketOpens ==
  /\ socket = "connecting" /\ handler # "none"
  /\ socket' = "open"
  /\ IF ref.ws
     THEN /\ up' = Append(up, [type |-> DriverLocation, location |-> ref.location])
          /\ sent' = ref.location
     ELSE UNCHANGED <<up, sent>>
  /\ UNCHANGED <<view, driver, requestedTrip, tripStatus, position, homeVars, down,
                 gateway, broker, requests, arrived, answers, early, dropped, faults>>

\* The browser reports another position.
Move ==
  /\ view = "ui"
  /\ location < MaxMoves
  /\ location' = location + 1
  /\ UNCHANGED <<socket, view, driver, requestedTrip, tripStatus, ref, homeVars, up, down,
                 gateway, broker, history, faults>>

\* Have the effects of the last render run?
Settled == ref.ws /\ ref.location = location

\* BUG variant: there is no effect that sends a location.
Effects_SendNothing ==
  /\ view = "ui"
  /\ ~Settled
  /\ ref' = [location |-> location, ws |-> TRUE]
  /\ UNCHANGED <<socket, view, driver, requestedTrip, tripStatus, location, homeVars, up,
                 down, gateway, broker, history, faults>>

\* The page is rendered again and its effects run: the refs are brought up to date,
\* and the location is sent if the websocket is open.
Effects ==
  /\ view = "ui"
  /\ ~Settled
  /\ ref' = [location |-> location, ws |-> TRUE]
  /\ IF socket = "open"
     THEN /\ up' = Append(up, [type |-> DriverLocation, location |-> location])
          /\ sent' = location
     ELSE UNCHANGED <<up, sent>>
  /\ UNCHANGED <<socket, view, driver, requestedTrip, tripStatus, location, homeVars, down,
                 gateway, broker, requests, arrived, answers, early, dropped, faults>>

\* The network fails; what is on its way to the page is lost.  After an error
\* the page shows nothing else any more, and no other websocket is opened.
SocketFails(v) ==
  /\ socket # "closed" /\ view = "ui"
  /\ Fault
  /\ socket' = "closed"
  /\ view' = v
  /\ down' = <<>>
  /\ UNCHANGED <<driver, requestedTrip, tripStatus, position, homeVars, up, gateway,
                 broker, history>>

\* handleMessage of useDriverStreamConnection.
HandleMessage(m) ==
  /\ requestedTrip' = IF m.type = DriverTripRequest THEN m.trip ELSE requestedTrip
  /\ driver' = (driver \/ m.type = DriverRegister)
  /\ tripStatus' = m.type

Receive ==
  /\ socket = "open"
  /\ down # <<>>
  /\ down' = Tail(down)
  /\ LET m == Head(down) IN
       /\ HandleMessage(m)
       /\ arrived' = IF m.type = DriverTripRequest
                     THEN [arrived EXCEPT ![m.trip] = @ + 1] ELSE arrived
       /\ early' = (early \/ (m.type = DriverTripRequest /\ ~driver))
  /\ UNCHANGED <<socket, view, position, homeVars, up, gateway, broker, requests, answers,
                 sent, dropped, faults>>

-----------------------------------------------------------------------------
(* The driver *)

\* DriverTripOverview: the first of its returns that applies.
Screen ==
  IF view # "ui" THEN view
  ELSE IF requestedTrip = None THEN "ready"
  ELSE IF tripStatus = DriverTripRequest THEN "request"
  ELSE IF tripStatus = DriverTripAccept THEN "active"
  ELSE "blank"

\* sendMessage of useBaseWebSocket: without an open websocket the message is
\* dropped, and the caller does not learn of it.
SendAnswer(type) ==
  /\ Screen = "request" /\ driver
  /\ answers' = [answers EXCEPT ![requestedTrip] = @ + 1]
  /\ IF socket = "open"
     THEN up' = Append(up, [type |-> type, trip |-> requestedTrip]) /\ UNCHANGED dropped
     ELSE dropped' = dropped \cup {requestedTrip} /\ UNCHANGED up

\* BUG variant: the status stays that of the request.
AcceptTrip_KeepsStatus ==
  /\ SendAnswer(DriverTripAccept)
  /\ UNCHANGED <<page, down, gateway, broker, requests, arrived, sent, early, faults>>

\* handleAcceptTrip: "Accept Trip" on the request screen.
AcceptTrip ==
  /\ SendAnswer(DriverTripAccept)
  /\ tripStatus' = DriverTripAccept
  /\ UNCHANGED <<socket, view, driver, requestedTrip, position, homeVars, down, gateway,
                 broker, requests, arrived, sent, early, faults>>

\* BUG variant: resetTripStatus resets the status only.
DeclineTrip_KeepsTrip ==
  /\ SendAnswer(DriverTripDecline)
  /\ tripStatus' = None
  /\ UNCHANGED <<socket, view, driver, requestedTrip, position, homeVars, down, gateway,
                 broker, requests, arrived, sent, early, faults>>

\* handleDeclineTrip: "Decline" on the request screen.
DeclineTrip ==
  /\ SendAnswer(DriverTripDecline)
  /\ tripStatus' = None
  /\ requestedTrip' = None
  /\ UNCHANGED <<socket, view, driver, position, homeVars, down, gateway, broker, requests,
                 arrived, sent, early, faults>>

-----------------------------------------------------------------------------
(* handleDriversWebSocket *)

\* The gateway upgrades the connection and adds it.  The page may have given it up
\* by then.
Accept ==
  /\ handler = "none" /\ socket # "none"
  /\ handler' = "awaiting location"
  /\ UNCHANGED <<page, up, down, registered, broker, history, faults>>

\* The first location has come: RegisterDriver is called and has succeeded.  (A
\* page has nothing to answer before that, so the first message is a location.)
Register ==
  /\ handler = "awaiting location"
  /\ up # <<>>
  /\ up' = Tail(up)
  /\ registered' = TRUE
  /\ handler' = "registered"
  /\ UNCHANGED <<page, down, broker, history, faults>>

\* RegisterDriver failed: the deferred cleanup runs and the websocket closes.
RegisterFails ==
  /\ handler = "awaiting location"
  /\ up # <<>>
  /\ Fault
  /\ handler' = "ended"
  /\ socket' = "closed"
  /\ up' = <<>>
  /\ UNCHANGED <<view, driver, requestedTrip, tripStatus, position, homeVars, down,
                 registered, broker, history>>

\* The handler tells the page of its registration and starts to serve it.
Greet ==
  /\ handler = "registered"
  /\ handler' = "serving"
  /\ down' = IF socket = "open"
             THEN Append(down, [type |-> DriverRegister, trip |-> None]) ELSE down
  /\ UNCHANGED <<page, up, registered, broker, history, faults>>

\* BUG variant: an answer is taken for a location update.
Serve_IgnoresAnswers ==
  /\ handler = "serving"
  /\ up # <<>>
  /\ up' = Tail(up)
  /\ UNCHANGED <<page, down, gateway, broker, history, faults>>

\* The handler publishes an answer; a further location has no effect.
Serve ==
  /\ handler = "serving"
  /\ up # <<>>
  /\ up' = Tail(up)
  /\ published' = IF Head(up).type \in AnswerTypes
                  THEN published \cup {Head(up)} ELSE published
  /\ UNCHANGED <<page, down, gateway, queue, history, faults>>

\* The publication fails, which is logged.
PublishFails ==
  /\ handler = "serving"
  /\ up # <<>> /\ Head(up).type \in AnswerTypes
  /\ Fault
  /\ up' = Tail(up)
  /\ UNCHANGED <<page, down, gateway, broker, history>>

\* BUG variant: the end of the websocket ends the handler, whatever it has not read.
Ending_AtOnce ==
  /\ Connected
  /\ socket = "closed"
  /\ handler' = "ended"
  /\ up' = <<>>

\* The handler notices that the websocket has ended: writing the registration to
\* it fails, or ReadMessage does.  ReadMessage returns what the page has sent
\* before, unless the connection has broken.
Ending ==
  /\ Connected
  /\ socket = "closed"
  /\ handler = "registered" \/ up = <<>> \/ faults > 0
  /\ handler' = "ended"
  /\ up' = <<>>

\* The deferred cleanup has the driver unregistered.
HandlerEnds ==
  /\ Ending
  /\ registered' = FALSE
  /\ UNCHANGED <<page, down, broker, history, faults>>

\* UnregisterDriver fails: the driver stays registered.
UnregisterFails ==
  /\ Ending
  /\ Fault
  /\ UNCHANGED <<page, down, registered, broker, history>>

-----------------------------------------------------------------------------
(* Requests *)

\* driver-service draws this driver among those registered.
RequestTrip(t) ==
  /\ registered
  /\ requests[t] < MaxRequests
  /\ requests' = [requests EXCEPT ![t] = @ + 1]
  /\ queue' = [queue EXCEPT ![t] = @ + 1]
  /\ UNCHANGED <<page, up, down, gateway, published, arrived, answers, sent,
                 early, dropped, faults>>

\* BUG variant: the consumer neither acknowledges the request nor asks for
\* messages that need no acknowledgement, and it is delivered again.
Deliver_AndAgain(t) ==
  /\ queue[t] > 0
  /\ down' = IF Connected /\ socket = "open"
             THEN Append(down, [type |-> DriverTripRequest, trip |-> t]) ELSE down
  /\ UNCHANGED <<page, up, gateway, broker, history, faults>>

\* Some handler's QueueConsumer takes the request: it is written to the websocket,
\* or lost when the manager has no entry or the page is gone.
Deliver(t) ==
  /\ queue[t] > 0
  /\ queue' = [queue EXCEPT ![t] = @ - 1]
  /\ down' = IF Connected /\ socket = "open"
             THEN Append(down, [type |-> DriverTripRequest, trip |-> t]) ELSE down
  /\ UNCHANGED <<page, up, gateway, published, history, faults>>

-----------------------------------------------------------------------------
(* Specification *)

Handler ==
  \/ Register \/ RegisterFails \/ Greet \/ Serve \/ PublishFails
  \/ HandlerEnds \/ UnregisterFails

Next ==
  \/ Choose \/ Back
  \/ \E p \in CarPackages : Mount(p)
  \/ SocketOpens
  \/ Move \/ Effects
  \/ SocketFails("ui") \/ SocketFails("error")
  \/ Receive
  \/ AcceptTrip \/ DeclineTrip
  \/ Accept \/ Handler
  \/ \E t \in Trips : RequestTrip(t) \/ Deliver(t)

Spec == Init /\ [][Next]_vars

\* The gateway accepts a websocket the page is waiting for, and the browser, the
\* handler and the consumers go on with what they have to do.  Nothing is assumed
\* of the driver.
Fairness ==
  /\ WF_vars(Accept /\ socket = "connecting")
  /\ WF_vars(SocketOpens)
  /\ WF_vars(Effects)
  /\ WF_vars(Receive)
  /\ WF_vars(Handler)
  /\ \A t \in Trips : WF_vars(Deliver(t))

FairSpec == Spec /\ Fairness

-----------------------------------------------------------------------------
(* Properties *)

PageTypeOK ==
  /\ socket \in {"none", "connecting", "open", "closed"}
  /\ view \in {"none", "ui", "error", "gone"}
  /\ location \in Locations
  /\ ref \in [location : Locations, ws : BOOLEAN]
  /\ sent \in Locations \cup {None}

OfferTypeOK ==
  /\ driver \in BOOLEAN /\ early \in BOOLEAN
  /\ requestedTrip \in Trips \cup {None}
  /\ tripStatus \in {None, DriverTripRequest, DriverRegister, DriverTripAccept}
  /\ dropped \in SUBSET Trips

GatewayTypeOK ==
  /\ handler \in {"none", "awaiting location", "registered", "serving", "ended"}
  /\ registered \in BOOLEAN
  /\ published \in SUBSET Answers
  /\ faults \in 0 .. MaxFaults

RequestTypeOK ==
  /\ queue \in [Trips -> 0 .. MaxRequests]
  /\ requests \in [Trips -> 0 .. MaxRequests]
  /\ arrived \in [Trips -> 0 .. MaxRequests]
  /\ answers \in [Trips -> Nat]

\* Every variable stays in its domain: in particular no more requests for a trip
\* arrive than were made.
TypeOK ==
  /\ HomeTypeOK
  /\ PageTypeOK
  /\ OfferTypeOK
  /\ GatewayTypeOK
  /\ RequestTypeOK
  /\ up \in Seq(UpMessages)
  /\ down \in Seq(DownMessages)

\* The driver answers a trip no more often than its request has come to the
\* page, however requests for other trips come in between.
OneAnswerPerRequest == \A t \in Trips : answers[t] <= arrived[t]

\* A trip on the page can be answered, or it has been accepted: no message that
\* comes after its request takes the buttons away, unless the request came
\* before the page knew of the registration.
RequestIsAnswerable ==
  requestedTrip # None /\ view = "ui" /\ ~early => Screen \in {"request", "active"}

\* Whether the websocket opens before or after the page has rendered what it knows
\* of it and of the driver's position: once the effects have run, the gateway has
\* been sent the location the page shows.
LatestLocationIsSent == socket = "open" /\ view = "ui" /\ Settled => sent = location

\* The answer is on its way to the gateway, or the gateway has published it.
UnderWay(a) == a \in published \/ \E i \in DOMAIN up : up[i] = a

\* An answer the driver has given is under way or published, even if the page was
\* left at once, and a driver who sees "Active Trip" has accepted that very trip,
\* as long as nothing has failed.
AnswersAreUnderWay == faults = 0 => \A t \in Trips :
  /\ answers[t] > 0 => \E type \in AnswerTypes : UnderWay([type |-> type, trip |-> t])
  /\ Screen = "active" /\ requestedTrip = t =>
       UnderWay([type |-> DriverTripAccept, trip |-> t])

\* A page whose websocket is open gets the driver's data, without which no request
\* can be answered, unless something fails or the driver goes back.
ComesOnline == (socket = "open") ~> (driver \/ socket = "closed" \/ faults > 0)

\* A driver who sees "Active Trip" has told trip-service so, or will have, even if
\* the page is left at once, unless something fails.
ActiveIsPublished == \A t \in Trips :
  (Screen = "active" /\ requestedTrip = t) ~>
    \/ [type |-> DriverTripAccept, trip |-> t] \in published
    \/ faults > 0

\* A driver who has gone back is taken out of the registered drivers for good, at
\* whatever point of the handshake that was, unless something fails.
GoneIsUnregistered == (view = "gone") ~> (faults > 0 \/ [](~registered))

=============================================================================

------------------------------ MODULE TripFlow ------------------------------
(***************************************************************************)
(* The life of a trip across RideSync's services: trip-service creates it, *)
(* driver-service finds a driver, the gateway carries offers and answers   *)
(* over the websockets, trip-service assigns the driver, payment-service   *)
(* opens a Stripe session, the rider pays, Stripe calls back.              *)
(*                                                                         *)
(* The services share nothing but the messages of the TripExchange.  A     *)
(* message of an acknowledged queue is worked on by a goroutine, one       *)
(* external call per step, with the retries, the dead letter queue and the *)
(* redelivery that Delivery models in full.  The queues the gateway reads  *)
(* are consumed with auto-ack: what cannot be handed to a websocket at     *)
(* once is gone.                                                           *)
(*                                                                         *)
(* Faults are taken from one budget.  An external call may fail, a service *)
(* may crash between any two steps and be restarted, Stripe may repeat a   *)
(* webhook.  Crashable and Fallible choose which, so that a run can ask    *)
(* what a given failure does.                                              *)
(*                                                                         *)
(* Websocket user ids are drawn at random when the page is mounted, so a   *)
(* rider or a driver whose socket has closed never comes back as the same  *)
(* user; reconnections with the same id are the business of the gateway.   *)
(***************************************************************************)
EXTENDS Naturals, FiniteSets

CONSTANTS
  Trips,          \* trip ids; each has a rider of its own
  Drivers,        \* driver user ids
  None,           \* no driver, no trip
  TripPackage,    \* TripPackage[t]: the package slug of t's fare
  DriverPackage,  \* DriverPackage[d]: the package slug d registers with
  Goroutines,     \* bound: messages being worked on at the same time
  MaxRetries,     \* retry.DefaultConfig().MaxRetries
  MaxFaults,      \* bound: failing calls, crashes and repeated webhooks
  MayClose,       \* bound: the drivers and trips whose page may be closed
  Crashable,      \* the services that may crash
  Fallible        \* the steps whose external call may fail

Services == {"trip-service", "driver-service", "payment-service"}

\* The steps of the handlers, named for the external call each makes; and what
\* may go wrong elsewhere: the publication of a created trip, that of a driver's
\* answer, any publication without an error, the call that unregisters a
\* driver, and Stripe's webhook.
HandlerSteps == {"match", "assign", "reread", "announce", "charge", "reoffer",
                 "open session", "notify", "settle"}
OtherSteps == {"create", "answer", "confirm", "unregister", "webhook"}

ASSUME TripFlowAssumption ==
  /\ None \notin Trips \cup Drivers
  /\ Goroutines # {} /\ IsFiniteSet(Goroutines)
  /\ MaxRetries \in Nat /\ MaxFaults \in Nat
  /\ MayClose \subseteq Drivers \cup Trips
  /\ Crashable \subseteq Services \cup {"api-gateway"}
  /\ Fallible \subseteq HandlerSteps \cup OtherSteps

-----------------------------------------------------------------------------
(* Messages *)

TripEventCreated == "trip.event.created"
TripEventDriverNotInterested == "trip.event.driver_not_interested"
TripEventDriverAssigned == "trip.event.driver_assigned"
TripEventNoDriversFound == "trip.event.no_drivers_found"
DriverCmdTripRequest == "driver.cmd.trip_request"
DriverCmdTripAccept == "driver.cmd.trip_accept"
DriverCmdTripDecline == "driver.cmd.trip_decline"
PaymentCmdCreateSession == "payment.cmd.create_session"
PaymentEventSessionCreated == "payment.event.session_created"
PaymentEventSuccess == "payment.event.success"

\* Consumed with ConsumeMessages, and by which service.
WorkKeys == {TripEventCreated, TripEventDriverNotInterested, DriverCmdTripAccept,
             DriverCmdTripDecline, PaymentCmdCreateSession, PaymentEventSuccess}

ServiceOf(key) ==
  CASE key \in {TripEventCreated, TripEventDriverNotInterested} -> "driver-service"
    [] key = PaymentCmdCreateSession -> "payment-service"
    [] OTHER -> "trip-service"

\* Consumed by the gateway's QueueConsumer for the rider of the trip.
RiderKeys == {TripEventNoDriversFound, TripEventDriverAssigned, PaymentEventSessionCreated}

\* Those that name a driver: the addressee of a request, the author of an
\* answer, the driver announced or charged for.
DriverKeys == {DriverCmdTripRequest, DriverCmdTripAccept, DriverCmdTripDecline,
               TripEventDriverAssigned, PaymentCmdCreateSession}

Message == [key : DriverKeys, trip : Trips, driver : Drivers]
           \cup [key : (WorkKeys \cup RiderKeys) \ DriverKeys, trip : Trips, driver : {None}]

Msg(key, t, d) == [key |-> key, trip |-> t, driver |-> d]

\* BUG variant: the switch of the driver consumer handles both answers alike.
FirstStep_SameAnswer(key) ==
  CASE key \in {TripEventCreated, TripEventDriverNotInterested} -> "match"
    [] key \in {DriverCmdTripAccept, DriverCmdTripDecline} -> "assign"
    [] key = PaymentCmdCreateSession -> "open session"
    [] key = PaymentEventSuccess -> "settle"

FirstStep(key) ==
  CASE key \in {TripEventCreated, TripEventDriverNotInterested} -> "match"
    [] key = DriverCmdTripAccept -> "assign"
    [] key = DriverCmdTripDecline -> "reoffer"
    [] key = PaymentCmdCreateSession -> "open session"
    [] key = PaymentEventSuccess -> "settle"

-----------------------------------------------------------------------------
(* State *)

VARIABLES
  trips,       \* MongoDB: trips[t] has a status and a driver
  creation,    \* creation[t]: how far the CreateTrip call of t has come
  registered,  \* driver-service: the drivers in Service.drivers
  queue,       \* broker: queue[m], the ready copies of message m
  dlq,         \* broker: messages that were dead-lettered
  work,        \* work[g]: the delivery goroutine g is working on
  socket,      \* socket[d]: the websocket of driver d
  offer,       \* offer[d]: the trip d's page asks d to accept or decline
  rider,       \* rider[t]: is the page of t's rider still connected
  shown,       \* shown[t]: the events t's rider has received
  sessions,    \* Stripe: sessions[t][d], checkouts opened for t naming d
  payment,     \* Stripe: payment[t], where the payment of t stands
  webhookKey,  \* gateway: whether STRIPE_WEBHOOK_KEY is configured
  accepters,   \* history: accepters[t], the drivers who accepted t
  faults       \* faults so far

pages == <<socket, offer, rider, shown>>
stripe == <<sessions, payment, webhookKey>>
vars == <<trips, creation, registered, queue, dlq, work, pages, stripe, accepters, faults>>

\* The message, the step its handler is at, how many attempts have failed, and
\* the driver the handler has read from the trip.
Work == [msg : Message, step : HandlerSteps \cup {"ack", "reject"},
         failures : 0 .. MaxRetries + 1, read : Drivers \cup {None}]

Idle == [step |-> "idle"]

Init ==
  /\ trips = [t \in Trips |-> [status |-> "none", driver |-> None]]
  /\ creation = [t \in Trips |-> "none"]
  /\ registered = {}
  /\ queue = [m \in Message |-> 0]
  /\ dlq = {}
  /\ work = [g \in Goroutines |-> Idle]
  /\ socket = [d \in Drivers |-> "new"]
  /\ offer = [d \in Drivers |-> None]
  /\ rider = [t \in Trips |-> "here"]
  /\ shown = [t \in Trips |-> {}]
  /\ sessions = [t \in Trips |-> [d \in Drivers |-> 0]]
  /\ payment = [t \in Trips |-> "none"]
  /\ webhookKey \in BOOLEAN
  /\ accepters = [t \in Trips |-> {}]
  /\ faults = 0

\* The step can fail, and pays for it.
Faulty(what) ==
  /\ what \in Fallible
  /\ faults < MaxFaults
  /\ faults' = faults + 1

Publish(m) == queue' = [queue EXCEPT ![m] = @ + 1]

\* PublishWithContext returns when the message is written to the connection; no
\* confirmation is asked for, and a message the broker never got is gone.
PublicationLost(m) ==
  /\ queue[m] > 0
  /\ Faulty("confirm")
  /\ queue' = [queue EXCEPT ![m] = @ - 1]
  /\ UNCHANGED <<trips, creation, registered, dlq, work, pages, stripe, accepters>>

-----------------------------------------------------------------------------
(* trip-service: CreateTrip, called by the gateway's handleTripStart *)

InsertTrip(t) ==
  /\ creation[t] = "none"
  /\ trips' = [trips EXCEPT ![t].status = "Pending"]
  /\ creation' = [creation EXCEPT ![t] = "inserted"]
  /\ UNCHANGED <<registered, queue, dlq, work, pages, stripe, accepters, faults>>

PublishTripCreated(t) ==
  /\ creation[t] = "inserted"
  /\ creation' = [creation EXCEPT ![t] = "announced"]
  /\ Publish(Msg(TripEventCreated, t, None))
  /\ UNCHANGED <<trips, registered, dlq, work, pages, stripe, accepters, faults>>

\* The insert stays when the publication fails; the call is not retried.
PublishTripCreatedFails(t) ==
  /\ creation[t] = "inserted"
  /\ Faulty("create")
  /\ creation' = [creation EXCEPT ![t] = "orphaned"]
  /\ UNCHANGED <<trips, registered, queue, dlq, work, pages, stripe, accepters>>

-----------------------------------------------------------------------------
(* Consuming: ConsumeMessages and WithBackoff around a handler *)

Take(g, m) ==
  /\ work[g] = Idle
  /\ m.key \in WorkKeys
  /\ queue[m] > 0
  /\ queue' = [queue EXCEPT ![m] = @ - 1]
  /\ work' = [work EXCEPT ![g] =
       [msg |-> m, step |-> FirstStep(m.key), failures |-> 0, read |-> None]]
  /\ UNCHANGED <<trips, creation, registered, dlq, pages, stripe, accepters, faults>>

At(g, step) == work[g].step = step

Goto(g, step) == work' = [work EXCEPT ![g].step = step]

\* BUG variant: the retry loop has no last attempt.
HandlerError_Forever(g) ==
  LET w == work[g] IN
  work' = [work EXCEPT ![g] =
    [msg |-> w.msg, failures |-> w.failures + 1, read |-> None,
     step |-> FirstStep(w.msg.key)]]

\* The handler returned an error: run it again from its first step while
\* attempts are left, else reject the message.
HandlerError(g) ==
  LET w == work[g] IN
  work' = [work EXCEPT ![g] =
    [msg |-> w.msg, failures |-> w.failures + 1, read |-> None,
     step |-> IF w.failures < MaxRetries THEN FirstStep(w.msg.key) ELSE "reject"]]

\* The external call of the current step fails.
StepFails(g) ==
  /\ work[g].step \in HandlerSteps
  /\ Faulty(work[g].step)
  /\ HandlerError(g)
  /\ UNCHANGED <<trips, creation, registered, queue, dlq, pages, stripe, accepters>>

\* BUG variant: the handler returns without an Ack, and the broker hands the
\* message out again when the channel is recycled.
Ack_Missing(g) ==
  /\ At(g, "ack")
  /\ Publish(work[g].msg)
  /\ work' = [work EXCEPT ![g] = Idle]
  /\ UNCHANGED <<trips, creation, registered, dlq, pages, stripe, accepters, faults>>

Ack(g) ==
  /\ At(g, "ack")
  /\ work' = [work EXCEPT ![g] = Idle]
  /\ UNCHANGED <<trips, creation, registered, queue, dlq, pages, stripe, accepters, faults>>

Reject(g) ==
  /\ At(g, "reject")
  /\ dlq' = dlq \cup {work[g].msg}
  /\ work' = [work EXCEPT ![g] = Idle]
  /\ UNCHANGED <<trips, creation, registered, queue, pages, stripe, accepters, faults>>

-----------------------------------------------------------------------------
(* driver-service: the handler of find_available_drivers *)

\* BUG variant: the package of the trip is not looked at.
FindAvailableDrivers_Any(package) == registered

FindAvailableDrivers(package) == {d \in registered : DriverPackage[d] = package}

\* BUG variant: every suitable driver is asked at once.
Match_All(g) ==
  LET t == work[g].msg.trip
      suitable == FindAvailableDrivers(TripPackage[t])
      asked == {Msg(DriverCmdTripRequest, t, d) : d \in suitable}
      none == Msg(TripEventNoDriversFound, t, None)
  IN
  /\ At(g, "match")
  /\ queue' = [m \in Message |->
       IF m \in asked \/ (suitable = {} /\ m = none) THEN queue[m] + 1 ELSE queue[m]]
  /\ Goto(g, "ack")
  /\ UNCHANGED <<trips, creation, registered, dlq, pages, stripe, accepters, faults>>

\* handleFindAndNotifyDrivers: one of the drivers with the trip's package,
\* whoever has been asked before and whoever is on a trip, or none.
Match(g) ==
  LET t == work[g].msg.trip
      suitable == FindAvailableDrivers(TripPackage[t])
  IN
  /\ At(g, "match")
  /\ \/ /\ suitable = {}
        /\ Publish(Msg(TripEventNoDriversFound, t, None))
     \/ \E d \in suitable : Publish(Msg(DriverCmdTripRequest, t, d))
  /\ Goto(g, "ack")
  /\ UNCHANGED <<trips, creation, registered, dlq, pages, stripe, accepters, faults>>

-----------------------------------------------------------------------------
(* trip-service: the handlers of driver_trip_response and payment_success *)

\* The document UpdateTrip would leave: it sets the driver only if given one.
Updated(t, status, d) ==
  [status |-> status, driver |-> IF d = None THEN trips[t].driver ELSE d]

\* BUG variant: so that a second acceptance changes nothing, only a trip that is
\* Pending is updated, and any other counts as done.
UpdateTrip_PendingOnly(g, t, status, d, next) ==
  /\ trips' = IF trips[t].status = "Pending"
              THEN [trips EXCEPT ![t] = Updated(t, status, d)] ELSE trips
  /\ Goto(g, next)

\* UpdateTrip takes an update that modifies nothing for a missing trip, and
\* returns an error.
UpdateTrip(g, t, status, d, next) ==
  IF Updated(t, status, d) # trips[t]
  THEN /\ trips' = [trips EXCEPT ![t] = Updated(t, status, d)]
       /\ Goto(g, next)
  ELSE /\ HandlerError(g)
       /\ UNCHANGED trips

\* handleTripAccepted, first half.  GetTripByID finds the trip, trips are never
\* deleted; its status is not looked at.
Assign(g) ==
  LET m == work[g].msg IN
  /\ At(g, "assign")
  /\ UpdateTrip(g, m.trip, "accepted", m.driver, "reread")
  /\ UNCHANGED <<creation, registered, queue, dlq, pages, stripe, accepters, faults>>

\* handleTripAccepted reads the trip again ...
Reread(g) ==
  /\ At(g, "reread")
  /\ work' = [work EXCEPT ![g].step = "announce", ![g].read = trips[work[g].msg.trip].driver]
  /\ UNCHANGED <<trips, creation, registered, queue, dlq, pages, stripe, accepters, faults>>

\* ... and announces the driver it has found there, who need not be the one this
\* message is from, nor the one who is stored by now.
Announce(g) ==
  LET t == work[g].msg.trip IN
  /\ At(g, "announce")
  /\ Publish(Msg(TripEventDriverAssigned, t, work[g].read))
  /\ work' = [work EXCEPT ![g].step = "charge", ![g].read = None]
  /\ UNCHANGED <<trips, creation, registered, dlq, pages, stripe, accepters, faults>>

\* handleTripAccepted asks for a payment session that names its own driver.
Charge(g) ==
  LET m == work[g].msg IN
  /\ At(g, "charge")
  /\ Publish(Msg(PaymentCmdCreateSession, m.trip, m.driver))
  /\ Goto(g, "ack")
  /\ UNCHANGED <<trips, creation, registered, dlq, pages, stripe, accepters, faults>>

\* BUG variant: a decline is acknowledged and the matching is not resumed.
Reoffer_Forgotten(g) ==
  /\ At(g, "reoffer")
  /\ Goto(g, "ack")
  /\ UNCHANGED <<trips, creation, registered, queue, dlq, pages, stripe, accepters, faults>>

\* handleTripDeclined puts the trip back to matching, whatever its status.
Reoffer(g) ==
  /\ At(g, "reoffer")
  /\ Publish(Msg(TripEventDriverNotInterested, work[g].msg.trip, None))
  /\ Goto(g, "ack")
  /\ UNCHANGED <<trips, creation, registered, dlq, pages, stripe, accepters, faults>>

\* paymentConsumer: the trip is payed for, its driver stays.
Settle(g) ==
  /\ At(g, "settle")
  /\ UpdateTrip(g, work[g].msg.trip, "payed", None, "ack")
  /\ UNCHANGED <<creation, registered, queue, dlq, pages, stripe, accepters, faults>>

-----------------------------------------------------------------------------
(* payment-service: the handler of payment_trip_response *)

\* CreatePaymentSession, without an idempotency key.
OpenSession(g) ==
  LET m == work[g].msg IN
  /\ At(g, "open session")
  /\ sessions' = [sessions EXCEPT ![m.trip][m.driver] = @ + 1]
  /\ Goto(g, "notify")
  /\ UNCHANGED <<trips, creation, registered, queue, dlq, pages, payment, webhookKey,
                 accepters, faults>>

\* BUG variant: the session is opened and nobody is told.
Notify_Forgotten(g) ==
  /\ At(g, "notify")
  /\ Goto(g, "ack")
  /\ UNCHANGED <<trips, creation, registered, queue, dlq, pages, stripe, accepters, faults>>

Notify(g) ==
  /\ At(g, "notify")
  /\ Publish(Msg(PaymentEventSessionCreated, work[g].msg.trip, None))
  /\ Goto(g, "ack")
  /\ UNCHANGED <<trips, creation, registered, dlq, pages, stripe, accepters, faults>>

-----------------------------------------------------------------------------
(* api-gateway: websockets, and the auto-acked queues behind them *)

\* handleDriversWebSocket: the connection is added to the manager ...
Connect(d) ==
  /\ socket[d] = "new"
  /\ socket' = [socket EXCEPT ![d] = "open"]
  /\ UNCHANGED <<trips, creation, registered, queue, dlq, work, offer, rider, shown,
                 stripe, accepters, faults>>

\* ... and the driver registered once the first location has arrived.
Register(d) ==
  /\ socket[d] = "open"
  /\ socket' = [socket EXCEPT ![d] = "serving"]
  /\ registered' = registered \cup {d}
  /\ UNCHANGED <<trips, creation, queue, dlq, work, offer, rider, shown, stripe,
                 accepters, faults>>

\* The page is closed; the handler's deferred cleanup removes the connection ...
Disconnect(d) ==
  /\ d \in MayClose
  /\ socket[d] \in {"open", "serving"}
  /\ socket' = [socket EXCEPT ![d] = "closed"]
  /\ offer' = [offer EXCEPT ![d] = None]
  /\ UNCHANGED <<trips, creation, registered, queue, dlq, work, rider, shown, stripe,
                 accepters, faults>>

\* ... and then unregisters the driver, ...
Unregister(d) ==
  /\ socket[d] = "closed"
  /\ socket' = [socket EXCEPT ![d] = "gone"]
  /\ registered' = registered \ {d}
  /\ UNCHANGED <<trips, creation, queue, dlq, work, offer, rider, shown, stripe,
                 accepters, faults>>

\* ... unless the call fails, which is logged: the driver stays registered.
UnregisterFails(d) ==
  /\ socket[d] = "closed"
  /\ Faulty("unregister")
  /\ socket' = [socket EXCEPT ![d] = "gone"]
  /\ UNCHANGED <<trips, creation, registered, queue, dlq, work, offer, rider, shown,
                 stripe, accepters>>

\* QueueConsumer on driver_cmd_trip_request.  The driver's page shows the last
\* request it received; the request is lost if the driver is not connected.
DeliverRequest(m) ==
  /\ m.key = DriverCmdTripRequest
  /\ queue[m] > 0
  /\ queue' = [queue EXCEPT ![m] = @ - 1]
  /\ offer' = IF socket[m.driver] \in {"open", "serving"}
              THEN [offer EXCEPT ![m.driver] = m.trip] ELSE offer
  /\ UNCHANGED <<trips, creation, registered, dlq, work, socket, rider, shown, stripe,
                 accepters, faults>>

\* QueueConsumer on the three rider queues.
DeliverToRider(m) ==
  /\ m.key \in RiderKeys
  /\ queue[m] > 0
  /\ queue' = [queue EXCEPT ![m] = @ - 1]
  /\ shown' = IF rider[m.trip] = "here"
              THEN [shown EXCEPT ![m.trip] = @ \cup {m}] ELSE shown
  /\ UNCHANGED <<trips, creation, registered, dlq, work, socket, offer, rider, stripe,
                 accepters, faults>>

\* The driver answers the request on the page; the gateway publishes the answer.
Answer(d, key) ==
  /\ offer[d] # None
  /\ Publish(Msg(key, offer[d], d))
  /\ offer' = [offer EXCEPT ![d] = None]
  /\ UNCHANGED <<trips, creation, registered, dlq, work, socket, rider, shown, stripe, faults>>

Accept(d) ==
  /\ Answer(d, DriverCmdTripAccept)
  /\ accepters' = [accepters EXCEPT ![offer[d]] = @ \cup {d}]

Decline(d) ==
  /\ Answer(d, DriverCmdTripDecline)
  /\ UNCHANGED accepters

\* The publication fails, which is logged: the page has moved on all the same.
AnswerLost(d) ==
  /\ offer[d] # None
  /\ Faulty("answer")
  /\ offer' = [offer EXCEPT ![d] = None]
  /\ UNCHANGED <<trips, creation, registered, queue, dlq, work, socket, rider, shown,
                 stripe, accepters>>

-----------------------------------------------------------------------------
(* The rider and Stripe *)

RiderLeaves(t) ==
  /\ t \in MayClose
  /\ rider[t] = "here"
  /\ rider' = [rider EXCEPT ![t] = "gone"]
  /\ UNCHANGED <<trips, creation, registered, queue, dlq, work, socket, offer, shown,
                 stripe, accepters, faults>>

\* The payment button leads to Stripe, away from the page and its websocket.
RiderPays(t) ==
  /\ rider[t] = "here"
  /\ Msg(PaymentEventSessionCreated, t, None) \in shown[t]
  /\ payment[t] = "none"
  /\ payment' = [payment EXCEPT ![t] = "paid"]
  /\ rider' = [rider EXCEPT ![t] = "gone"]
  /\ UNCHANGED <<trips, creation, registered, queue, dlq, work, socket, offer, shown,
                 sessions, webhookKey, accepters, faults>>

\* BUG variant: the type of the event is not looked at, so that the expiry of a
\* session is taken for its payment.
Webhook_AnyEvent(t) ==
  /\ \E d \in Drivers : sessions[t][d] > 0
  /\ Publish(Msg(PaymentEventSuccess, t, None))
  /\ UNCHANGED <<trips, creation, registered, dlq, work, pages, stripe, accepters, faults>>

\* BUG variant: an error of the publication is only logged, as those of the other
\* handlers are, and the call is answered with 200.
Webhook_ErrorIgnored(t) ==
  /\ payment[t] = "paid"
  /\ payment' = [payment EXCEPT ![t] = "reported"]
  /\ \/ /\ webhookKey
        /\ Publish(Msg(PaymentEventSuccess, t, None))
        /\ UNCHANGED faults
     \/ Faulty("webhook") /\ UNCHANGED queue
  /\ UNCHANGED <<trips, creation, registered, dlq, work, pages, sessions, webhookKey, accepters>>

\* handleStripeWebhook.  When its publication fails it answers 500 and Stripe
\* calls again, which is a later occurrence of this step.  Without a key it
\* returns before it has looked at the event: that is a 200 too, Stripe does not
\* call again, and the payment is published nowhere.
Webhook(t) ==
  /\ payment[t] = "paid"
  /\ payment' = [payment EXCEPT ![t] = "reported"]
  /\ \/ webhookKey /\ Publish(Msg(PaymentEventSuccess, t, None))
     \/ ~webhookKey /\ UNCHANGED queue
  /\ UNCHANGED <<trips, creation, registered, dlq, work, pages, sessions, webhookKey,
                 accepters, faults>>

\* Stripe delivers a webhook at least once.
WebhookRepeated(t) ==
  /\ payment[t] = "reported"
  /\ webhookKey
  /\ Faulty("webhook")
  /\ Publish(Msg(PaymentEventSuccess, t, None))
  /\ UNCHANGED <<trips, creation, registered, dlq, work, pages, stripe, accepters>>

-----------------------------------------------------------------------------
(* Crashes *)

\* BUG variant: the queues are consumed with auto-ack, and the broker has nothing to
\* hand out again.
Crash_Forgets(s) ==
  LET held == {g \in Goroutines : work[g] # Idle /\ ServiceOf(work[g].msg.key) = s} IN
  /\ s \in Crashable \cap Services
  /\ faults < MaxFaults
  /\ faults' = faults + 1
  /\ work' = [g \in Goroutines |-> IF g \in held THEN Idle ELSE work[g]]
  /\ creation' = [t \in Trips |->
                    IF s = "trip-service" /\ creation[t] = "inserted"
                    THEN "orphaned" ELSE creation[t]]
  /\ registered' = IF s = "driver-service" THEN {} ELSE registered
  /\ UNCHANGED <<trips, queue, dlq, pages, stripe, accepters>>

\* A service process ends and is restarted: the broker requeues what it was
\* working on, an unfinished CreateTrip is lost to its caller, and the drivers
\* registered in driver-service's memory are forgotten.
Crash(s) ==
  LET held == {g \in Goroutines : work[g] # Idle /\ ServiceOf(work[g].msg.key) = s} IN
  /\ s \in Crashable \cap Services
  /\ faults < MaxFaults
  /\ faults' = faults + 1
  /\ queue' = [m \in Message |->
                 queue[m] + Cardinality({g \in held : work[g].msg = m})]
  /\ work' = [g \in Goroutines |-> IF g \in held THEN Idle ELSE work[g]]
  /\ creation' = [t \in Trips |->
                    IF s = "trip-service" /\ creation[t] = "inserted"
                    THEN "orphaned" ELSE creation[t]]
  /\ registered' = IF s = "driver-service" THEN {} ELSE registered
  /\ UNCHANGED <<trips, dlq, pages, stripe, accepters>>

\* The gateway ends: every websocket closes and no cleanup runs, so the drivers
\* stay registered.
CrashGateway ==
  /\ "api-gateway" \in Crashable
  /\ faults < MaxFaults
  /\ faults' = faults + 1
  /\ socket' = [d \in Drivers |-> IF socket[d] = "new" THEN "new" ELSE "gone"]
  /\ offer' = [d \in Drivers |-> None]
  /\ rider' = [t \in Trips |-> IF creation[t] = "none" THEN rider[t] ELSE "gone"]
  /\ UNCHANGED <<trips, creation, registered, queue, dlq, work, shown, stripe, accepters>>

-----------------------------------------------------------------------------
(* Specification *)

Handle(g) ==
  \/ Match(g) \/ Assign(g) \/ Reread(g) \/ Announce(g) \/ Charge(g) \/ Reoffer(g) \/ Settle(g)
  \/ OpenSession(g) \/ Notify(g)

Goroutine(g) ==
  \/ \E m \in Message : Take(g, m)
  \/ Handle(g)
  \/ StepFails(g)
  \/ Ack(g)
  \/ Reject(g)

Creation(t) == InsertTrip(t) \/ PublishTripCreated(t) \/ PublishTripCreatedFails(t)

Gateway(m) == DeliverRequest(m) \/ DeliverToRider(m)

Driver(d) ==
  \/ Connect(d) \/ Register(d) \/ Disconnect(d) \/ Unregister(d) \/ UnregisterFails(d)
  \/ Accept(d) \/ Decline(d) \/ AnswerLost(d)

Rider(t) == RiderLeaves(t) \/ RiderPays(t) \/ Webhook(t) \/ WebhookRepeated(t)

Next ==
  \/ \E t \in Trips : Creation(t) \/ Rider(t)
  \/ \E d \in Drivers : Driver(d)
  \/ \E g \in Goroutines : Goroutine(g)
  \/ \E m \in Message : Gateway(m) \/ PublicationLost(m)
  \/ \E s \in Services : Crash(s)
  \/ CrashGateway

Spec == Init /\ [][Next]_vars

\* The services and the gateway go on with what they can do, and no message
\* waits forever while others are taken: the queues are served in order.
\* Nothing is assumed of the people: drivers need not answer, riders need not
\* pay.
Fairness ==
  /\ \A t \in Trips : WF_vars(PublishTripCreated(t) \/ PublishTripCreatedFails(t))
  /\ \A g \in Goroutines :
       /\ WF_vars(Handle(g) \/ StepFails(g))
       /\ WF_vars(Ack(g))
       /\ WF_vars(Reject(g))
  /\ \A m \in Message :
       /\ SF_vars(\E g \in Goroutines : Take(g, m))
       /\ WF_vars(Gateway(m))

FairSpec == Spec /\ Fairness

-----------------------------------------------------------------------------
(* Properties *)

\* Every variable stays in its domain.
TypeOK ==
  /\ trips \in [Trips -> [status : {"none", "Pending", "accepted", "payed"},
                         driver : Drivers \cup {None}]]
  /\ creation \in [Trips -> {"none", "inserted", "announced", "orphaned"}]
  /\ registered \in SUBSET Drivers
  /\ queue \in [Message -> Nat]
  /\ dlq \in SUBSET Message
  /\ work \in [Goroutines -> Work \cup {Idle}]
  /\ socket \in [Drivers -> {"new", "open", "serving", "closed", "gone"}]
  /\ offer \in [Drivers -> Trips \cup {None}]
  /\ rider \in [Trips -> {"here", "gone"}]
  /\ shown \in [Trips -> SUBSET Message]
  /\ sessions \in [Trips -> [Drivers -> Nat]]
  /\ payment \in [Trips -> {"none", "paid", "reported"}]
  /\ webhookKey \in BOOLEAN
  /\ accepters \in [Trips -> SUBSET Drivers]
  /\ faults \in 0 .. MaxFaults

Sessions(t) == {d \in Drivers : sessions[t][d] > 0}

\* No driver is assigned to a trip, announced to its rider or named in its
\* Stripe session without having accepted that trip on the page, through every
\* retry, redelivery and interleaving of the answers of several drivers.
OnlyAcceptersAreAssigned == \A t \in Trips :
  /\ trips[t].driver \in accepters[t] \cup {None}
  /\ Sessions(t) \subseteq accepters[t]
  /\ \A m \in shown[t] :
       m.key = TripEventDriverAssigned => m.driver \in accepters[t]

\* Only drivers of the trip's package are ever in a position to accept it.
PackageRespected == \A t \in Trips :
  \A d \in accepters[t] : DriverPackage[d] = TripPackage[t]

\* A trip is stored as payed only after its rider has paid a session that was
\* opened for it and announced to the rider, and it then has a driver.
PayedIsPaidFor == \A t \in Trips :
  /\ trips[t].status = "payed" => payment[t] = "reported" /\ trips[t].driver # None
  /\ payment[t] # "none" => Sessions(t) # {}
  /\ Sessions(t) # {} => trips[t].status \in {"accepted", "payed"}

\* As long as nothing has failed, each trip has one driver accept it and one
\* Stripe session, and no message is dead-lettered, however the drivers come,
\* decline, are asked again and go, and whatever other trips are matched.
ExactlyOnceUnlessFaults == faults = 0 =>
  /\ dlq = {}
  /\ \A t \in Trips :
       /\ Cardinality(accepters[t]) <= 1
       /\ Cardinality(Sessions(t)) <= 1 /\ \A d \in Drivers : sessions[t][d] <= 1

\* The sessions of one driver are told apart by their numbers.
SessionsOpened(t) == Cardinality(UNION {{d} \X (1 .. sessions[t][d]) : d \in Drivers})

\* What a fault can add is bounded by what it interrupts: after f faults no more
\* than 1 + f * (messages being worked on) drivers have accepted a trip, and no
\* more Stripe sessions than that are open for it.
FaultsAddWhatTheyInterrupt ==
  LET most == 1 + faults * Cardinality(Goroutines) IN
  \A t \in Trips : Cardinality(accepters[t]) <= most /\ SessionsOpened(t) <= most

\* Where a message is that was published and is not done with: waiting, worked on,
\* or dead-lettered.
Kept(m) ==
  \/ queue[m] > 0
  \/ \E g \in Goroutines : work[g] # Idle /\ work[g].msg = m /\ ~At(g, "ack")
  \/ m \in dlq

\* The acceptance of t by d has led to a Stripe session, or something is left that
\* still could.
CarriesOn(t, d) ==
  \/ sessions[t][d] > 0
  \/ Kept(Msg(DriverCmdTripAccept, t, d)) \/ Kept(Msg(PaymentCmdCreateSession, t, d))

\* Nothing is left that would lead from the acceptance of t by d to a session.
Lost(t, d) == d \in accepters[t] /\ ~CarriesOn(t, d)

\* Through all retries, crashes, races with other drivers and errors of UpdateTrip an
\* acceptance is carried on until there is a session for it, or is in the dead
\* letter queue: it gets lost in no step but one in which the publication of this very
\* acceptance, or of the request for its session, turns out to have never arrived.
AcceptancesAreKept == [][\A t \in Trips, d \in Drivers :
  Lost(t, d)' => \/ Lost(t, d)
                 \/ PublicationLost(Msg(DriverCmdTripAccept, t, d))
                 \/ PublicationLost(Msg(PaymentCmdCreateSession, t, d))]_vars

\* Where the gateway has a webhook key, and as long as nothing has failed, a payment
\* Stripe has reported is stored, for good, or its event waits or is worked on,
\* whatever else happens to the trip.
PaymentsAreKept == webhookKey /\ faults = 0 => \A t \in Trips :
  payment[t] = "reported" =>
    trips[t].status = "payed" \/ Kept(Msg(PaymentEventSuccess, t, None))

\* The search for a driver of t goes on: an event that asks for it or a decline is
\* kept, or a driver is asked.
Sought(t) ==
  \/ Kept(Msg(TripEventCreated, t, None)) \/ Kept(Msg(TripEventDriverNotInterested, t, None))
  \/ \E d \in Drivers :
       \/ Kept(Msg(DriverCmdTripDecline, t, d))
       \/ queue[Msg(DriverCmdTripRequest, t, d)] > 0 \/ offer[d] = t

\* The page of d loses a request for t: it goes or has gone, or shows another trip.
PageLoses(d, t) ==
  \/ offer[d] = t /\ (offer'[d] \in Trips \ {t} \/ socket'[d] \in {"closed", "gone"})
  \/ DeliverRequest(Msg(DriverCmdTripRequest, t, d)) /\ socket[d] \in {"closed", "gone"}

\* A driver accepts, or it is published that there is none; or a page loses the
\* request, or a publication never arrives.
SearchEnds(t) ==
  \/ \E d \in Drivers :
       \/ Kept(Msg(DriverCmdTripAccept, t, d))'
       \/ PageLoses(d, t) \/ (offer[d] = t /\ AnswerLost(d))
  \/ queue'[Msg(TripEventNoDriversFound, t, None)] > 0
  \/ \E m \in Message : m.trip = t /\ PublicationLost(m)

\* Through all retries, crashes and rejections, and in whatever order other trips are
\* matched and answered, the search for a driver of a trip ends only with a driver who
\* has accepted or with the news that there is none, unless a page loses the request or
\* a publication never arrives.
SearchGoesOn == [][\A t \in Trips : Sought(t) => Sought(t)' \/ SearchEnds(t)]_vars

Lifecycle == INSTANCE TripLifecycle

\* As long as nothing fails, the stored trips go through the life of
\* TripLifecycle: one driver of the right package takes the trip for good, then it is
\* paid for.
LivesLikeATrip == Lifecycle!Spec

Ledger == INSTANCE TripLedger

\* Whatever fails, what MongoDB, the drivers and Stripe hold of a trip goes through
\* the steps of TripLedger: each record rests on the record before it.
KeepsTheLedger == Ledger!Spec

\* A trip whose creation was announced is brought before a driver who has the
\* page open, or its rider is told that there is none (if still there), or it
\* is already taken.
Pursued(t) ==
  \/ \E d \in Drivers : offer[d] = t
  \/ trips[t].status \in {"accepted", "payed"}
  \/ Msg(TripEventNoDriversFound, t, None) \in shown[t]
  \/ rider[t] = "gone"
  \/ \E d \in Drivers : socket[d] \in {"closed", "gone"}

\* An announced trip does not get lost in the queues: it is brought before a
\* driver or its rider is told that there is none, unless a page was closed.
AnnouncedIsPursued ==
  \A t \in Trips : (creation[t] = "announced") ~> Pursued(t)

\* A rider who stays learns the driver and gets a session to pay once the trip
\* has been accepted.
AcceptedReachesRider == \A t \in Trips :
  (trips[t].status = "accepted") ~>
    \/ rider[t] = "gone"
    \/ /\ Msg(PaymentEventSessionCreated, t, None) \in shown[t]
       /\ \E d \in Drivers : Msg(TripEventDriverAssigned, t, d) \in shown[t]

\* Where the gateway has a webhook key, a payment that Stripe has reported is recorded
\* on its trip, through failing attempts to store it, repeated calls of the webhook and
\* whatever fails in payment-service and driver-service.
PaidIsRecorded == \A t \in Trips :
  (webhookKey /\ payment[t] = "reported") ~> (trips[t].status = "payed")

-----------------------------------------------------------------------------
(* What the documentation says, and the code does not do *)

\* README.md:32 "makes each step independently retryable": a message is
\* dead-lettered only if every one of its attempts met a failure.
StepsAreRetryable == dlq # {} => faults > MaxRetries

\* README.md:238 "Broadcast final driver assignment to gateway".
AssignmentIsFinal == \A t \in Trips : \A m \in shown[t] :
  m.key = TripEventDriverAssigned => m.driver = trips[t].driver

=============================================================================

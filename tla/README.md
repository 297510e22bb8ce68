# RideSync in TLA+

TLA+ models of RideSync, a ride-sharing platform of Go microservices that talk
over RabbitMQ, gRPC, websockets and Stripe webhooks: what the services promise,
what they do about retries, crashes, reconnections and competing drivers, the
TLC runs that check it on small instances, and theorems checked by TLAPS.

Paths below are relative to the repository root. A definition keeps the name of
the code it stands for where it has one; `PROJECT.json` maps every definition to
its lines.

## 1. Inventory

| Component | Where | State | Operations |
| --- | --- | --- | --- |
| AMQP client | `shared/messaging/rabbitmq.go`, `shared/retry` | connection and channel; at the broker, queues, unsettled deliveries, dead letter queue | declare topology, `PublishMessage`, `ConsumeMessages` (goroutine per message, `WithBackoff`, Ack or Reject) |
| trip-service | `services/trip-service` | MongoDB `trips` (status, driver, fare) and `ride_fares` | gRPC `PreviewTrip`, `CreateTrip`; consumers of driver answers and of payments |
| driver-service | `services/driver-service` | `Service.drivers`, a slice in memory | gRPC `RegisterDriver`, `UnregisterDriver`; consumer of created and declined trips |
| payment-service | `services/payment-service` | none of its own; Stripe's checkout sessions | consumer of `payment.cmd.create_session` |
| api-gateway | `services/api-gateway`, `shared/messaging/{connection_manager,queue_consumer}.go` | `ConnectionManager.connections` | HTTP preview, start, webhook; websockets of riders and drivers; queue consumers |
| home page | `web/src/app/page.tsx` | user type, package of a driver, the outcome in the address | choose to ride or to drive, select a package, Back, return from Stripe |
| rider page | `web/src` (`RiderMap`, `useRiderStreamConnection`) | React state: one trip, one trip status, the session; a timer and calls in flight | preview, start, cancel, pay |
| driver page | `web/src` (`DriverMap`, `useDriverStreamConnection`) | React state: location, the offer, one status; two refs | send the location, accept, decline |
| infrastructure | `infra`, `shared/{db,tracing,env}` | | restarts by Kubernetes, tracing, configuration |

How they interact: the gateway calls trip-service and driver-service over gRPC.
Everything else goes through the topic exchange `trip`. Each routing key is bound
to one queue. Queues of the services are acknowledged after the handler, queues
of the gateway are auto-acked.

    rider -> gateway -> CreateTrip -> MongoDB, then trip.event.created
    driver-service: find drivers -> driver.cmd.trip_request | trip.event.no_drivers_found
    driver page -> gateway -> driver.cmd.trip_accept | driver.cmd.trip_decline
    trip-service: accept -> MongoDB, trip.event.driver_assigned, payment.cmd.create_session
                  decline -> trip.event.driver_not_interested -> driver-service
    payment-service: Stripe session -> payment.event.session_created
    Stripe -> webhook -> payment.event.success -> trip-service: payed

What is hard here, and what makes each component right:

* **AMQP client.** At-least-once delivery with a goroutine per message, retries
  inside the goroutine, replicas that crash or live on with a dead channel.
  Right: a message is never lost nor settled twice; acknowledged only after
  success, dead-lettered only after all attempts; side effects repeat by a
  bounded factor; settled in the end.
* **Trip flow.** Handlers of several external calls that can fail or be cut off
  after each; two drivers answering; repeated webhooks; retries that meet the
  effects of the first attempt. Right: only a driver who accepted is assigned,
  announced or charged for; a payed trip was paid; without failures everything
  happens exactly once; with failures, repetition is bounded; nothing announced
  is forgotten; a payment the gateway can verify is recorded.
* **Gateway sockets.** Handlers of overlapping sockets of one user share an entry
  keyed by user id; look-up and write are separate steps; consumers outlive
  their socket; an instance that ends runs no deferred cleanup, and a
  driver-service that restarts knows nobody. Right: no entry without a handler, a
  served user is found, registrations end with the last handler.
* **Booking and the rider's page.** Previews and starts that overlap, a debounce
  timer whose guards are old when it fires, a page with one status for all trips
  and events in any order, fares stored one by one, a trip-service that ends in
  the middle, a Back button that unmounts the page while callbacks are pending.
  Right: one trip per cancellation, a booked trip is stored and announced, the
  fares shown exist, the route shown is the one booked, the matching screen ends,
  and seen as a whole the rider books one trip at a time (`RiderDeal`).
* **Driver's page.** A registration and requests that race on one socket, a
  request that replaces another, answers that are dropped, locations that go out
  on two ways (onopen through refs, and an effect), a driver who goes back in the
  middle of the handshake. Right: no more answers than requests, a request can be
  answered, the gateway has the location the page shows, the page comes online,
  an accepted trip is published, a driver who has gone is unregistered for good.

## 2. Modules

| Module | Models | Proofs |
| --- | --- | --- |
| `Settlement` | what a queue promises: settled at most once and for cause | |
| `Delivery` | one queue, its replicas, `ConsumeMessages`, `WithBackoff`, faults; implements `Settlement` | `DeliveryProofs` |
| `TripLifecycle` | what a trip is to its rider: requested, taken by a driver of its package, paid | |
| `TripLedger` | what is on record of a trip in MongoDB, with the drivers and at Stripe, and what each record rests on | |
| `TripFlow` | a trip through all services; implements `TripLedger` always, `TripLifecycle` while nothing fails | `TripFlowProofs`, `TripFlowCalmProofs`, `TripFlowFaultsProofs`, `TripFlowKeptProofs` |
| `GatewaySockets` | websockets, connection manager, consumers, registration, the end of a gateway and of driver-service | `GatewaySocketsProofs` |
| `Booking` | `/trip/preview` and `/trip/start` through the gateway and trip-service | with `RiderPage` |
| `Home` | the choice to ride or to drive, the Back button, the return from Stripe | with the pages |
| `RiderDeal` | what the rider's page promises: one booking at a time | |
| `RiderPage` | extends `Booking` and `Home` with the page of the rider; implements `RiderDeal` | `RiderPageProofs` |
| `DriverPage` | extends `Home` with a driver's page and the gateway's handler of its websocket | `DriverPageProofs` |
| `MC*` | the constants of the runs | |

**Delivery.** The broker is `unsent`, `ready`, `unacked[r]`, `acked`, `dlq`. A
replica is `channel[r]` (open, closed, down) and `task[r][m]`, the goroutine of
`ConsumeMessages` that works on `m`, with its stage in `WithBackoff` and the
attempts that have failed. `Deliver` is the broker's push and the start of the
goroutine, `HandlerSucceeds` and `HandlerFails` the return of one attempt,
`BackoffElapsed` the wait, `Ack` and `Reject` the end. `CloseChannel` is a
connection that breaks under a living process: the tasks run on and cannot
settle; nothing in the code reconnects. `Crash` ends the tasks and `Restart` is
Kubernetes. The order of the queue is left out, because the goroutine per message
gives it up. What the handlers do is left to `TripFlow`.

**TripFlow.** MongoDB's trips are `trips[t]`; the queues are a bag `queue[m]`;
`work[g]` is a goroutine with a delivery at one step of its handler. There is one
step for each external call, and `StepFails` is the failure of any of them:
`HandlerError` starts the handler again or rejects the message. A call that took
effect and still returned an error is seen through `Crash`, which cuts a handler
off after the effect and has the message delivered again. `UpdateTrip` keeps the
code's test of `ModifiedCount`. `Crash(s)` requeues what the service was working
on, drops an unfinished `CreateTrip`, and empties the registrations of
driver-service. `PublicationLost` is a publication that never reached the broker:
the code asks for no confirmation. The gateway is reduced to whether a socket is
open, to the offer and the events that pages have got, and to `webhookKey`, whether
it is configured with `STRIPE_WEBHOOK_KEY`: either is possible, and without it
`Webhook` answers Stripe with a 200 and publishes nothing (http.go:105-109).
`accepters` is history.

**TripLedger, TripLifecycle.** Two abstractions of `TripFlow`, over the same
variables. The ledger is what the services keep right without sharing any state,
whatever fails: only a driver who has accepted is stored, only for such a driver is
a session opened, only an open session is paid, only a payment that Stripe has
reported, and that the gateway has answered, makes a trip payed. It does not say how
often, because the code does not see to that: an acceptance may be stored over
another, or over a payment. The lifecycle says just that, each thing once and in
order, and holds until something fails.

**GatewaySockets.** One action per statement of the websocket handlers that
changes shared state: `Open` (Upgrade, Add), `MakeClient`, `Register`, `Greet`,
`StartConsumers`, `ReadFails`, `Remove`, `Unregister`, with their failures; that
of `StartConsumers` is only logged, and the socket is served without consumers.
`Take` is the consumer's look-up under the read lock, `Write` the write after it.
`GatewayEnds` closes the websockets of an instance, empties its manager and stops
its consumers, without the deferred cleanups; `DriverServiceEnds` empties the
registrations, which only memory holds. The histories record the situations in
which the code cannot keep its books right, so that the properties say what holds
outside them: `overlapped` (two handlers of one user at a time), `leaked` (a
handler that returned before it deferred its cleanup), `lingering` (a registration
nobody has undone) and `forgotten` (a registration lost in a restart). Sockets are
numbered in the order they open.

**Booking.** A call is a number; `preview[p]` and `start[s]` say how far
trip-service has come with it and whether the page has the answer. The loop of
`GenerateTripFares` is `SaveRideFare`, one insert at a time; `CreateTrip` is
`InsertTrip`, `PublishTripCreated`, `AnswerStart`. A failure or the end of
trip-service leaves what was stored and announced. `NoRoute` is the panic of
`estimateFareRoute` on an answer of OSRM without a route. README.md:228 says that
a preview writes nothing; `GenerateTripFares` stores every fare, as here.

**Home.** `HomeContent` has three variables, and `Shown` is what it renders. The
module has no specification of its own: the pages extend it, and each of its
actions is taken together with what it does to the map (`ChooseRider` in `Mount`,
`GoBack` in `Back`, `StripeReturns` in `Return`). One mount of a map is followed;
another has a new user id and nothing in common with it but what trip-service has
stored.

**RiderPage.** The state of `RiderMap` and of `useRiderStreamConnection`, with one
action per callback: a click, the timer, an answer, an event. `Screen` is what
`RiderTripOverview` returns, and decides which buttons there are. The events
come from `Emit`, which stands for all of `TripFlow`: no driver, or a driver and
then a session; `wire` keeps no order among them, because each type has a queue
and consumers of its own. The page cannot tell the trips of events apart. The
fares of one preview are not told apart, nor are the clicks that restart the
timer. `Back` unmounts the component but stops neither the timer nor the calls,
whose callbacks then set the state of nothing; `Pay` leaves the document, and with
it they stop.

**RiderDeal.** A deal is free, waiting, told or gone. `RiderPage` maps its screen
state to it (`DealState`), the bookings that have not failed to `trips`, and the
cancellations to `chances`: a new booking needs a free deal and no more trips than
chances. Whatever old answer, event or failure comes late must be a step of the
deal.

**DriverPage.** `up` and `down` are the two directions of the websocket, `handler`
the place of `handleDriversWebSocket`, `queue` the requests for this driver.
`Deliver` writes to the socket as soon as the connection has its entry, hence
before `Greet` if the matching is fast. `SendAnswer` is `sendMessage`, which drops
what it cannot send. Both pages open one socket and never another, as
`useBaseWebSocket` does. `ref` is what the callbacks in the refs know: an effect
brings it up to date after a render (`Effects`), so the websocket may open before
(`SocketOpens`, onopen) or after that, and either way a location must be sent. A
location is the number of the position change. `Back` closes the socket in
whatever state it is; `Accept` may then still come, for a socket that is closed
already.

Operators named `X_SomeBug` are variants of `X` with a plausible bug; no
specification uses them, and each is what some property is there to catch.

## 3. Runs

| Run | Module, cfg | Instance | Shows |
| --- | --- | --- | --- |
| `delivery` | `MCDelivery` | 2 messages, 2 replicas, window 2, 1 retry, 2 faults; 400 k states | conservation, tasks match deliveries, bounds on redeliveries and calls, refinement of `Settlement`, settlement in the end |
| `trip_flow` | `MCTripFlow` | 1 trip, 2 drivers, 2 goroutines, 1 retry, 1 fault of any kind, with and without a webhook key; 875 k states up to symmetry | assigned, announced and charged drivers have accepted; faults add no more than they interrupt; no step loses an acceptance but the loss of a publication of its own; the search for a driver goes on; refinement of `TripLedger` |
| `trip_flow_calm` | `MCTripFlowCalm` | 2 trips, 2 suitable drivers and 1 other, 2 goroutines, no fault, with and without a webhook key; 212 k states up to symmetry | exactly once, reported payments stored or under way where the gateway has its key, refinement of `TripLifecycle` |
| `trip_flow_live` | `MCTripFlowLive` | 1 trip, 1 driver, 1 fault (a crash, or one of the steps named in the cfg), pages may close, with and without a webhook key; 8.6 k states | pursued, reaches the rider, payment recorded where the gateway has its key |
| `gateway` | `MCGateway` | 1 instance, 3 sockets, 1 rider, 1 driver, 1 message, RPCs and the start of consumers may fail, gateway and driver-service may end; 400 k states | entries and registrations have handlers, served users are found and reached, forgotten in the end |
| `rider_page` | `MCRiderPage` | 2 previews, 2 starts, 2 packages, 1 fault, 1 cancellation; 550 k states | booked trips exist, fares exist, the booked route is shown, the next event ends the wait, the wait ends, refinement of `RiderDeal` (one trip at a time, one more per cancellation) |
| `driver_page` | `MCDriverPage` | 1 package, 2 trips, each asked for twice, 1 move, 2 faults; 210 k states | answers match requests, requests can be answered, answers are under way, the newest location is sent, the page comes online, an accepted trip is published, a driver who has gone is unregistered |
| `delivery_attempts` | `MCDeliveryAttempts` | the code's own numbers | violated: a fourth attempt |
| `trip_flow_retryable` | `MCTripFlowRetryable` | 3 retries, 1 failing publication | violated: one failure dead-letters an acceptance |
| `trip_flow_final` | `MCTripFlowFinal` | 2 drivers, 1 crash of driver-service | violated: an announced driver is replaced |
| `rider_page_id` | `MCRiderPageId` | as `rider_page`, no fault | violated: the ID of a booked trip is undefined |
| `rider_page_payment` | `MCRiderPagePayment` | as `rider_page`, no fault | violated: the page waits for a session it has |

Why the bounds are enough. Two messages and two replicas give every interplay of
a delivery with another delivery of the same message and with one of another
message; nothing in `Delivery` relates three of either. A window of two is never
full with two messages: that a full window only withholds deliveries is left to
the theorems, which hold for any window. One retry has the
first, the last and no middle attempt; the attempts between differ in a counter
only. Two faults are needed for a message to be worked on in two places and then
lost to a third, and one more only repeats that. In `TripFlow` one trip with two
drivers has the race of two acceptances; trips meet only where they share a
driver's page, which `trip_flow_calm` has. `AcceptancesAreKept` and `SearchGoesOn`
are action properties, so that with all faults in one run each step still answers
for what it loses. Two things lie beyond these bounds and rest on theorems that hold
for any: with two drivers, `FaultsAreBounded` is tight before the fault only (after
one, three drivers and sessions are allowed and there are two drivers;
`TripFlowFaultsProofs`), and with one trip no request displaces that of another,
which is one of the ends of `SearchGoesOn` (`SearchesArePursued`). Three sockets are the two that overlap
and one of the other user, or one more reconnection; gateways and driver-service
may end at any time, as often as they have something to lose. In `RiderPage` two previews
and two starts are one that is old and one that is new, and one cancellation is
what lies between them; with two packages a preview can be partly stored.
`DriverPage` has a request that replaces another, and a second request for a trip
that was answered or replaced; one move is enough to have a location that is newer
than what a ref or a message knows, and the package selected makes no difference
to anything the module does.

Three simple invariants are not checked by a run of their own, because a refinement
that is checked implies them, which is proved: `PayedIsPaidFor` and
`PackageRespected` follow from `KeepsTheLedger` (`LedgerSuffices`),
`OneTripPerCancellation` from `BooksOneAtATime` (`DealSuffices`).

Symmetry is used in the two large safety runs of `TripFlow`, over drivers,
goroutines and trips that no constant tells apart.

CHECK_DEADLOCK is off throughout: every instance is finite, and a state in which
all trips are done, or all faults are spent, has no successor.

### What the violated runs mean

* `UpToThreeAttempts`: the loop of `WithBackoff` counts from 0 to `MaxRetries`.
* `StepsAreRetryable`: `UpdateTrip` returns an error if nothing was modified, so
  `handleTripAccepted` cannot be retried once its update is done. The trip is
  stored as accepted while neither rider nor payment-service hears of it.
* `AssignmentIsFinal`: an acceptance is stored whatever the status of the trip.
* `TripIDIsString`: the gateway answers a start with `encoding/json`, which calls
  the field `trip_id`; the page reads `tripID`. The guard of `handleMapClick` on
  the ID of the trip therefore never holds.
* `WaitsOnlyForSession`: the page keeps the type of the last event. A
  `driver_assigned` that comes after `session_created` hides the payment button
  for good.

Six more differences were met and need no run. A driver who drives a trip is asked
for the next: `FindAvailableDrivers` knows packages only, and nothing has the busy
status of README.md:255. The failure context that
`ConsumeMessages` adds before a Reject (rabbitmq.go:94-104) stays in its own copy
of the delivery. A driver who has declined a trip may be asked again before others
are (trip_consumer.go:71). `DriverMap` sends its driver back with camelCase names,
of which the Go type knows only those without an underscore: plate and picture do
not reach trip-service. With two gateway instances a consumer of one may take the
message of a user who is connected to the other, as connection_manager.go:36
says; the run `gateway` has one. A gateway without `STRIPE_WEBHOOK_KEY` logs that and
returns, which answers Stripe with a 200 (http.go:105-109): the payment is neither
published nor reported again, and its trip is never payed. `env.GetString` gives the
key an empty default, and infra/production/k8s/api-gateway-deployment.yaml does not set
it; `PaymentsAreKept` and `PaidIsRecorded` therefore ask for a gateway that has one.

## 4. Fairness

* Goroutines, timers and the broker's delivery are weakly fair: the Go scheduler
  and RabbitMQ go on with what stays possible.
* `HandlerReturns` is an assumption on the clients of MongoDB, Stripe and AMQP,
  which set no deadline of their own.
* `Restart` is weakly fair: a container that ends is restarted. Nothing is
  assumed for a process that has lost only its channel, since no service has a
  liveness probe; `EventuallySettled` therefore asks for one replica that keeps
  its channel in the end.
* `Take` is strongly fair for each message: a queue is served in order, so a
  message is not overtaken forever.
* `BookingGoesOn(s)`, for each start of `RiderPage`: the call goes on or fails, its
  answer reaches the page, and an announced trip gets a first event (the subject
  of `TripFlow`, under its own conditions). `Notify`: the gateway goes on
  consuming. Previews, the timer, the websocket and the order of events are free.
* In `DriverPage` the gateway accepts a websocket that the page still waits for,
  and onopen, effects, arrived messages, the handler and the consumers go on.
* Of people nothing is assumed: pages need not answer, pay or stay. In
  `GatewaySockets` a driver's page need not send its location.

## 5. Proofs

`DeliveryProofs` proves, for any messages, replicas, window, retry limit and
number of faults (`DeliveryAssumption`: naturals, the window not zero):

* `TypeCorrect`, `MessagesConserved`, `TasksAreDeliveries`,
  `RedeliveriesBounded`, `CallsBounded`, the invariants of the run `delivery`;
* `ImplementsSettlement`, the refinement.

The argument. `Conserved` is not inductive alone: that `Ack` may move a message
to `acked` needs `TasksMatchDeliveries` (a task of an open channel belongs to a
delivery that replica holds), which in turn needs `Conserved` (a message the
broker pushes is held by nobody). `TasksHaveCause` says that a task about to
acknowledge or reject has a completed handler or spent attempts behind it; the
refinement needs it for `Ack` and `DeadLetter`. `HandOutsPaid` strengthens the
bound on redeliveries: a message that waits has one hand-out less than the faults
allow. The conjunction `Inv` is inductive (`InitInv`, `NextInv`, one step per
action), and every step of `Next` maps to a step of `Settlement` or a stutter
(`NextImplements`). That handlers are called at most `MaxRetries + 1` times per
delivery follows from `RunsPaid`: the calls made plus the attempts still to come
are paid for by deliveries. The attempts to come of all replicas are counted as one
set of pairs of a replica and an attempt (`ToCome`), so that no sum is needed: a
delivery adds `MaxRetries` pairs and one call, an attempt takes its own pair away, and
every other step only takes pairs away.

`RiderPageProofs` proves, for any numbers of previews, starts, packages, faults
and cancellations (`BookingAssumption`, `RiderPageAssumption`: naturals, and null
and undefined are neither numbers of calls nor event types nor trips):

* `TypeCorrect`, `TripsAreCounted`, `BookedTripsExist`, `ShownFaresExist`,
  `BookedRouteIsShown`, `NextEventEndsMatching`;
* `ImplementsDeal`, the refinement of `RiderDeal`, and `DealSuffices`: with these,
  all safety properties of the run `rider_page`.

The argument. That there are at most 1 + `cancels` bookings is not inductive: a
start adds one, so before a start there must be one to spare (`OneMoreIsAllowed`,
while the page neither waits nor has had an event). A start needs the screen with
the packages, and that this screen is such a state (`SelectScreen`) rests on
`SessionIsKept`: the status "session created" comes with a session, so it never
falls through to the packages. A failed start takes its booking out of the count
(`StartFailedInv`). That the booked route stays on the map needs that nothing is
pending (`MatchingIsSettled`), and with no cancellation the count says that the
booking is the only one. What trip-service does is one lemma for each kind of
call, summed up in `TripServiceIsTrue`.

`ImplementsDeal` is the refinement of `RiderDeal`. It rests on the same invariant:
that a start is a `Book` of the deal needs the screen with the packages to mean a
free deal (`SelectScreen`) and the count to allow one more; late answers, events
and failures are `Tell`, `Fail` or stutters. `DealSuffices` needs nothing of the
page: whatever follows the deal has one trip per cancellation.

`DriverPageProofs` proves, for any trips, packages, requests, moves and faults
(`DriverPageAssumption`, `HomeAssumption`): `TypeCorrect`, `AnswersAreCounted`,
`RequestsKeepTheirButtons`, `NewestLocationIsSent`, `AnswersArePursued`. The argument counts messages
in the queue to the page, by the positions at which one stands (`At`). A request
that arrives was made (`RequestsAreMade`). That a trip is answered once per
request needs `OfferedIsUnanswered`: while the page offers a trip, one of its
requests is unanswered. That nothing takes the buttons away needs that the
handler greets once (`GreetedOnce`), so that a page with the driver's data gets
requests only (`AnswerableOnce`). `SentIsKnown` says that what the refs know has
been sent. That an answer is under way until it is published (`AnswersArePursued`)
needs the order in which things end when nothing fails (`Orderly`): the page before
its websocket, the websocket before its handler. A driver who answers then has an
open websocket, no answer is sent to a handler that still registers the driver, and
the handler notices the end of the websocket only when it has read all there was.

`GatewaySocketsProofs` proves, for any users, instances, sockets, messages, failures
and ends of processes (`GatewayAssumption`): `TypeCorrect`,
`EntriesBelongToHandlers`, `ServedUsersAreFound`, `RegistrationsAreHeld`, and
`ServedUsersAreReached` under the assumption of one instance, which connection_manager.go:36 states as a
limitation. The first is inductive with the types. The others need that a user
whose sockets have not overlapped has one handler (`OneHandler`): only that
handler's cleanup, or the end of its process, can then remove the entry
(`EntryIsKept`) and the registration (`RegistrationIsKept`). `RegistrationsAreHeld`
holds for any overlap, and so cannot use that: it follows each handler by itself,
which gives up the registration of its driver only as its last act, and then for all
others (`StaysHeld`).

`TripFlowProofs` proves, for any trips, drivers, packages, goroutines, retries,
bounds and faults (the assumptions of `TripFlow`): `TypeCorrect`,
`AssignedHaveAccepted`, `AcceptersSuitTheTrip`, `PayedTripsArePaid`, and the
refinement `ImplementsTripLedger`. The services
share no state, so whatever makes a step right must come with its message:
`Sound(m)` says what a message stands for (an acceptance for an accepter, a payment
command for a trip that is taken, a success for a payment that was reported), and
`SoundWork` what a goroutine in the middle of a handler has done. Both stay true
however long a message waits and however often it is delivered, because what they
speak of only grows (`Grows`). Every action either leaves the messages alone or
turns a sound one into sound ones. The refinement of `TripLedger` follows from that
and from one more fact, that a trip whose creation has begun is stored
(`CreatedIsStored`): what a message stands for is the guard of the ledger's step.
`LedgerSuffices` is about the ledger alone, and says what it is worth.

`TripFlowCalmProofs` extends it with what holds before the first fault, again for
any constants: `OncePerTrip` (one accepter, one session, an empty dead letter
queue) and, for runs without faults, the refinement `ImplementsTripLifecycle`.
Neither is inductive, nor is any count of one kind of thing: a second acceptance
would come from a second request, and that from a second matching. The argument
follows what drives a trip on. Its creation, the created message, the goroutine at
`match`, the request, the page that shows it, the answer, the goroutine from
`assign` to `charge`, the payment command, the goroutine at `open session` and the
session are places of one chain (`Holds`), and the payment with its report those of
another. `OneEnd` says that a chain is at one place at most; each step takes it from
one place to the next, leaves it, or loses it (`Move`, `NoMove`). `EndsAreTimely`
says what has not happened while the chain is where it is: nobody has accepted while
a driver is asked, nobody is stored before `assign`, the trip is not payed before
`settle`. That makes the first update of either kind find the trip as
`TripLifecycle` wants it, and the "modified nothing" error of `UpdateTrip`
unreachable (`AssignTakes`, `SettlePays`). A queue and the sessions of a driver have
two places each, for one copy and for another, so that no copies need counting.

`TripFlowFaultsProofs` has the other half, what faults can add, for any constants:
`FaultsAreBounded`, at most 1 + f * n drivers and as many sessions after f faults
with n goroutines. What is counted is not what there is but what may still come of
it: `LeadsOf(goal, t)` are the places from which trip t may get another driver, or
another session, together with the drivers and sessions it has. Copies of a message
and sessions of a driver are numbered places, so that the leads are one set, and
counting them is a matter of injections. A step hands a lead on (`HandsOnFew`) or
drops some (`DropsFew`); a failing step adds at most one; a crash turns what each
goroutine had in hand into a message, hence at most n (`CrashFew`). That is
`LeadsAreFew`, and the drivers and sessions there are, are among the leads.

`TripFlowKeptProofs` is about what is not lost, for any constants and faults. It
follows one message: it stays kept (`Kept`: waiting, worked on or dead-lettered)
through retries, crashes, rejections and redeliveries, until a publication of it
turns out to be lost or a handler of it takes its last step (`KeptOrDone`). What
remains is what that step leaves behind:

* `AcceptancesArePursued`, an action property: after an acceptance the payment
  command, after that the session. No step loses what is left of an acceptance but
  the loss of its publication or of that of its payment command (`OnlyThenLost`),
  whatever has failed, crashed or been retried before.
* `PaymentsArePursued`: where the gateway has its webhook key (`KeyStays`), after the
  report of a payment the stored payment, which stays, before the first fault
  (afterwards an acceptance may be stored over it).
* `SearchesArePursued`, an action property: after a created message or one of a
  declined trip a request or the news that there is no driver; after a decline
  another matching. In between the request is with a page, and `PagesInOrder` says
  that only pages that were opened are asked, so that a request that reaches no page
  has one that is gone (`RequestStep`, `OfferStep`).

They rest on `CarriedOn`: a handler searches for a driver only for messages that ask
for it, and tells the rider of a session only when its own driver has one.

Only model-checked is all liveness, which is beyond the prover (it needs ENABLED and
fairness): that messages are settled, trips pursued, payments recorded, sockets
forgotten (`EventuallySettled`, the run `trip_flow_live`, `EventuallyForgotten`), and
on the pages `MatchingEnds`, `ComesOnline`, `ActiveIsPublished` and
`GoneIsUnregistered`. Every safety property of a passing run is proved.

## 6. Not modelled, and why

The arithmetic of fares (floating point) and the geometry of routes; on the pages,
the drawing of the map and whether it follows the position, the position of the
rider (which no call uses but the preview), the list of drivers on the rider's map
(no service sends it), layout and wording; a payment button that hangs when
Stripe's script cannot be loaded (the rider is never assumed to pay); the return of
`handleStartTrip` on a fare without an ID, which leaves the page matching
(RiderMap.tsx:217-220, and no fare comes to the page without one); CORS and
the routing of HTTP requests; tracing, connection set-up and configuration, but for the webhook key; the in-memory
repository, which nothing uses; deployment files, load tests and the service
generator; generated protocol buffer code. Bodies that do not parse are left out:
every producer of a message is in the repository and marshals what its consumer
expects.

## 7. Plan

Done, in this order: `Settlement`, `Delivery`, `DeliveryProofs`; `TripLifecycle`,
`TripFlow`; `GatewaySockets`; `Booking`, `RiderPage`, `RiderPageProofs`;
`DriverPage`; `Home` and the pages' mounts, exits and locations; `RiderDeal` and
its refinement; `DriverPageProofs`; `TripFlowProofs`; the end of processes in
`GatewaySockets`, `GatewaySocketsProofs`; `CallsBounded`; `TripFlowCalmProofs`;
`TripFlowFaultsProofs`; `TripLedger` and its refinement; `AnswersArePursued`,
`RegistrationsAreHeld`; `TripFlowKeptProofs`; `LedgerSuffices`, `DealSuffices`.

Next:

1. What a driver's page promises as a whole, as `RiderDeal` does for the rider's:
   asked, answered or replaced, shown as active, and gone, with `DriverPage` shown to
   implement it.
2. Replicas of driver-service, each with registrations of its own, against
   README.md:25 (independent scaling), and the gateway with two instances, with
   what still holds then.

------------------------ MODULE TripFlowCalmProofs ------------------------
(***************************************************************************)
(* As long as nothing fails, one driver accepts a trip, one Stripe session *)
(* is opened for it, no message is dead-lettered, and the stored trips     *)
(* live as TripLifecycle says: for any trips, drivers and goroutines.      *)
(*                                                                         *)
(* The argument follows what drives a trip on.  The creation of the trip,  *)
(* the message that tells of it, the goroutine that works on the message,  *)
(* the request, the page that shows it, the answer and so on to the Stripe *)
(* session are links of one chain: each step takes the end of the chain to *)
(* the next link or loses it, and no step makes a second end (OneEnd).     *)
(* Where the end is tells what has not happened yet (EndsAreTimely).  The  *)
(* payment and its report are a second chain.                              *)
(***************************************************************************)
EXTENDS TripFlowProofs

-----------------------------------------------------------------------------
(* The chains of a trip *)

\* What drives a trip on: the search for a driver, up to the session the rider
\* may pay, and the report of the payment.
Chains == {"search", "payment"}

\* The chain a message, or a step of a handler, belongs to.
ChainOfKey(key) ==
  CASE key \in {TripEventCreated, TripEventDriverNotInterested, DriverCmdTripRequest,
                DriverCmdTripAccept, DriverCmdTripDecline, PaymentCmdCreateSession} -> "search"
    [] key = PaymentEventSuccess -> "payment"
    [] OTHER -> "none"

ChainOfStep(step) ==
  CASE step \in {"match", "reoffer", "assign", "reread", "announce", "charge",
                 "open session"} -> "search"
    [] step = "settle" -> "payment"
    [] OTHER -> "none"

\* The places the end of a chain can be at.  A queue, and the sessions of a driver,
\* have a place for one copy and one for another.
Places ==
  {<<"source", t, 1>> : t \in Trips}
  \cup {<<"queue", m, k>> : m \in Message, k \in {1, 2}}
  \cup {<<"work", g, 1>> : g \in Goroutines}
  \cup {<<"page", d, 1>> : d \in Drivers}
  \cup {<<"session", d, k>> : d \in Drivers, k \in {1, 2}}

\* Chain c of trip t is at place p.
Holds(c, t, p) ==
  \/ /\ p[1] = "source" /\ p[2] = t
     /\ \/ c = "search" /\ creation[t] \in {"none", "inserted"}
        \/ c = "payment" /\ payment[t] # "reported"
  \/ /\ p[1] = "queue"
     /\ p[2].trip = t /\ ChainOfKey(p[2].key) = c /\ queue[p[2]] >= p[3]
  \/ /\ p[1] = "work"
     /\ ChainOfStep(work[p[2]].step) = c /\ work[p[2]].msg.trip = t
  \/ c = "search" /\ p[1] = "page" /\ offer[p[2]] = t
  \/ c = "search" /\ p[1] = "session" /\ sessions[t][p[2]] >= p[3]

\* No driver has accepted yet.
Asking(p) ==
  \/ p[1] \in {"source", "page"}
  \/ p[1] = "queue" /\ p[2].key \notin {DriverCmdTripAccept, PaymentCmdCreateSession}
  \/ p[1] = "work" /\ work[p[2]].step \in {"match", "reoffer"}

\* No driver is stored yet.
Unassigned(p) ==
  \/ Asking(p)
  \/ p[1] = "queue" /\ p[2].key = DriverCmdTripAccept
  \/ p[1] = "work" /\ work[p[2]].step = "assign"

\* The end of a chain is at one place at most.
OneEnd == \A c \in Chains, t \in Trips : \A p, q \in Places :
  Holds(c, t, p) /\ Holds(c, t, q) => p = q

\* As long as the search asks for a driver no one has accepted, nobody is stored
\* before an acceptance is worked on, and a payment under way is not stored.
Timely(c, t, p) ==
  /\ c = "search" /\ Asking(p) => accepters[t] = {}
  /\ c = "search" /\ Unassigned(p) => ~Taken(t)
  /\ c = "payment" => trips[t].status # "payed"

EndsAreTimely == \A c \in Chains, t \in Trips : \A p \in Places :
  Holds(c, t, p) => Timely(c, t, p)

OneAccepter == \A t \in Trips : \A d, e \in accepters[t] : d = e

NoneRejected == dlq = {} /\ \A g \in Goroutines : work[g].step # "reject"

Calm ==
  /\ OneEnd
  /\ EndsAreTimely
  /\ OneAccepter
  /\ NoneRejected

\* At a place that held the end before, the search is no earlier than it was.
NotEarlier(p) == (Asking(p)' => Asking(p)) /\ (Unassigned(p)' => Unassigned(p))

USE DEF TripEventCreated, TripEventDriverNotInterested, TripEventDriverAssigned,
        TripEventNoDriversFound, DriverCmdTripRequest, DriverCmdTripAccept,
        DriverCmdTripDecline, PaymentCmdCreateSession, PaymentEventSessionCreated,
        PaymentEventSuccess

-----------------------------------------------------------------------------
(* Moving the end of a chain *)

\* A handler begins on the chain of its message.
LEMMA FirstStepOnChain ==
  ASSUME NEW key \in WorkKeys
  PROVE  /\ ChainOfStep(FirstStep(key)) = ChainOfKey(key)
         /\ ChainOfKey(key) \in Chains
         /\ FirstStep(key) \in {"match", "reoffer"} =>
              key \notin {DriverCmdTripAccept, PaymentCmdCreateSession}
         /\ FirstStep(key) = "assign" => key = DriverCmdTripAccept
PROOF
<1> QED BY DEF WorkKeys, FirstStep, ChainOfStep, ChainOfKey, Chains

\* What a place is of.
LEMMA PlaceKinds ==
  ASSUME NEW p \in Places
  PROVE  \/ p[1] = "source" /\ p[2] \in Trips /\ p[3] = 1
         \/ p[1] = "queue" /\ p[2] \in Message /\ p[3] \in {1, 2}
         \/ p[1] = "work" /\ p[2] \in Goroutines /\ p[3] = 1
         \/ p[1] = "page" /\ p[2] \in Drivers /\ p[3] = 1
         \/ p[1] = "session" /\ p[2] \in Drivers /\ p[3] \in {1, 2}
PROOF
<1> QED BY DEF Places

\* The places there are.
LEMMA PlacesMade ==
  /\ \A t \in Trips : <<"source", t, 1>> \in Places
  /\ \A m \in Message, k \in {1, 2} : <<"queue", m, k>> \in Places
  /\ \A g \in Goroutines : <<"work", g, 1>> \in Places
  /\ \A d \in Drivers : <<"page", d, 1>> \in Places
  /\ \A d \in Drivers, k \in {1, 2} : <<"session", d, k>> \in Places
PROOF
<1> QED BY DEF Places

\* A place is told by what it is of.
LEMMA SamePlace ==
  ASSUME NEW p \in Places, NEW q \in Places, p[1] = q[1], p[2] = q[2], p[3] = q[3]
  PROVE  p = q
PROOF
<1> QED BY DEF Places

\* A step that takes no chain anywhere new.
LEMMA NoMove ==
  ASSUME Calm, NoneRejected', UNCHANGED <<trips, accepters>>,
         \A c \in Chains, t \in Trips : \A r \in Places :
           Holds(c, t, r)' => Holds(c, t, r) /\ NotEarlier(r)
  PROVE  Calm'
PROOF
<1>1. OneEnd'
  BY DEF Calm, OneEnd
<1>2. EndsAreTimely'
  BY DEF Calm, EndsAreTimely, Timely, NotEarlier, Taken
<1>3. OneAccepter'
  BY DEF Calm, OneAccepter
<1> QED BY <1>1, <1>2, <1>3 DEF Calm

\* A step that takes the end of a chain from p to q.
LEMMA MoveEnd ==
  ASSUME Calm, NoneRejected', OneAccepter',
         NEW c \in Chains, NEW t \in Trips, NEW p \in Places, NEW q \in Places,
         Holds(c, t, p),
         \A e \in Chains, u \in Trips : \A r \in Places : Holds(e, u, r)' =>
           /\ Timely(e, u, r)'
           /\ \/ e = c /\ u = t /\ r = q
              \/ Holds(e, u, r) /\ ~(e = c /\ u = t /\ r = p)
  PROVE  Calm'
PROOF
<1>1. OneEnd'
  <2> SUFFICES ASSUME NEW e \in Chains, NEW u \in Trips, NEW r \in Places, NEW s \in Places,
                      Holds(e, u, r)', Holds(e, u, s)'
               PROVE  r = s
    BY DEF OneEnd
  <2>1. CASE e = c /\ u = t
    BY <2>1 DEF Calm, OneEnd
  <2>2. CASE ~(e = c /\ u = t)
    BY <2>2 DEF Calm, OneEnd
  <2> QED BY <2>1, <2>2
<1>2. EndsAreTimely'
  BY DEF EndsAreTimely
<1> QED BY <1>1, <1>2 DEF Calm

\* The same where no document and no acceptance changes: what was timely at p is
\* timely at q.
LEMMA Move ==
  ASSUME Calm, NoneRejected', UNCHANGED <<trips, accepters>>,
         NEW c \in Chains, NEW t \in Trips, NEW p \in Places, NEW q \in Places,
         Holds(c, t, p),
         \A e \in Chains, u \in Trips : \A r \in Places : Holds(e, u, r)' =>
           \/ e = c /\ u = t /\ r = q
           \/ /\ Holds(e, u, r) /\ NotEarlier(r)
              /\ ~(e = c /\ u = t /\ r = p),
         c = "search" => (Asking(q)' => Asking(p)) /\ (Unassigned(q)' => Unassigned(p))
  PROVE  Calm'
PROOF
<1>1. ASSUME NEW e \in Chains, NEW u \in Trips, NEW r \in Places, Holds(e, u, r)'
      PROVE  Timely(e, u, r)'
  <2>1. CASE e = c /\ u = t /\ r = q
    <3>1. Timely(c, t, p)
      BY DEF Calm, EndsAreTimely
    <3>2. Timely(c, t, q)'
      BY <3>1 DEF Timely, Taken
    <3> QED BY <2>1, <3>2
  <2>2. CASE Holds(e, u, r) /\ NotEarlier(r)
    BY <2>2 DEF Calm, EndsAreTimely, Timely, NotEarlier, Taken
  <2> QED BY <1>1, <2>1, <2>2
<1>2. OneAccepter'
  BY DEF Calm, OneAccepter
<1> QED BY <1>1, <1>2, MoveEnd

\* No chain begins anew.
SourcesDry == \A t \in Trips :
  /\ creation'[t] \in {"none", "inserted"} => creation[t] \in {"none", "inserted"}
  /\ payment'[t] # "reported" => payment[t] # "reported"

\* Where a step adds nothing, the end of a chain was before.
LEMMA HeldBefore ==
  ASSUME TypeOK, SourcesDry,
         NEW c \in Chains, NEW t \in Trips, NEW r \in Places, Holds(c, t, r)',
         r[1] = "queue" => queue'[r[2]] \in Nat /\ queue'[r[2]] <= queue[r[2]],
         r[1] = "work" => work'[r[2]] = work[r[2]],
         r[1] = "page" => offer'[r[2]] = offer[r[2]],
         r[1] = "session" => sessions'[t][r[2]] = sessions[t][r[2]]
  PROVE  Holds(c, t, r) /\ NotEarlier(r)
PROOF
<1>1. Holds(c, t, r)
  <2>1. CASE r[1] = "source"
    BY <2>1 DEF Holds, SourcesDry
  <2>2. CASE r[1] = "queue"
    <3>1. r[2] \in Message /\ r[3] \in {1, 2}
      BY <2>2, PlaceKinds
    <3>2. queue[r[2]] \in Nat /\ queue'[r[2]] \in Nat /\ queue'[r[2]] <= queue[r[2]]
      BY <2>2, <3>1 DEF TypeOK
    <3>3. queue'[r[2]] >= r[3] => queue[r[2]] >= r[3]
      BY <3>1, <3>2
    <3> QED BY <2>2, <3>3 DEF Holds
  <2>3. CASE r[1] = "work"
    BY <2>3 DEF Holds
  <2>4. CASE r[1] \in {"page", "session"}
    BY <2>4 DEF Holds
  <2> QED BY <2>1, <2>2, <2>3, <2>4, PlaceKinds
<1>2. NotEarlier(r)
  BY DEF NotEarlier, Asking, Unassigned
<1> QED BY <1>1, <1>2

\* The end of a chain goes into the queue.
LEMMA PublishMoves ==
  ASSUME Inv, Calm,
         NEW c \in Chains, NEW t \in Trips, NEW p \in Places, Holds(c, t, p),
         p[1] # "queue",
         NEW m \in Message, m.trip = t, ChainOfKey(m.key) = c, Publish(m),
         \A e \in Chains, u \in Trips : \A r \in Places :
           r[1] # "queue" /\ Holds(e, u, r)' =>
             Holds(e, u, r) /\ NotEarlier(r) /\ ~(e = c /\ u = t /\ r = p)
  PROVE  \A e \in Chains, u \in Trips : \A r \in Places : Holds(e, u, r)' =>
           \/ e = c /\ u = t /\ r = <<"queue", m, 1>>
           \/ /\ Holds(e, u, r) /\ NotEarlier(r)
              /\ ~(e = c /\ u = t /\ r = p)
PROOF
<1> DEFINE q == <<"queue", m, 1>>
<1>1. q \in Places
  BY PlacesMade
<1>2. queue \in [Message -> Nat]
  BY DEF Inv, TypeOK
<1>3. queue[m] = 0
  <2>1. ~Holds(c, t, q)
    BY <1>1 DEF Calm, OneEnd
  <2>2. Holds(c, t, q) <=> queue[m] >= 1
    BY DEF Holds
  <2> QED BY <1>2, <2>1, <2>2
<1>4. \A n \in Message : queue'[n] = IF n = m THEN 1 ELSE queue[n]
  BY <1>2, <1>3 DEF Publish
<1>5. ASSUME NEW e \in Chains, NEW u \in Trips, NEW r \in Places, Holds(e, u, r)', r[1] = "queue"
      PROVE  \/ e = c /\ u = t /\ r = q
             \/ Holds(e, u, r) /\ NotEarlier(r)
  <2>1. r[2] \in Message /\ r[3] \in {1, 2}
    BY <1>5, PlaceKinds
  <2>2. r[2].trip = u /\ ChainOfKey(r[2].key) = e /\ queue'[r[2]] >= r[3]
    BY <1>5 DEF Holds
  <2>3. CASE r[2] = m
    <3>1. r[3] = 1
      BY <1>4, <2>1, <2>2, <2>3
    <3>2. r = q
      BY <1>1, <1>5, <2>3, <3>1, SamePlace
    <3> QED BY <2>2, <2>3, <3>2
  <2>4. CASE r[2] # m
    BY <1>4, <1>5, <2>1, <2>2, <2>4 DEF Holds, NotEarlier, Asking, Unassigned
  <2> QED BY <2>3, <2>4
<1> HIDE DEF q
<1>6. \A e \in Chains, u \in Trips : \A r \in Places : Holds(e, u, r)' =>
        \/ e = c /\ u = t /\ r = q
        \/ /\ Holds(e, u, r) /\ NotEarlier(r)
           /\ ~(e = c /\ u = t /\ r = p)
  BY <1>5
<1> QED BY <1>6 DEF q

\* A step that does so, and stores nothing, keeps the chains as they should be.
LEMMA PublishCalm ==
  ASSUME Inv, Calm, NoneRejected', UNCHANGED <<trips, accepters>>,
         NEW c \in Chains, NEW t \in Trips, NEW p \in Places, Holds(c, t, p),
         p[1] # "queue",
         NEW m \in Message, m.trip = t, ChainOfKey(m.key) = c, Publish(m),
         c = "search" =>
           /\ m.key \notin {DriverCmdTripAccept, PaymentCmdCreateSession} => Asking(p)
           /\ m.key = DriverCmdTripAccept => Unassigned(p),
         \A e \in Chains, u \in Trips : \A r \in Places :
           r[1] # "queue" /\ Holds(e, u, r)' =>
             Holds(e, u, r) /\ NotEarlier(r) /\ ~(e = c /\ u = t /\ r = p)
  PROVE  Calm'
PROOF
<1> DEFINE q == <<"queue", m, 1>>
<1>1. q \in Places
  BY PlacesMade
<1>2. \A e \in Chains, u \in Trips : \A r \in Places : Holds(e, u, r)' =>
        \/ e = c /\ u = t /\ r = q
        \/ /\ Holds(e, u, r) /\ NotEarlier(r)
           /\ ~(e = c /\ u = t /\ r = p)
  BY PublishMoves
<1>3. c = "search" => (Asking(q)' => Asking(p)) /\ (Unassigned(q)' => Unassigned(p))
  BY DEF Asking, Unassigned
<1> HIDE DEF q
<1> QED BY <1>1, <1>2, <1>3, Move

\* The end of a chain is taken from the queue: by a goroutine, onto a page, or not
\* at all.  Nothing else holds it.
LEMMA TakenFromQueue ==
  ASSUME Inv, Calm, NEW m \in Message, ChainOfKey(m.key) \in Chains, queue[m] > 0,
         queue' = [queue EXCEPT ![m] = @ - 1]
  PROVE  /\ Holds(ChainOfKey(m.key), m.trip, <<"queue", m, 1>>)
         /\ queue'[m] = 0
         /\ \A n \in Message : n # m => queue'[n] = queue[n]
PROOF
<1> DEFINE c == ChainOfKey(m.key)
           p == <<"queue", m, 1>>
           s == <<"queue", m, 2>>
<1>1. p \in Places /\ s \in Places /\ m.trip \in Trips /\ p # s
  BY PlacesMade, MessageFields
<1>2. queue \in [Message -> Nat]
  BY DEF Inv, TypeOK
<1>3. Holds(c, m.trip, p)
  BY <1>2 DEF Holds
<1>4. Holds(c, m.trip, s) <=> queue[m] >= 2
  BY DEF Holds
<1>5. ~Holds(c, m.trip, s)
  <2> HIDE DEF p, s, c
  <2> QED BY <1>1, <1>3 DEF Calm, OneEnd, c
<1>6. queue[m] = 1
  BY <1>2, <1>4, <1>5
<1> QED BY <1>2, <1>3, <1>6

-----------------------------------------------------------------------------
(* The steps of a goroutine *)

\* Nothing but the work of g changes where the ends of chains are.
LEMMA OthersHold ==
  ASSUME Inv, NEW g \in Goroutines, SourcesDry,
         \A h \in Goroutines : h # g => work'[h] = work[h],
         offer' = offer,
         NEW c \in Chains, NEW t \in Trips, NEW r \in Places, Holds(c, t, r)',
         r[1] \in {"source", "work", "page"}, r # <<"work", g, 1>>
  PROVE  Holds(c, t, r) /\ NotEarlier(r)
PROOF
<1>1. r[1] = "work" => r[2] \in Goroutines /\ r[2] # g
  BY PlaceKinds, PlacesMade, SamePlace
<1> QED BY <1>1, HeldBefore DEF Inv

\* A goroutine takes a message, and the end of its chain with it.
LEMMA TakeCalm ==
  ASSUME Inv, Calm, NEW g \in Goroutines, NEW m \in Message, Take(g, m)
  PROVE  Calm'
PROOF
<1> DEFINE c == ChainOfKey(m.key)
           t == m.trip
           p == <<"queue", m, 1>>
           q == <<"work", g, 1>>
           w == [msg |-> m, step |-> FirstStep(m.key), failures |-> 0, read |-> None]
<1>1. /\ work[g] = Idle /\ m.key \in WorkKeys /\ queue[m] > 0
      /\ queue' = [queue EXCEPT ![m] = @ - 1]
      /\ work' = [work EXCEPT ![g] = w]
      /\ UNCHANGED <<trips, creation, dlq, offer, sessions, payment, accepters>>
  BY DEF Take, pages, stripe
<1>2. c \in Chains /\ t \in Trips /\ p \in Places /\ q \in Places
  BY <1>1, FirstStepOnChain, MessageFields, PlacesMade
<1>3. /\ Holds(c, t, p) /\ queue'[m] = 0
      /\ \A n \in Message : n # m => queue'[n] = queue[n]
  BY <1>1, <1>2, TakenFromQueue
<1>4. /\ work'[g].msg = m /\ work'[g].step = FirstStep(m.key)
      /\ \A h \in Goroutines : h # g => work'[h] = work[h]
  BY <1>1 DEF Inv, TypeOK
<1>5. SourcesDry
  BY <1>1 DEF SourcesDry
<1>6. ASSUME NEW e \in Chains, NEW u \in Trips, NEW r \in Places, Holds(e, u, r)'
      PROVE  \/ e = c /\ u = t /\ r = q
             \/ /\ Holds(e, u, r) /\ NotEarlier(r)
                /\ ~(e = c /\ u = t /\ r = p)
  <2>1. CASE r = q
    <3>1. ChainOfStep(FirstStep(m.key)) = e /\ m.trip = u
      BY <1>4, <1>6, <2>1 DEF Holds
    <3> QED BY <1>1, <2>1, <3>1, FirstStepOnChain
  <2>2. CASE r # q /\ r[1] # "queue"
    <3>1. CASE r[1] = "session"
      BY <1>1, <1>5, <1>6, <3>1, HeldBefore DEF Inv
    <3>2. CASE r[1] # "session"
      BY <1>1, <1>4, <1>5, <1>6, <2>2, <3>2, OthersHold, PlaceKinds
    <3> QED BY <2>2, <3>1, <3>2
  <2>3. CASE r[1] = "queue"
    <3>1. r[2] \in Message /\ r[3] \in {1, 2}
      BY <2>3, PlaceKinds
    <3>2. r[2] # m
      BY <1>3, <1>6, <2>3, <3>1 DEF Holds
    <3>3. queue'[r[2]] = queue[r[2]] /\ r # p
      BY <1>3, <3>1, <3>2
    <3> QED BY <1>6, <2>3, <3>3 DEF Holds, NotEarlier, Asking, Unassigned
  <2> QED BY <2>1, <2>2, <2>3
<1>7. (Asking(q)' => Asking(p)) /\ (Unassigned(q)' => Unassigned(p))
  BY <1>1, <1>4, FirstStepOnChain DEF Asking, Unassigned
<1>8. NoneRejected'
  <2>1. work'[g].step # "reject"
    BY <1>1, <1>4, FirstStepBelongs DEF HandlerSteps
  <2> QED BY <1>1, <1>4, <2>1 DEF Calm, NoneRejected
<1> HIDE DEF c, t, p, q, w
<1> QED BY <1>1, <1>2, <1>3, <1>6, <1>7, <1>8, Move

\* A handler ends, and with it g holds no chain.
LEMMA AckHolds ==
  ASSUME Inv, NEW g \in Goroutines, work[g].step # "idle", Goto(g, "ack")
  PROVE  /\ work'[g].step = "ack"
         /\ \A h \in Goroutines : h # g => work'[h] = work[h]
         /\ \A c \in Chains, t \in Trips : ~Holds(c, t, <<"work", g, 1>>)'
PROOF
<1>1. work \in [Goroutines -> Work \cup {Idle}] /\ work[g] \in Work
  BY AtWork DEF Inv, TypeOK
<1>2. /\ work'[g].step = "ack"
      /\ \A h \in Goroutines : h # g => work'[h] = work[h]
  BY <1>1 DEF Goto, Work
<1> QED BY <1>2 DEF Holds, ChainOfStep, Chains

\* A handler of a chain ends with the message that carries the chain on.
LEMMA PassOn ==
  ASSUME Inv, Calm, NEW g \in Goroutines, work[g].step \in HandlerSteps, Goto(g, "ack"),
         NEW c \in Chains, ChainOfStep(work[g].step) = c,
         NEW m \in Message, m.trip = work[g].msg.trip, ChainOfKey(m.key) = c, Publish(m),
         c = "search" =>
           /\ m.key \notin {DriverCmdTripAccept, PaymentCmdCreateSession} =>
                work[g].step \in {"match", "reoffer"}
           /\ m.key # DriverCmdTripAccept,
         UNCHANGED <<trips, creation, dlq, pages, stripe, accepters>>
  PROVE  Calm'
PROOF
<1> DEFINE p == <<"work", g, 1>>
           t == work[g].msg.trip
<1>1. work[g].step # "idle"
  BY DEF HandlerSteps
<1>2. t \in Trips /\ p \in Places
  BY <1>1, AtWork, PlacesMade
<1>3. /\ work'[g].step = "ack"
      /\ \A h \in Goroutines : h # g => work'[h] = work[h]
      /\ \A e \in Chains, u \in Trips : ~Holds(e, u, p)'
  BY <1>1, AckHolds
<1>4. Holds(c, t, p)
  BY DEF Holds
<1>5. SourcesDry
  BY DEF SourcesDry, stripe
<1>6. \A e \in Chains, u \in Trips : \A r \in Places :
        r[1] # "queue" /\ Holds(e, u, r)' =>
          Holds(e, u, r) /\ NotEarlier(r) /\ ~(e = c /\ u = t /\ r = p)
  <2> SUFFICES ASSUME NEW e \in Chains, NEW u \in Trips, NEW r \in Places,
                      r[1] # "queue", Holds(e, u, r)'
               PROVE  Holds(e, u, r) /\ NotEarlier(r) /\ r # p
    OBVIOUS
  <2>1. r # p
    BY <1>3
  <2>2. CASE r[1] = "session"
    BY <1>5, <2>1, <2>2, HeldBefore DEF Inv, stripe
  <2>3. CASE r[1] # "session"
    BY <1>3, <1>5, <2>1, <2>3, OthersHold, PlaceKinds DEF pages
  <2> QED BY <2>1, <2>2, <2>3
<1>7. c = "search" =>
        /\ m.key \notin {DriverCmdTripAccept, PaymentCmdCreateSession} => Asking(p)
        /\ m.key = DriverCmdTripAccept => Unassigned(p)
  BY DEF Asking
<1>8. NoneRejected'
  BY <1>3 DEF Calm, NoneRejected
<1>9. p[1] # "queue"
  OBVIOUS
<1> HIDE DEF p, t
<1>10. m.trip = t
  BY DEF t
<1> QED BY <1>2, <1>4, <1>6, <1>7, <1>8, <1>9, <1>10, PublishCalm

\* Match, Charge and Reoffer pass the search on; Notify and a Match that finds no
\* driver end what they carry.
LEMMA PublisherCalm ==
  ASSUME Inv, Calm, NEW g \in Goroutines,
         Match(g) \/ Charge(g) \/ Reoffer(g) \/ Notify(g)
  PROVE  Calm'
PROOF
<1> DEFINE w == work[g].msg
<1>1. /\ work[g].step # "idle" /\ work[g].step \in HandlerSteps /\ Goto(g, "ack")
      /\ UNCHANGED <<trips, creation, dlq, pages, stripe, accepters>>
  BY DEF Match, Charge, Reoffer, Notify, At, HandlerSteps
<1>2. w \in Message /\ w.trip \in Trips /\ SoundWork(work[g])
  BY <1>1, AtWork
<1>3. "search" \in Chains
  BY DEF Chains
<1>4. ASSUME NEW m \in Message, Publish(m), m.trip = w.trip, ChainOfKey(m.key) = "search",
             ChainOfStep(work[g].step) = "search", m.key # DriverCmdTripAccept,
             m.key = PaymentCmdCreateSession \/ work[g].step \in {"match", "reoffer"}
      PROVE  Calm'
  BY <1>1, <1>3, <1>4, PassOn
<1>5. ASSUME NEW m \in Message, Publish(m), ChainOfKey(m.key) = "none"
      PROVE  Calm'
  <2>1. /\ work'[g].step = "ack"
        /\ \A h \in Goroutines : h # g => work'[h] = work[h]
        /\ \A e \in Chains, u \in Trips : ~Holds(e, u, <<"work", g, 1>>)'
    BY <1>1, AckHolds
  <2>2. \A n \in Message : n # m => queue'[n] = queue[n]
    BY <1>5 DEF Publish, Inv, TypeOK
  <2>3. SourcesDry
    BY <1>1 DEF SourcesDry, stripe
  <2>4. ASSUME NEW e \in Chains, NEW u \in Trips, NEW r \in Places, Holds(e, u, r)'
        PROVE  Holds(e, u, r) /\ NotEarlier(r)
    <3>1. CASE r[1] = "queue"
      <4>1. r[2] \in Message /\ r[2] # m
        BY <1>5, <2>4, <3>1, PlaceKinds DEF Holds, Chains
      <4> QED BY <2>2, <2>4, <3>1, <4>1 DEF Holds, NotEarlier, Asking, Unassigned
    <3>2. CASE r[1] = "session"
      BY <1>1, <2>3, <2>4, <3>2, HeldBefore DEF Inv, stripe
    <3>3. CASE r[1] \in {"source", "work", "page"}
      <4>1. r # <<"work", g, 1>>
        BY <2>1, <2>4
      <4> QED BY <1>1, <2>1, <2>3, <2>4, <3>3, <4>1, OthersHold DEF pages
    <3> QED BY <3>1, <3>2, <3>3, PlaceKinds
  <2>5. NoneRejected'
    BY <1>1, <2>1 DEF Calm, NoneRejected
  <2> QED BY <1>1, <2>4, <2>5, NoMove
<1>6. CASE Match(g)
  <2> DEFINE n == Msg(TripEventNoDriversFound, w.trip, None)
             m(d) == Msg(DriverCmdTripRequest, w.trip, d)
  <2>1. work[g].step = "match" /\ (Publish(n) \/ \E d \in Drivers : Publish(m(d)))
    BY <1>6 DEF Match, At, FindAvailableDrivers, Inv, TypeOK
  <2>2. n \in Message /\ n.key = TripEventNoDriversFound
    BY <1>2, MsgIsMessage
  <2>3. CASE Publish(n)
    <3>1. ChainOfKey(n.key) = "none"
      BY <2>2 DEF ChainOfKey
    <3> QED BY <1>5, <2>2, <2>3, <3>1
  <2>4. ASSUME NEW d \in Drivers, Publish(m(d)) PROVE Calm'
    <3>1. m(d) \in Message /\ m(d).key = DriverCmdTripRequest /\ m(d).trip = w.trip
      BY <1>2, MsgIsMessage
    <3>2. ChainOfKey(m(d).key) = "search" /\ ChainOfStep(work[g].step) = "search"
      BY <2>1, <3>1 DEF ChainOfKey, ChainOfStep
    <3> HIDE DEF m
    <3> QED BY <1>4, <2>1, <2>4, <3>1, <3>2
  <2> QED BY <2>1, <2>3, <2>4
<1>7. CASE Charge(g)
  <2> DEFINE m == Msg(PaymentCmdCreateSession, w.trip, w.driver)
  <2>1. work[g].step = "charge" /\ w.key = DriverCmdTripAccept /\ Publish(m)
    BY <1>2, <1>7 DEF Charge, At, SoundWork
  <2>2. m \in Message /\ m.key = PaymentCmdCreateSession /\ m.trip = w.trip
    BY <1>2, <2>1, MessageFields, MsgIsMessage
  <2>3. ChainOfKey(m.key) = "search" /\ ChainOfStep(work[g].step) = "search"
    BY <2>1, <2>2 DEF ChainOfKey, ChainOfStep
  <2> HIDE DEF m
  <2> QED BY <1>4, <2>1, <2>2, <2>3
<1>8. CASE Reoffer(g)
  <2> DEFINE m == Msg(TripEventDriverNotInterested, w.trip, None)
  <2>1. work[g].step = "reoffer" /\ Publish(m)
    BY <1>8 DEF Reoffer, At
  <2>2. m \in Message /\ m.key = TripEventDriverNotInterested /\ m.trip = w.trip
    BY <1>2, MsgIsMessage
  <2>3. ChainOfKey(m.key) = "search" /\ ChainOfStep(work[g].step) = "search"
    BY <2>1, <2>2 DEF ChainOfKey, ChainOfStep
  <2> HIDE DEF m
  <2> QED BY <1>4, <2>1, <2>2, <2>3
<1>9. CASE Notify(g)
  <2> DEFINE m == Msg(PaymentEventSessionCreated, w.trip, None)
  <2>1. m \in Message /\ m.key = PaymentEventSessionCreated /\ Publish(m)
    BY <1>2, <1>9, MsgIsMessage DEF Notify
  <2>2. ChainOfKey(m.key) = "none"
    BY <2>1 DEF ChainOfKey
  <2> HIDE DEF m
  <2> QED BY <1>5, <2>1, <2>2
<1> QED BY <1>6, <1>7, <1>8, <1>9

\* A goroutine that stays on its chain, or leaves one with an Ack.
LEMMA StayCalm ==
  ASSUME Inv, Calm, NEW g \in Goroutines, Reread(g) \/ Announce(g) \/ Ack(g)
  PROVE  Calm'
PROOF
<1>1. /\ work[g].step \in {"reread", "announce", "ack"}
      /\ \A h \in Goroutines : h # g => work'[h] = work[h]
      /\ UNCHANGED <<trips, creation, dlq, pages, stripe, accepters>>
  BY DEF Reread, Announce, Ack, At, Inv, TypeOK
<1>2. /\ work'[g].step \in {"announce", "charge", "idle"}
      /\ work[g].step # "ack" => work'[g].msg = work[g].msg /\ work'[g].step # "idle"
      /\ work[g].step = "ack" => work'[g].step = "idle"
  <2>1. work[g] \in Work /\ work \in [Goroutines -> Work \cup {Idle}]
    BY <1>1, AtWork DEF Inv, TypeOK
  <2> QED BY <2>1 DEF Reread, Announce, Ack, At, Idle, Work
<1>3. \A m \in Message : ChainOfKey(m.key) # "none" => queue'[m] = queue[m]
  <2>1. CASE queue' = queue
    BY <2>1
  <2>2. CASE Announce(g)
    <3> DEFINE n == Msg(TripEventDriverAssigned, work[g].msg.trip, work[g].read)
    <3>1. ChainOfKey(n.key) = "none" /\ Publish(n)
      BY <2>2 DEF Announce, Msg, ChainOfKey
    <3> HIDE DEF n
    <3> QED BY <3>1 DEF Publish, Inv, TypeOK
  <2> QED BY <2>1, <2>2 DEF Reread, Ack
<1>4. SourcesDry
  BY <1>1 DEF SourcesDry, stripe
<1>5. ASSUME NEW e \in Chains, NEW u \in Trips, NEW r \in Places, Holds(e, u, r)'
      PROVE  Holds(e, u, r) /\ NotEarlier(r)
  <2>1. CASE r[1] = "queue"
    <3>1. r[2] \in Message /\ ChainOfKey(r[2].key) # "none"
      BY <1>5, <2>1, PlaceKinds DEF Holds, Chains
    <3> QED BY <1>3, <1>5, <2>1, <3>1 DEF Holds, NotEarlier, Asking, Unassigned
  <2>2. CASE r[1] = "session"
    BY <1>1, <1>4, <1>5, <2>2, HeldBefore DEF Inv, stripe
  <2>3. CASE r = <<"work", g, 1>>
    <3>1. ChainOfStep(work'[g].step) = e /\ work'[g].msg.trip = u
      BY <1>5, <2>3 DEF Holds
    <3>2. work'[g].step \in {"announce", "charge"} /\ e = "search"
      BY <1>2, <3>1 DEF ChainOfStep, Chains
    <3>3. work[g].step \in {"reread", "announce"} /\ work'[g].msg = work[g].msg
      BY <1>1, <1>2, <3>2
    <3> QED BY <2>3, <3>1, <3>2, <3>3 DEF Holds, ChainOfStep, NotEarlier, Asking, Unassigned
  <2>4. CASE r[1] \in {"source", "work", "page"} /\ r # <<"work", g, 1>>
    BY <1>1, <1>4, <1>5, <2>4, OthersHold DEF pages
  <2> QED BY <2>1, <2>2, <2>3, <2>4, PlaceKinds
<1>6. NoneRejected'
  BY <1>1, <1>2 DEF Calm, NoneRejected
<1> QED BY <1>1, <1>5, <1>6, NoMove

\* The end of the search is a session, and it is the only one.
LEMMA OpenSessionCalm ==
  ASSUME Inv, Calm, NEW g \in Goroutines, OpenSession(g)
  PROVE  Calm'
PROOF
<1>0. PICK w \in Message, t \in Trips, d \in Drivers :
        w = work[g].msg /\ t = w.trip /\ d = w.driver /\ work[g] \in Work
  BY AtWork, MessageFields DEF OpenSession, At, SoundWork
<1> DEFINE p == <<"work", g, 1>>
           q == <<"session", d, 1>>
<1>1. /\ work[g].step = "open session" /\ Goto(g, "notify")
      /\ sessions' = [sessions EXCEPT ![t][d] = @ + 1]
      /\ UNCHANGED <<trips, creation, queue, dlq, pages, payment, accepters>>
  BY <1>0 DEF OpenSession, At
<1>2. /\ p \in Places /\ q \in Places /\ <<"session", d, 2>> \in Places
      /\ "search" \in Chains
  BY PlacesMade DEF Chains
<1>3. Holds("search", t, p)
  BY <1>0, <1>1 DEF Holds, ChainOfStep
<1>4. /\ work'[g].step = "notify"
      /\ \A h \in Goroutines : h # g => work'[h] = work[h]
  BY <1>0, <1>1 DEF Goto, Work, Inv, TypeOK
<1>5. sessions \in [Trips -> [Drivers -> Nat]]
  BY DEF Inv, TypeOK
<1>6. sessions[t][d] = 0
  <2>1. ~Holds("search", t, q)
    BY <1>2, <1>3 DEF Calm, OneEnd
  <2>2. Holds("search", t, q) <=> sessions[t][d] >= 1
    BY DEF Holds
  <2> QED BY <1>2, <1>5, <2>1, <2>2
<1>7. \A u \in Trips, e \in Drivers :
        sessions'[u][e] = IF u = t /\ e = d THEN 1 ELSE sessions[u][e]
  <2>1. \A u \in Trips : sessions'[u] = IF u = t THEN [sessions[t] EXCEPT ![d] = @ + 1]
                                                 ELSE sessions[u]
    BY <1>1, <1>2, <1>5
  <2>2. sessions[t] \in [Drivers -> Nat]
    BY <1>2, <1>5
  <2>3. \A e \in Drivers : sessions'[t][e] = IF e = d THEN 1 ELSE sessions[t][e]
    BY <1>2, <1>6, <2>1, <2>2
  <2> QED BY <2>1, <2>3
<1>8. SourcesDry
  BY <1>1 DEF SourcesDry
<1>9. ASSUME NEW e \in Chains, NEW u \in Trips, NEW r \in Places, Holds(e, u, r)'
      PROVE  \/ e = "search" /\ u = t /\ r = q
             \/ /\ Holds(e, u, r) /\ NotEarlier(r)
                /\ ~(e = "search" /\ u = t /\ r = p)
  <2>1. CASE r[1] = "session"
    <3>1. e = "search" /\ sessions'[u][r[2]] >= r[3] /\ r[2] \in Drivers /\ r[3] \in {1, 2}
      BY <1>9, <2>1, PlaceKinds DEF Holds
    <3>2. CASE u = t /\ r[2] = d
      <4>1. r[3] = 1
        BY <1>7, <3>1, <3>2
      <4>2. r = q
        BY <1>2, <2>1, <3>2, <4>1, SamePlace
      <4> QED BY <3>1, <3>2, <4>2
    <3>3. CASE ~(u = t /\ r[2] = d)
      <4>1. sessions'[u][r[2]] = sessions[u][r[2]] /\ r # p
        BY <1>7, <2>1, <3>1, <3>3
      <4> QED BY <1>9, <2>1, <4>1, <3>1 DEF Holds, NotEarlier, Asking, Unassigned
    <3> QED BY <3>2, <3>3
  <2>2. CASE r[1] = "queue"
    <3>1. queue' = queue /\ r # p
      <4>1. queue' = queue
        BY <1>1
      <4>2. r # p
        BY <2>2
      <4> QED BY <4>1, <4>2
    <3> QED BY <1>9, <2>2, <3>1 DEF Holds, NotEarlier, Asking, Unassigned
  <2>3. CASE r[1] \in {"source", "work", "page"}
    <3>1. r # p
      <4>1. ~Holds(e, u, p)'
        BY <1>4 DEF Holds, ChainOfStep, Chains
      <4> QED BY <1>9, <4>1
    <3> QED BY <1>1, <1>4, <1>8, <1>9, <2>3, <3>1, OthersHold DEF pages
  <2> QED BY <2>1, <2>2, <2>3, PlaceKinds
<1>10. ~Asking(q)' /\ ~Unassigned(q)'
  BY DEF Asking, Unassigned
<1>11. NoneRejected' /\ UNCHANGED <<trips, accepters>>
  BY <1>1, <1>4 DEF Calm, NoneRejected
<1> HIDE DEF p, q
<1> QED BY <1>2, <1>3, <1>9, <1>10, <1>11, Move

-----------------------------------------------------------------------------
(* What trip-service stores *)

\* The first driver's acceptance finds the trip pending, and takes it.
LEMMA AssignTakes ==
  ASSUME Inv, CreatedIsStored, Calm, NEW g \in Goroutines, Assign(g)
  PROVE  LET m == work[g].msg IN
         /\ m.driver \in Drivers
         /\ Holds("search", m.trip, <<"work", g, 1>>)
         /\ trips[m.trip].status = "Pending"
         /\ trips' = [trips EXCEPT ![m.trip] = [status |-> "accepted", driver |-> m.driver]]
         /\ Goto(g, "reread")
PROOF
<1> DEFINE m == work[g].msg
           t == m.trip
           p == <<"work", g, 1>>
<1>1. work[g].step = "assign"
  BY DEF Assign, At
<1>2. /\ m \in Message /\ t \in Trips /\ SoundWork(work[g]) /\ Sound(m)
      /\ p \in Places /\ "search" \in Chains
  BY <1>1, AtWork, PlacesMade DEF Chains
<1>3. m.driver \in Drivers /\ creation[t] # "none"
  BY <1>1, <1>2, MessageFields DEF SoundWork, Sound
<1>4. Holds("search", t, p)
  BY <1>1 DEF Holds, ChainOfStep
<1>5. ~Taken(t)
  <2>1. Timely("search", t, p)
    BY <1>2, <1>4 DEF Calm, EndsAreTimely
  <2> QED BY <1>1, <2>1 DEF Timely, Unassigned
<1>6. trips[t].status = "Pending"
  <2>1. trips[t].status \in {"none", "Pending", "accepted", "payed"}
    BY <1>2 DEF Inv, TypeOK
  <2> QED BY <1>2, <1>3, <1>5, <2>1 DEF CreatedIsStored, Taken
<1>7. /\ trips' = [trips EXCEPT ![t] = [status |-> "accepted", driver |-> m.driver]]
      /\ Goto(g, "reread")
  <2>1. m.driver # None
    BY <1>3, TripFlowAssumption
  <2>2. Updated(t, "accepted", m.driver) = [status |-> "accepted", driver |-> m.driver]
    BY <2>1 DEF Updated
  <2>3. Updated(t, "accepted", m.driver) # trips[t]
    BY <1>6, <2>2
  <2> QED BY <2>2, <2>3 DEF Assign, UpdateTrip
<1> QED BY <1>3, <1>4, <1>6, <1>7

\* The first report of the payment finds the trip accepted, and settles it.
LEMMA SettlePays ==
  ASSUME Inv, Calm, NEW g \in Goroutines, Settle(g)
  PROVE  LET t == work[g].msg.trip IN
         /\ Holds("payment", t, <<"work", g, 1>>)
         /\ trips[t].status = "accepted"
         /\ trips' = [trips EXCEPT ![t].status = "payed"]
         /\ Goto(g, "ack")
PROOF
<1> DEFINE m == work[g].msg
           t == m.trip
           p == <<"work", g, 1>>
<1>1. work[g].step = "settle"
  BY DEF Settle, At
<1>2. /\ m \in Message /\ t \in Trips /\ SoundWork(work[g]) /\ Sound(m)
      /\ p \in Places /\ "payment" \in Chains
  BY <1>1, AtWork, PlacesMade DEF Chains
<1>3. Taken(t)
  BY <1>1, <1>2 DEF SoundWork, Sound, Inv, TripIsSound
<1>4. Holds("payment", t, p)
  BY <1>1 DEF Holds, ChainOfStep
<1>5. trips[t].status = "accepted"
  <2>1. Timely("payment", t, p)
    BY <1>2, <1>4 DEF Calm, EndsAreTimely
  <2> QED BY <1>3, <2>1 DEF Timely, Taken
<1>6. /\ trips' = [trips EXCEPT ![t].status = "payed"]
      /\ Goto(g, "ack")
  <2>1. trips[t] \in [status : {"none", "Pending", "accepted", "payed"},
                      driver : Drivers \cup {None}]
    BY <1>2 DEF Inv, TypeOK
  <2>2. Updated(t, "payed", None) = [status |-> "payed", driver |-> trips[t].driver]
    BY DEF Updated
  <2>3. Updated(t, "payed", None) = [trips[t] EXCEPT !.status = "payed"]
    BY <2>1, <2>2
  <2>4. Updated(t, "payed", None) # trips[t]
    BY <1>5, <2>2
  <2>5. trips' = [trips EXCEPT ![t] = Updated(t, "payed", None)] /\ Goto(g, "ack")
    BY <2>4 DEF Settle, UpdateTrip
  <2> QED BY <2>3, <2>5
<1> QED BY <1>4, <1>5, <1>6

\* Storing a driver: the search stays where it is, past asking and unassigned.
LEMMA AssignCalm ==
  ASSUME Inv, CreatedIsStored, Calm, NEW g \in Goroutines, Assign(g)
  PROVE  Calm'
PROOF
<1>0. PICK m \in Message, t \in Trips :
        m = work[g].msg /\ t = m.trip /\ work[g] \in Work
  BY AtWork DEF Assign, At
<1> DEFINE p == <<"work", g, 1>>
<1>1. /\ work[g].step = "assign" /\ Goto(g, "reread")
      /\ trips' = [trips EXCEPT ![t] = [status |-> "accepted", driver |-> m.driver]]
      /\ Holds("search", t, p)
      /\ UNCHANGED <<creation, queue, dlq, pages, stripe, accepters>>
  BY <1>0, AssignTakes DEF Assign, At
<1>2. p \in Places /\ "search" \in Chains
  BY PlacesMade DEF Chains
<1>3. /\ work'[g].step = "reread" /\ work'[g].msg = m
      /\ \A h \in Goroutines : h # g => work'[h] = work[h]
  BY <1>0, <1>1 DEF Goto, Work, Inv, TypeOK
<1>4. /\ trips'[t].status = "accepted"
      /\ \A u \in Trips : u # t => trips'[u] = trips[u]
  BY <1>1 DEF Inv, TypeOK
<1>5. SourcesDry
  BY <1>1 DEF SourcesDry, stripe
<1>6. ASSUME NEW e \in Chains, NEW u \in Trips, NEW r \in Places, Holds(e, u, r)'
      PROVE  Holds(e, u, r) /\ (r # p => NotEarlier(r))
  <2>1. CASE r = p
    BY <1>0, <1>1, <1>3, <1>6, <2>1 DEF Holds, ChainOfStep, Chains
  <2>2. CASE r # p /\ r[1] \in {"source", "work", "page"}
    BY <1>1, <1>3, <1>5, <1>6, <2>2, OthersHold DEF pages
  <2>3. CASE r[1] \in {"queue", "session"}
    BY <1>1, <1>6, <2>3 DEF Holds, NotEarlier, Asking, Unassigned, stripe
  <2> QED BY <2>1, <2>2, <2>3, PlaceKinds
<1>7. ASSUME NEW e \in Chains, NEW u \in Trips, NEW r \in Places, Holds(e, u, r)'
      PROVE  Timely(e, u, r)'
  <2>1. Holds(e, u, r) /\ Timely(e, u, r) /\ (r # p => NotEarlier(r))
    BY <1>6, <1>7 DEF Calm, EndsAreTimely
  <2>2. CASE u # t
    <3>1. r # p
      BY <1>0, <2>1, <2>2 DEF Holds
    <3> QED BY <1>1, <1>4, <2>1, <2>2, <3>1 DEF Timely, NotEarlier, Taken
  <2>3. CASE u = t /\ e = "search"
    <3>1. r = p
      BY <1>1, <1>2, <2>1, <2>3 DEF Calm, OneEnd
    <3>2. ~Asking(p)' /\ ~Unassigned(p)'
      BY <1>3 DEF Asking, Unassigned
    <3> QED BY <2>3, <3>1, <3>2 DEF Timely
  <2>4. CASE u = t /\ e = "payment"
    BY <1>4, <2>4 DEF Timely
  <2> QED BY <2>2, <2>3, <2>4 DEF Chains
<1>8. OneEnd' /\ EndsAreTimely'
  BY <1>6, <1>7 DEF Calm, OneEnd, EndsAreTimely
<1>9. OneAccepter' /\ NoneRejected'
  BY <1>1, <1>3 DEF Calm, OneAccepter, NoneRejected
<1> QED BY <1>8, <1>9 DEF Calm

\* Storing the payment ends the chain of its report.
LEMMA SettleCalm ==
  ASSUME Inv, Calm, NEW g \in Goroutines, Settle(g)
  PROVE  Calm'
PROOF
<1>0. PICK m \in Message, t \in Trips :
        m = work[g].msg /\ t = m.trip /\ work[g] \in Work
  BY AtWork DEF Settle, At
<1> DEFINE p == <<"work", g, 1>>
<1>1. /\ work[g].step = "settle" /\ Goto(g, "ack")
      /\ trips' = [trips EXCEPT ![t].status = "payed"]
      /\ Holds("payment", t, p) /\ trips[t].status = "accepted"
      /\ UNCHANGED <<creation, queue, dlq, pages, stripe, accepters>>
  BY <1>0, SettlePays DEF Settle, At
<1>2. p \in Places /\ "payment" \in Chains
  BY PlacesMade DEF Chains
<1>3. /\ work'[g].step = "ack"
      /\ \A h \in Goroutines : h # g => work'[h] = work[h]
      /\ \A e \in Chains, u \in Trips : ~Holds(e, u, p)'
  BY <1>1, AckHolds
<1>4. \A u \in Trips : u # t => trips'[u] = trips[u]
  BY <1>1 DEF Inv, TypeOK
<1>5. SourcesDry
  BY <1>1 DEF SourcesDry, stripe
<1>6. ASSUME NEW e \in Chains, NEW u \in Trips, NEW r \in Places, Holds(e, u, r)'
      PROVE  Holds(e, u, r) /\ NotEarlier(r) /\ r # p
  <2>1. r # p
    BY <1>3, <1>6
  <2>2. CASE r[1] \in {"source", "work", "page"}
    BY <1>1, <1>3, <1>5, <1>6, <2>1, <2>2, OthersHold DEF pages
  <2>3. CASE r[1] \in {"queue", "session"}
    BY <1>1, <1>6, <2>1, <2>3 DEF Holds, NotEarlier, Asking, Unassigned, stripe
  <2> QED BY <2>2, <2>3, PlaceKinds
<1>7. ASSUME NEW e \in Chains, NEW u \in Trips, NEW r \in Places, Holds(e, u, r)'
      PROVE  Timely(e, u, r)'
  <2>1. Holds(e, u, r) /\ Timely(e, u, r) /\ NotEarlier(r) /\ r # p
    BY <1>6, <1>7 DEF Calm, EndsAreTimely
  <2>2. CASE u # t
    BY <1>1, <1>4, <2>1, <2>2 DEF Timely, NotEarlier, Taken
  <2>3. CASE u = t /\ e = "search"
    <3>1. Taken(t)
      BY <1>1 DEF Taken
    <3>2. ~Asking(r) /\ ~Unassigned(r)
      BY <2>1, <2>3, <3>1 DEF Timely, Unassigned
    <3> QED BY <2>1, <2>3, <3>2 DEF Timely, NotEarlier
  <2>4. ~(u = t /\ e = "payment")
    BY <1>1, <1>2, <2>1 DEF Calm, OneEnd
  <2> QED BY <2>2, <2>3, <2>4 DEF Chains
<1>8. OneEnd' /\ EndsAreTimely'
  BY <1>6, <1>7 DEF Calm, OneEnd, EndsAreTimely
<1>9. OneAccepter' /\ NoneRejected'
  BY <1>1, <1>3 DEF Calm, OneAccepter, NoneRejected
<1> QED BY <1>8, <1>9 DEF Calm

\* Every step of a goroutine.
LEMMA GoroutineCalm ==
  ASSUME Inv, CreatedIsStored, Calm, NEW g \in Goroutines, Goroutine(g), faults' = 0
  PROVE  Calm'
PROOF
<1>1. ~StepFails(g)
  BY DEF StepFails, Faulty, Inv, TypeOK
<1>2. ~Reject(g)
  BY DEF Reject, At, Calm, NoneRejected
<1> QED BY <1>1, <1>2, TakeCalm, PublisherCalm, StayCalm, OpenSessionCalm, AssignCalm,
           SettleCalm DEF Goroutine, Handle

-----------------------------------------------------------------------------
(* trip-service, the gateway and the people *)

\* A trip is created: its search is yet to begin.
LEMMA CreationCalm ==
  ASSUME Inv, Calm, NEW t \in Trips, Creation(t), faults' = 0
  PROVE  Calm'
PROOF
<1>1. ~PublishTripCreatedFails(t)
  BY DEF PublishTripCreatedFails, Faulty, Inv, TypeOK
<1>2. CASE InsertTrip(t)
  <2>1. /\ creation[t] = "none" /\ trips[t].status = "none"
        /\ trips'[t].status = "Pending"
        /\ \A u \in Trips : u # t => trips'[u] = trips[u]
        /\ creation'[t] = "inserted"
        /\ \A u \in Trips : u # t => creation'[u] = creation[u]
        /\ UNCHANGED <<queue, dlq, work, pages, stripe, accepters>>
    BY <1>2 DEF InsertTrip, Inv, TypeOK, TripIsSound
  <2>2. \A e \in Chains, u \in Trips : \A r \in Places :
          /\ Holds(e, u, r)' => Holds(e, u, r)
          /\ NotEarlier(r)
    BY <2>1 DEF Holds, NotEarlier, Asking, Unassigned, pages, stripe
  <2>3. ASSUME NEW e \in Chains, NEW u \in Trips, NEW r \in Places, Holds(e, u, r)'
        PROVE  Timely(e, u, r)'
    <3>1. Timely(e, u, r) /\ NotEarlier(r)
      BY <2>2, <2>3 DEF Calm, EndsAreTimely
    <3> QED BY <2>1, <3>1 DEF Timely, NotEarlier, Taken
  <2>4. OneEnd' /\ EndsAreTimely'
    BY <2>2, <2>3 DEF Calm, OneEnd, EndsAreTimely
  <2> QED BY <2>1, <2>4 DEF Calm, OneAccepter, NoneRejected
<1>3. CASE PublishTripCreated(t)
  <2> DEFINE m == Msg(TripEventCreated, t, None)
             p == <<"source", t, 1>>
  <2>1. /\ creation[t] = "inserted" /\ creation' = [creation EXCEPT ![t] = "announced"]
        /\ Publish(m)
        /\ UNCHANGED <<trips, dlq, work, pages, stripe, accepters>>
    BY <1>3 DEF PublishTripCreated
  <2>2. m \in Message /\ m.key = TripEventCreated /\ m.trip = t
    BY MsgIsMessage
  <2>3. ChainOfKey(m.key) = "search" /\ "search" \in Chains
    BY <2>2 DEF ChainOfKey, Chains
  <2>4. p \in Places /\ Holds("search", t, p) /\ Asking(p) /\ p[1] # "queue"
    BY <2>1, PlacesMade DEF Holds, Asking
  <2>5. /\ creation'[t] = "announced"
        /\ \A u \in Trips : u # t => creation'[u] = creation[u]
    BY <2>1 DEF Inv, TypeOK
  <2>6. ASSUME NEW e \in Chains, NEW u \in Trips, NEW r \in Places,
               r[1] # "queue", Holds(e, u, r)'
        PROVE  Holds(e, u, r) /\ NotEarlier(r) /\ ~(e = "search" /\ u = t /\ r = p)
    <3>1. SourcesDry
      BY <2>1, <2>5 DEF SourcesDry, stripe
    <3>2. Holds(e, u, r) /\ NotEarlier(r)
      BY <2>1, <2>6, <3>1, HeldBefore DEF Inv, pages, stripe
    <3>3. ~(e = "search" /\ u = t /\ r = p)
      BY <2>5, <2>6 DEF Holds
    <3> QED BY <3>2, <3>3
  <2>7. NoneRejected'
    BY <2>1 DEF Calm, NoneRejected
  <2> HIDE DEF m, p
  <2> QED BY <2>1, <2>2, <2>3, <2>4, <2>6, <2>7, PublishCalm
<1> QED BY <1>1, <1>2, <1>3 DEF Creation

\* A step of a page or a websocket that shows no request and answers none.
LEMMA PageCalm ==
  ASSUME Inv, Calm, \A d \in Drivers : offer'[d] \in {offer[d], None},
         UNCHANGED <<trips, creation, queue, dlq, work, sessions, accepters>>,
         \A t \in Trips : payment'[t] # "reported" => payment[t] # "reported"
  PROVE  Calm'
PROOF
<1>1. SourcesDry
  BY DEF SourcesDry
<1>2. ASSUME NEW e \in Chains, NEW u \in Trips, NEW r \in Places, Holds(e, u, r)'
      PROVE  Holds(e, u, r) /\ NotEarlier(r)
  <2>1. CASE r[1] = "page"
    <3>1. r[2] \in Drivers /\ offer'[r[2]] = u
      BY <1>2, <2>1, PlaceKinds DEF Holds
    <3>2. offer'[r[2]] = offer[r[2]]
      BY <3>1, TripFlowAssumption
    <3> QED BY <1>2, <2>1, <3>2 DEF Holds, NotEarlier, Asking, Unassigned
  <2>2. CASE r[1] # "page"
    <3>1. r[1] = "queue" => queue'[r[2]] \in Nat /\ queue'[r[2]] <= queue[r[2]]
      BY PlaceKinds DEF Inv, TypeOK
    <3> QED BY <1>1, <1>2, <2>2, <3>1, HeldBefore DEF Inv
  <2> QED BY <2>1, <2>2
<1>3. NoneRejected'
  BY DEF Calm, NoneRejected
<1> QED BY <1>2, <1>3, NoMove

\* The driver's answer carries the search on; the first acceptance is the only one.
LEMMA AnswerCalm ==
  ASSUME Inv, Calm, NEW d \in Drivers, Accept(d) \/ Decline(d)
  PROVE  Calm'
PROOF
<1> DEFINE p == <<"page", d, 1>>
<1>1. PICK t \in Trips, key \in {DriverCmdTripAccept, DriverCmdTripDecline} :
        /\ offer[d] = t /\ Publish(Msg(key, t, d))
        /\ offer' = [offer EXCEPT ![d] = None]
        /\ UNCHANGED <<trips, creation, dlq, work, stripe>>
        /\ \/ key = DriverCmdTripAccept /\ accepters' = [accepters EXCEPT ![t] = @ \cup {d}]
           \/ key = DriverCmdTripDecline /\ accepters' = accepters
  <2>1. offer[d] \in Trips
    BY DEF Accept, Decline, Answer, Inv, TypeOK
  <2> QED BY <2>1 DEF Accept, Decline, Answer
<1> DEFINE m == Msg(key, t, d)
           q == <<"queue", m, 1>>
<1>2. m \in Message /\ m.key = key /\ m.trip = t
  BY MsgIsMessage
<1>3. ChainOfKey(m.key) = "search" /\ "search" \in Chains
  BY <1>2 DEF ChainOfKey, Chains
<1>4. p \in Places /\ Holds("search", t, p) /\ Asking(p) /\ Unassigned(p) /\ p[1] # "queue"
  BY <1>1, PlacesMade DEF Holds, Asking, Unassigned
<1>5. offer'[d] = None /\ \A f \in Drivers : f # d => offer'[f] = offer[f]
  BY <1>1 DEF Inv, TypeOK
<1>6. ASSUME NEW e \in Chains, NEW u \in Trips, NEW r \in Places,
             r[1] # "queue", Holds(e, u, r)'
      PROVE  Holds(e, u, r) /\ NotEarlier(r) /\ r # p
  <2>1. r # p
    BY <1>5, <1>6, TripFlowAssumption DEF Holds
  <2>2. r[1] = "page" => offer'[r[2]] = offer[r[2]]
    BY <1>4, <1>5, <2>1, PlaceKinds, SamePlace
  <2>3. SourcesDry
    BY <1>1 DEF SourcesDry, stripe
  <2> QED BY <1>1, <1>6, <2>1, <2>2, <2>3, HeldBefore DEF Inv, stripe
<1>7. NoneRejected'
  BY <1>1 DEF Calm, NoneRejected
<1>8. \A e \in Chains, u \in Trips : \A r \in Places :
        r[1] # "queue" /\ Holds(e, u, r)' =>
          Holds(e, u, r) /\ NotEarlier(r) /\ ~(e = "search" /\ u = t /\ r = p)
  BY <1>6
<1> HIDE DEF p
<1>9. CASE key = DriverCmdTripDecline
  <2> HIDE DEF m
  <2>1. Publish(m)
    BY <1>1 DEF m
  <2> QED BY <1>1, <1>2, <1>3, <1>4, <1>7, <1>8, <1>9, <2>1, PublishCalm
<1>10. CASE key = DriverCmdTripAccept
  <2>1. \A e \in Chains, u \in Trips : \A r \in Places : Holds(e, u, r)' =>
           \/ e = "search" /\ u = t /\ r = q
           \/ /\ Holds(e, u, r) /\ NotEarlier(r)
              /\ ~(e = "search" /\ u = t /\ r = p)
    <3> HIDE DEF m
    <3>1. Publish(m)
      BY <1>1 DEF m
    <3> QED BY <1>2, <1>3, <1>4, <1>8, <3>1, PublishMoves
  <2>2. accepters[t] = {} /\ ~Taken(t)
    BY <1>3, <1>4 DEF Calm, EndsAreTimely, Timely
  <2>3. /\ accepters'[t] = {d}
        /\ \A u \in Trips : u # t => accepters'[u] = accepters[u]
    BY <1>1, <1>10, <2>2 DEF Inv, TypeOK
  <2>4. OneAccepter'
    BY <2>3 DEF Calm, OneAccepter
  <2>5. ~Asking(q)' /\ q \in Places
    BY <1>2, <1>10, PlacesMade DEF Asking
  <2> HIDE DEF m, q
  <2>6. ASSUME NEW e \in Chains, NEW u \in Trips, NEW r \in Places, Holds(e, u, r)'
        PROVE  Timely(e, u, r)'
    <3>1. CASE e = "search" /\ u = t
      <4>1. r = q
        BY <1>3, <1>4, <2>1, <2>6, <3>1 DEF Calm, OneEnd
      <4> QED BY <1>1, <2>2, <2>5, <3>1, <4>1 DEF Timely, Taken
    <3>2. CASE ~(e = "search" /\ u = t)
      <4>1. Timely(e, u, r) /\ NotEarlier(r)
        BY <2>1, <2>6, <3>2 DEF Calm, EndsAreTimely
      <4> QED BY <1>1, <2>3, <3>2, <4>1 DEF Timely, NotEarlier, Taken, Chains
    <3> QED BY <3>1, <3>2
  <2> QED BY <1>3, <1>4, <1>7, <2>1, <2>4, <2>5, <2>6, MoveEnd
<1> QED BY <1>9, <1>10

\* Every step of a driver.
LEMMA DriverCalm ==
  ASSUME Inv, Calm, NEW d \in Drivers, Driver(d), faults' = 0
  PROVE  Calm'
PROOF
<1>1. ~UnregisterFails(d) /\ ~AnswerLost(d)
  BY DEF UnregisterFails, AnswerLost, Faulty, Inv, TypeOK
<1>2. CASE Connect(d) \/ Register(d) \/ Disconnect(d) \/ Unregister(d)
  <2>1. /\ UNCHANGED <<trips, creation, queue, dlq, work, stripe, accepters>>
        /\ offer' = offer \/ offer' = [offer EXCEPT ![d] = None]
    BY <1>2 DEF Connect, Register, Disconnect, Unregister
  <2>2. \A e \in Drivers : offer'[e] \in {offer[e], None}
    BY <2>1 DEF Inv, TypeOK
  <2> QED BY <2>1, <2>2, PageCalm DEF stripe
<1> QED BY <1>1, <1>2, AnswerCalm DEF Driver

\* A request comes to the page that shows it, or is lost; an event for the rider
\* is on no chain.
LEMMA GatewayCalm ==
  ASSUME Inv, Calm, NEW m \in Message, Gateway(m)
  PROVE  Calm'
PROOF
<1>1. /\ queue[m] > 0 /\ queue' = [queue EXCEPT ![m] = @ - 1]
      /\ UNCHANGED <<trips, creation, dlq, work, stripe, accepters>>
  BY DEF Gateway, DeliverRequest, DeliverToRider
<1>2. /\ queue \in [Message -> Nat] /\ queue' \in [Message -> Nat]
      /\ \A n \in Message : queue'[n] <= queue[n]
  <2>1. queue \in [Message -> Nat]
    BY DEF Inv, TypeOK
  <2> QED BY <1>1, <2>1
<1>3. SourcesDry
  BY <1>1 DEF SourcesDry, stripe
<1>4. NoneRejected'
  BY <1>1 DEF Calm, NoneRejected
<1>5. ASSUME NEW e \in Chains, NEW u \in Trips, NEW r \in Places, Holds(e, u, r)',
             r[1] = "page" => offer'[r[2]] = offer[r[2]]
      PROVE  Holds(e, u, r) /\ NotEarlier(r)
  <2>1. r[1] = "queue" => queue'[r[2]] \in Nat /\ queue'[r[2]] <= queue[r[2]]
    BY <1>2, PlaceKinds
  <2> QED BY <1>1, <1>3, <1>5, <2>1, HeldBefore DEF Inv, stripe
<1>6. CASE offer' = offer
  <2>1. \A e \in Chains, u \in Trips : \A r \in Places :
          Holds(e, u, r)' => Holds(e, u, r) /\ NotEarlier(r)
    BY <1>5, <1>6
  <2> QED BY <1>1, <1>4, <2>1, NoMove
<1>7. CASE m.key = DriverCmdTripRequest /\ offer' = [offer EXCEPT ![m.driver] = m.trip]
  <2> DEFINE d == m.driver
             t == m.trip
             p == <<"queue", m, 1>>
             q == <<"page", d, 1>>
  <2>1. ChainOfKey(m.key) = "search" /\ "search" \in Chains
    BY <1>7 DEF ChainOfKey, Chains
  <2>2. d \in Drivers /\ t \in Trips /\ p \in Places /\ q \in Places
    BY <1>7, MessageFields, PlacesMade
  <2>3. Holds("search", t, p) /\ queue'[m] = 0
    BY <1>1, <2>1, TakenFromQueue
  <2>4. offer'[d] = t /\ \A f \in Drivers : f # d => offer'[f] = offer[f]
    BY <1>7, <2>2 DEF Inv, TypeOK
  <2>5. Asking(p)
    BY <1>7 DEF Asking
  <2>6. ASSUME NEW e \in Chains, NEW u \in Trips, NEW r \in Places, Holds(e, u, r)'
        PROVE  \/ e = "search" /\ u = t /\ r = q
               \/ /\ Holds(e, u, r) /\ NotEarlier(r)
                  /\ ~(e = "search" /\ u = t /\ r = p)
    <3>1. CASE r = q
      BY <2>4, <2>6, <3>1, TripFlowAssumption DEF Holds
    <3>2. CASE r # q
      <4>1. r[1] = "page" => offer'[r[2]] = offer[r[2]]
        BY <2>2, <2>4, <3>2, PlaceKinds, SamePlace
      <4>2. r # p
        BY <2>3, <2>6 DEF Holds
      <4> QED BY <1>5, <2>6, <4>1, <4>2
    <3> QED BY <3>1, <3>2
  <2>7. (Asking(q)' => Asking(p)) /\ (Unassigned(q)' => Unassigned(p))
    BY <2>5 DEF Unassigned
  <2> HIDE DEF d, t, p, q
  <2> QED BY <1>1, <1>4, <2>1, <2>2, <2>3, <2>6, <2>7, Move
<1> QED BY <1>6, <1>7 DEF Gateway, DeliverRequest, DeliverToRider

\* A payment, and its report.
LEMMA RiderCalm ==
  ASSUME Inv, Calm, NEW t \in Trips, Rider(t), faults' = 0
  PROVE  Calm'
PROOF
<1>1. ~WebhookRepeated(t)
  BY DEF WebhookRepeated, Faulty, Inv, TypeOK
<1>2. CASE RiderLeaves(t) \/ RiderPays(t)
  <2>1. /\ UNCHANGED <<trips, creation, queue, dlq, work, offer, sessions, accepters>>
        /\ \/ payment' = payment
           \/ payment[t] = "none" /\ payment' = [payment EXCEPT ![t] = "paid"]
    BY <1>2 DEF RiderLeaves, RiderPays, stripe
  <2>2. \A u \in Trips : payment'[u] # "reported" => payment[u] # "reported"
    BY <2>1 DEF Inv, TypeOK
  <2> QED BY <2>1, <2>2, PageCalm
<1>3. CASE Webhook(t) /\ webhookKey
  <2> DEFINE m == Msg(PaymentEventSuccess, t, None)
             p == <<"source", t, 1>>
  <2>1. /\ payment[t] = "paid" /\ Publish(m)
        /\ payment' = [payment EXCEPT ![t] = "reported"]
        /\ UNCHANGED <<trips, creation, dlq, work, offer, sessions, accepters>>
    BY <1>3 DEF Webhook, pages
  <2>2. m \in Message /\ m.key = PaymentEventSuccess /\ m.trip = t
    BY MsgIsMessage
  <2>3. ChainOfKey(m.key) = "payment" /\ "payment" \in Chains
    BY <2>2 DEF ChainOfKey, Chains
  <2>4. p \in Places /\ Holds("payment", t, p) /\ p[1] # "queue"
    BY <2>1, PlacesMade DEF Holds
  <2>5. /\ payment'[t] = "reported"
        /\ \A u \in Trips : u # t => payment'[u] = payment[u]
    BY <2>1 DEF Inv, TypeOK
  <2>6. ASSUME NEW e \in Chains, NEW u \in Trips, NEW r \in Places,
               r[1] # "queue", Holds(e, u, r)'
        PROVE  Holds(e, u, r) /\ NotEarlier(r) /\ ~(e = "payment" /\ u = t /\ r = p)
    <3>1. SourcesDry
      BY <2>1, <2>5 DEF SourcesDry
    <3>2. Holds(e, u, r) /\ NotEarlier(r)
      BY <2>1, <2>6, <3>1, HeldBefore DEF Inv
    <3>3. ~(e = "payment" /\ u = t /\ r = p)
      BY <2>5, <2>6 DEF Holds
    <3> QED BY <3>2, <3>3
  <2>7. NoneRejected'
    BY <2>1 DEF Calm, NoneRejected
  <2> HIDE DEF m, p
  <2> QED BY <2>1, <2>2, <2>3, <2>4, <2>6, <2>7, PublishCalm
<1>4. CASE Webhook(t) /\ ~webhookKey
  <2>1. /\ UNCHANGED <<trips, creation, queue, dlq, work, offer, sessions, accepters>>
        /\ payment' = [payment EXCEPT ![t] = "reported"]
    BY <1>4 DEF Webhook, pages
  <2>2. \A u \in Trips : payment'[u] # "reported" => payment[u] # "reported"
    BY <2>1 DEF Inv, TypeOK
  <2> QED BY <2>1, <2>2, PageCalm
<1> QED BY <1>1, <1>2, <1>3, <1>4 DEF Rider

-----------------------------------------------------------------------------
(* The theorems *)

\* Faults are not taken back.
LEMMA FaultsStep == [Next]_vars => faults' \in {faults, faults + 1}
PROOF
<1> SUFFICES ASSUME [Next]_vars PROVE faults' \in {faults, faults + 1}
  OBVIOUS
<1>1. CASE \E t \in Trips : Creation(t) \/ Rider(t)
  BY <1>1 DEF Creation, InsertTrip, PublishTripCreated, PublishTripCreatedFails, Faulty,
     Rider, RiderLeaves, RiderPays, Webhook, WebhookRepeated
<1>2. CASE \E d \in Drivers : Driver(d)
  BY <1>2 DEF Driver, Connect, Register, Disconnect, Unregister, UnregisterFails,
     Accept, Decline, Answer, AnswerLost, Faulty
<1>3. CASE \E g \in Goroutines : Goroutine(g)
  BY <1>3 DEF Goroutine, Handle, Take, StepFails, Faulty, Ack, Reject, Match, Assign,
     Settle, Reread, Announce, Charge, Reoffer, OpenSession, Notify
<1>4. CASE \E m \in Message : Gateway(m) \/ PublicationLost(m)
  BY <1>4 DEF Gateway, DeliverRequest, DeliverToRider, PublicationLost, Faulty
<1>5. CASE (\E s \in Services : Crash(s)) \/ CrashGateway
  BY <1>5 DEF Crash, CrashGateway
<1>6. CASE UNCHANGED vars
  BY <1>6 DEF vars
<1> QED BY <1>1, <1>2, <1>3, <1>4, <1>5, <1>6 DEF Next

LEMMA FaultsStay == Inv /\ [Next]_vars /\ faults' = 0 => faults = 0
PROOF
<1> QED BY FaultsStep DEF Inv, TypeOK

\* In a step without fault each chain keeps one end at most.
LEMMA NextCalm == Inv /\ CreatedIsStored /\ Calm /\ [Next]_vars /\ faults' = 0 => Calm'
PROOF
<1> SUFFICES ASSUME Inv, CreatedIsStored, Calm, [Next]_vars, faults' = 0 PROVE Calm'
  OBVIOUS
<1>1. CASE \E t \in Trips : Creation(t) \/ Rider(t)
  BY <1>1, CreationCalm, RiderCalm
<1>2. CASE \E d \in Drivers : Driver(d)
  BY <1>2, DriverCalm
<1>3. CASE \E g \in Goroutines : Goroutine(g)
  BY <1>3, GoroutineCalm
<1>4. CASE \E m \in Message : Gateway(m) \/ PublicationLost(m)
  <2>1. \A m \in Message : ~PublicationLost(m)
    BY DEF PublicationLost, Faulty, Inv, TypeOK
  <2> QED BY <1>4, <2>1, GatewayCalm
<1>5. ~(\E s \in Services : Crash(s)) /\ ~CrashGateway
  BY DEF Crash, CrashGateway, Inv, TypeOK
<1>6. CASE UNCHANGED vars
  BY <1>6, PageCalm DEF vars, pages, stripe
<1> QED BY <1>1, <1>2, <1>3, <1>4, <1>5, <1>6 DEF Next

\* In the beginning each chain is at its source.
LEMMA InitCalm == Init => Calm /\ CreatedIsStored
PROOF
<1> SUFFICES ASSUME Init PROVE Calm /\ CreatedIsStored
  OBVIOUS
<1>1. ASSUME NEW c \in Chains, NEW t \in Trips, NEW r \in Places, Holds(c, t, r)
      PROVE  r = <<"source", t, 1>>
  <2>1. CASE r[1] = "source"
    <3>1. r[2] = t /\ r[3] = 1
      BY <1>1, <2>1, PlaceKinds DEF Holds
    <3> QED BY <2>1, <3>1, PlacesMade, SamePlace
  <2>2. r[1] # "queue"
    <3>1. r[1] = "queue" => queue[r[2]] = 0 /\ r[3] \in {1, 2}
      BY PlaceKinds DEF Init
    <3> QED BY <1>1, <3>1 DEF Holds
  <2>3. r[1] # "work"
    <3>1. r[1] = "work" => work[r[2]].step = "idle"
      BY PlaceKinds DEF Init, Idle
    <3> QED BY <1>1, <3>1 DEF Holds, ChainOfStep, Chains
  <2>4. r[1] # "page"
    <3>1. r[1] = "page" => offer[r[2]] = None
      BY PlaceKinds DEF Init
    <3> QED BY <1>1, <3>1, TripFlowAssumption DEF Holds
  <2>5. r[1] # "session"
    <3>1. r[1] = "session" => sessions[t][r[2]] = 0 /\ r[3] \in {1, 2}
      BY PlaceKinds DEF Init
    <3> QED BY <1>1, <3>1 DEF Holds
  <2> QED BY <2>1, <2>2, <2>3, <2>4, <2>5, PlaceKinds
<1>2. OneEnd
  BY <1>1 DEF OneEnd
<1>3. EndsAreTimely
  BY DEF Init, EndsAreTimely, Timely, Taken
<1>4. OneAccepter /\ NoneRejected /\ CreatedIsStored
  BY DEF Init, OneAccepter, NoneRejected, CreatedIsStored, Idle
<1> QED BY <1>2, <1>3, <1>4 DEF Calm

\* In every reachable state before the first fault each trip has at most one
\* search and one report of its payment under way.
THEOREM CalmUnlessFaults == Spec => [](faults = 0 => Calm)
PROOF
<1>1. Init => CreatedIsStored /\ (faults = 0 => Calm)
  BY InitCalm
<1>2. Inv /\ CreatedIsStored /\ (faults = 0 => Calm) /\ [Next]_vars
        => CreatedIsStored' /\ (faults = 0 => Calm)'
  BY StoredStays, FaultsStay, NextCalm
<1> QED BY <1>1, <1>2, Invariance, PTL DEF Spec

\* As long as nothing has failed, one driver at most has accepted a trip, one
\* Stripe session at most is open for it, and nothing is dead-lettered.
THEOREM OncePerTrip == Spec => []ExactlyOnceUnlessFaults
PROOF
<1>1. Inv /\ (faults = 0 => Calm) => ExactlyOnceUnlessFaults
  <2> SUFFICES ASSUME Inv, Calm, NEW t \in Trips
               PROVE  /\ Cardinality(accepters[t]) <= 1
                      /\ Cardinality(Sessions(t)) <= 1
                      /\ \A d \in Drivers : sessions[t][d] <= 1
    BY DEF ExactlyOnceUnlessFaults, Calm, NoneRejected
  <2>1. ASSUME NEW S, \A d, e \in S : d = e PROVE Cardinality(S) <= 1
    <3>1. CASE S = {}
      BY <3>1, FS_EmptySet
    <3>2. ASSUME NEW d \in S PROVE Cardinality(S) <= 1
      <4>1. S = {d}
        BY <2>1, <3>2
      <4> QED BY <4>1, FS_Singleton
    <3> QED BY <3>1, <3>2
  <2>2. Cardinality(accepters[t]) <= 1
    BY <2>1 DEF Calm, OneAccepter
  <2>3. ASSUME NEW d \in Drivers, NEW k \in {1, 2}, sessions[t][d] >= k
        PROVE  <<"session", d, k>> \in Places /\ Holds("search", t, <<"session", d, k>>)
    BY <2>3, PlacesMade DEF Holds
  <2>4. \A p, q \in Places : Holds("search", t, p) /\ Holds("search", t, q) => p = q
    BY DEF Calm, OneEnd, Chains
  <2>5. sessions[t] \in [Drivers -> Nat]
    BY DEF Inv, TypeOK
  <2>6. \A d \in Drivers : sessions[t][d] <= 1
    <3> SUFFICES ASSUME NEW d \in Drivers, sessions[t][d] > 1 PROVE FALSE
      BY <2>5
    <3>1. sessions[t][d] >= 1 /\ sessions[t][d] >= 2
      BY <2>5
    <3>2. <<"session", d, 1>> = <<"session", d, 2>>
      BY <2>3, <2>4, <3>1
    <3> QED BY <3>2
  <2>7. \A d, e \in Sessions(t) : d = e
    <3> SUFFICES ASSUME NEW d \in Drivers, NEW e \in Drivers,
                        sessions[t][d] > 0, sessions[t][e] > 0
                 PROVE  d = e
      BY DEF Sessions
    <3>1. sessions[t][d] >= 1 /\ sessions[t][e] >= 1
      BY <2>5
    <3>2. <<"session", d, 1>> = <<"session", e, 1>>
      BY <2>3, <2>4, <3>1
    <3> QED BY <3>2
  <2>8. Cardinality(Sessions(t)) <= 1
    BY <2>1, <2>7
  <2> QED BY <2>2, <2>6, <2>8
<1> QED BY <1>1, Invariance, CalmUnlessFaults, PTL

\* What a step does to the stored trips, TripLifecycle does, or nothing.
LEMMA NextLives ==
  Inv /\ CreatedIsStored /\ Calm /\ [Next]_vars /\ faults' = 0 => [Lifecycle!Next]_trips
PROOF
<1> SUFFICES ASSUME Inv, CreatedIsStored, Calm, Next, faults' = 0, trips' # trips
             PROVE  Lifecycle!Next
  BY DEF vars
<1>1. ASSUME NEW t \in Trips, Creation(t) PROVE Lifecycle!Next
  <2>1. InsertTrip(t)
    BY <1>1 DEF Creation, PublishTripCreated, PublishTripCreatedFails
  <2>2. trips[t].status = "none" /\ trips' = [trips EXCEPT ![t].status = "Pending"]
    BY <2>1 DEF InsertTrip, Inv, TripIsSound
  <2> QED BY <2>2 DEF Lifecycle!Next, Lifecycle!Request
<1>2. ASSUME NEW g \in Goroutines, Assign(g) PROVE Lifecycle!Next
  <2> DEFINE t == work[g].msg.trip
             d == work[g].msg.driver
  <2>1. d \in Drivers /\ trips[t].status = "Pending"
        /\ trips' = [trips EXCEPT ![t] = [status |-> "accepted", driver |-> d]]
    BY <1>2, AssignTakes
  <2>2. t \in Trips
    BY <1>2, AtWork DEF Assign, At
  <2>3. DriverPackage[d] = TripPackage[t]
    <3>1. SoundWork(work[g]) /\ work[g].step = "assign"
      BY <1>2, AtWork DEF Assign, At
    <3>2. d \in accepters[t]
      BY <3>1 DEF SoundWork, Sound
    <3> QED BY <2>2, <3>2 DEF Inv, TripIsSound
  <2>4. Lifecycle!Assign(t, d)
    BY <2>1, <2>3 DEF Lifecycle!Assign
  <2> QED BY <2>1, <2>2, <2>4 DEF Lifecycle!Next
<1>3. ASSUME NEW g \in Goroutines, Settle(g) PROVE Lifecycle!Next
  <2> DEFINE t == work[g].msg.trip
  <2>1. t \in Trips
    BY <1>3, AtWork DEF Settle, At
  <2>2. Lifecycle!Pay(t)
    BY <1>3, SettlePays DEF Lifecycle!Pay
  <2> QED BY <2>1, <2>2 DEF Lifecycle!Next
<1>4. ASSUME NEW g \in Goroutines, Goroutine(g), ~Assign(g), ~Settle(g) PROVE FALSE
  BY <1>4 DEF Goroutine, Handle, Take, StepFails, Ack, Reject, Match, Reread,
     Announce, Charge, Reoffer, OpenSession, Notify
<1>5. ~(\E t \in Trips : Rider(t))
  BY DEF Rider, RiderLeaves, RiderPays, Webhook, WebhookRepeated
<1>6. ~(\E d \in Drivers : Driver(d))
  BY DEF Driver, Connect, Register, Disconnect, Unregister, UnregisterFails,
     Accept, Decline, Answer, AnswerLost
<1>7. ~(\E m \in Message : Gateway(m) \/ PublicationLost(m))
  BY DEF Gateway, DeliverRequest, DeliverToRider, PublicationLost
<1>8. ~(\E s \in Services : Crash(s)) /\ ~CrashGateway
  BY DEF Crash, CrashGateway
<1> QED BY <1>1, <1>2, <1>3, <1>4, <1>5, <1>6, <1>7, <1>8 DEF Next

\* In a run without faults the stored trips live as TripLifecycle says: one driver
\* takes a trip for good, then it is paid for.
THEOREM ImplementsTripLifecycle == Spec /\ [](faults = 0) => LivesLikeATrip
PROOF
<1>1. Init => Lifecycle!Init
  BY DEF Init, Lifecycle!Init
<1>2. Init => CreatedIsStored
  BY InitCalm
<1>3. Inv /\ CreatedIsStored /\ [Next]_vars => CreatedIsStored'
  BY StoredStays
<1>4. Inv /\ CreatedIsStored /\ (faults = 0 => Calm) /\ [Next]_vars
        /\ faults = 0 /\ (faults = 0)' => [Lifecycle!Next]_trips
  BY NextLives
<1> QED BY <1>1, <1>2, <1>3, <1>4, Invariance, CalmUnlessFaults, PTL
        DEF Spec, LivesLikeATrip, Lifecycle!Spec

=============================================================================

--------------------------- MODULE TripFlowProofs ---------------------------
(***************************************************************************)
(* The safety of a trip's way through the services, for any trips,         *)
(* drivers, packages, goroutines, retries and faults.                      *)
(*                                                                         *)
(* The services share no state, so what makes a step right has to come     *)
(* with the message it works on.  Sound(m) says what a message in a queue  *)
(* stands for: an acceptance for an accepter, a payment command for a trip *)
(* that is taken, a success for a payment that Stripe has reported.  It    *)
(* stays true, since accepters, sessions and payments only grow and a trip *)
(* that is taken is never free again (Grows); so it does not matter how    *)
(* long a message waits, nor how often it is handed out.                   *)
(***************************************************************************)
EXTENDS TripFlow, FiniteSetTheorems, TLAPS

\* A driver was stored in the trip, for good.
Taken(t) == trips[t].status \in {"accepted", "payed"}

\* What a message says is so.
Sound(m) ==
  /\ creation[m.trip] # "none"
  /\ m.key \in {DriverCmdTripAccept, TripEventDriverAssigned, PaymentCmdCreateSession} =>
       m.driver \in accepters[m.trip]
  /\ m.key = DriverCmdTripRequest => DriverPackage[m.driver] = TripPackage[m.trip]
  /\ m.key = PaymentCmdCreateSession => Taken(m.trip)
  /\ m.key = PaymentEventSessionCreated => Sessions(m.trip) # {}
  /\ m.key = PaymentEventSuccess => payment[m.trip] = "reported"

\* The handler of w's message is at a step of its own, and what the steps before
\* have done is done.
SoundWork(w) ==
  /\ Sound(w.msg)
  /\ w.msg.key \in WorkKeys
  /\ w.step \in HandlerSteps => w.failures <= MaxRetries
  /\ w.step \in {"assign", "reread", "announce", "charge"} => w.msg.key = DriverCmdTripAccept
  /\ w.step \in {"reread", "announce", "charge"} => Taken(w.msg.trip)
  /\ w.step = "announce" => w.read \in accepters[w.msg.trip]
  /\ w.step \in {"open session", "notify"} => w.msg.key = PaymentCmdCreateSession
  /\ w.step = "notify" => Sessions(w.msg.trip) # {}
  /\ w.step = "settle" => w.msg.key = PaymentEventSuccess

QueuedIsSound == \A m \in Message : queue[m] > 0 => Sound(m)
WorkIsSound == \A g \in Goroutines : work[g] # Idle => SoundWork(work[g])
ShownIsSound == \A t \in Trips : \A m \in shown[t] : m.trip = t /\ Sound(m)

\* A driver is asked about a trip that was created and wants the driver's package.
OfferIsSound == \A d \in Drivers : offer[d] # None =>
  creation[offer[d]] # "none" /\ DriverPackage[d] = TripPackage[offer[d]]

\* What the documents in MongoDB say is so.
TripIsSound == \A t \in Trips :
  /\ creation[t] = "none" => trips[t].status = "none"
  /\ Taken(t) => trips[t].driver \in Drivers
  /\ trips[t].driver \in accepters[t] \cup {None}
  /\ Sessions(t) \subseteq accepters[t]
  /\ Sessions(t) # {} => Taken(t)
  /\ payment[t] # "none" => Sessions(t) # {}
  /\ trips[t].status = "payed" => payment[t] = "reported"
  /\ \A d \in accepters[t] : DriverPackage[d] = TripPackage[t]

Inv ==
  /\ TypeOK
  /\ QueuedIsSound
  /\ WorkIsSound
  /\ ShownIsSound
  /\ OfferIsSound
  /\ TripIsSound

\* What was accepted, opened, stored, created or reported stays so.
Grows == \A t \in Trips :
  /\ accepters[t] \subseteq accepters'[t]
  /\ Sessions(t) \subseteq Sessions(t)'
  /\ Taken(t) => Taken(t)'
  /\ creation[t] # "none" => creation'[t] # "none"
  /\ payment[t] = "reported" => payment'[t] = "reported"

\* The routing keys are strings; every proof may look at them.
USE DEF TripEventCreated, TripEventDriverNotInterested, TripEventDriverAssigned,
        TripEventNoDriversFound, DriverCmdTripRequest, DriverCmdTripAccept,
        DriverCmdTripDecline, PaymentCmdCreateSession, PaymentEventSessionCreated,
        PaymentEventSuccess

-----------------------------------------------------------------------------
(* Messages, the queue and the goroutines *)

LEMMA MessageFields ==
  ASSUME NEW m \in Message
  PROVE  /\ m.trip \in Trips
         /\ m.key \in {DriverCmdTripRequest, DriverCmdTripAccept, DriverCmdTripDecline,
                       TripEventDriverAssigned, PaymentCmdCreateSession} => m.driver \in Drivers
PROOF
<1> QED BY DEF Message, DriverKeys, WorkKeys, RiderKeys

\* Only messages of the right form are made.
LEMMA MsgIsMessage ==
  ASSUME NEW t \in Trips, NEW key, NEW d,
         \/ key \in {DriverCmdTripRequest, DriverCmdTripAccept, DriverCmdTripDecline,
                     TripEventDriverAssigned, PaymentCmdCreateSession} /\ d \in Drivers
         \/ key \in {TripEventCreated, TripEventDriverNotInterested, TripEventNoDriversFound,
                     PaymentEventSessionCreated, PaymentEventSuccess} /\ d = None
  PROVE  /\ Msg(key, t, d) \in Message
         /\ Msg(key, t, d).key = key /\ Msg(key, t, d).trip = t /\ Msg(key, t, d).driver = d
PROOF
<1> QED BY DEF Msg, Message, DriverKeys, WorkKeys, RiderKeys

LEMMA PublishQueue ==
  ASSUME queue \in [Message -> Nat], NEW m \in Message, Publish(m)
  PROVE  /\ queue' \in [Message -> Nat]
         /\ \A n \in Message : queue'[n] > 0 => n = m \/ queue[n] > 0
PROOF
<1> QED BY DEF Publish

LEMMA ConsumeQueue ==
  ASSUME queue \in [Message -> Nat], NEW m \in Message, queue[m] > 0,
         queue' = [queue EXCEPT ![m] = @ - 1]
  PROVE  /\ queue' \in [Message -> Nat]
         /\ \A n \in Message : queue'[n] > 0 => queue[n] > 0
PROOF
<1> QED OBVIOUS

\* A handler begins at a step that belongs to its message.
LEMMA FirstStepBelongs ==
  ASSUME NEW key \in WorkKeys
  PROVE  /\ FirstStep(key) \in HandlerSteps \ {"reread", "announce", "charge", "notify"}
         /\ FirstStep(key) = "assign" => key = DriverCmdTripAccept
         /\ FirstStep(key) = "open session" => key = PaymentCmdCreateSession
         /\ FirstStep(key) = "settle" => key = PaymentEventSuccess
PROOF
<1> QED BY DEF WorkKeys, FirstStep, HandlerSteps

\* A handler that begins, or begins again, does sound work.
LEMMA BeginningIsSound ==
  ASSUME NEW m \in Message, m.key \in WorkKeys, Sound(m),
         NEW n \in 0 .. MaxRetries + 1, NEW step,
         \/ n <= MaxRetries /\ step = FirstStep(m.key)
         \/ step = "reject"
  PROVE  LET w == [msg |-> m, step |-> step, failures |-> n, read |-> None] IN
         w \in Work /\ SoundWork(w)
PROOF
<1> DEFINE w == [msg |-> m, step |-> step, failures |-> n, read |-> None]
<1>1. step \in HandlerSteps => step = FirstStep(m.key) /\ n <= MaxRetries
  BY DEF HandlerSteps
<1>2. step \in HandlerSteps \cup {"reject"}
  BY FirstStepBelongs
<1>3. w \in Work
  BY <1>2 DEF Work
<1>4. SoundWork(w)
  BY <1>1, <1>2, FirstStepBelongs DEF SoundWork, HandlerSteps
<1> QED BY <1>3, <1>4

-----------------------------------------------------------------------------
(* Soundness is kept *)

LEMMA SoundStays ==
  ASSUME Grows, NEW m \in Message, Sound(m)
  PROVE  Sound(m)'
PROOF
<1> QED BY MessageFields DEF Grows, Sound

LEMMA SoundWorkStays ==
  ASSUME Grows, NEW w \in Work, SoundWork(w)
  PROVE  SoundWork(w)'
PROOF
<1>1. w.msg \in Message /\ w.msg.trip \in Trips
  BY MessageFields DEF Work
<1>2. Sound(w.msg)'
  BY <1>1, SoundStays DEF SoundWork
<1> QED BY <1>1, <1>2 DEF Grows, SoundWork

LEMMA SoundWorkOfGoroutine ==
  ASSUME NEW g \in Goroutines, NEW w \in Work, work'[g] = w, SoundWork(w)'
  PROVE  SoundWork(work[g])'
PROOF
<1> QED BY DEF SoundWork, Sound, Taken, Sessions

\* A step that lets grow what messages speak of, and adds only what is sound.
LEMMA StepInv ==
  ASSUME Inv, TypeOK', Grows, TripIsSound',
         \A m \in Message : queue'[m] > 0 => queue[m] > 0 \/ Sound(m)',
         \A g \in Goroutines : \/ work'[g] \in {work[g], Idle}
                                \/ \E w \in Work : work'[g] = w /\ SoundWork(w)',
         \A t \in Trips : \A m \in shown'[t] : m \in shown[t] \/ (m.trip = t /\ Sound(m)'),
         \A d \in Drivers :
           \/ offer'[d] \in {offer[d], None}
           \/ creation'[offer'[d]] # "none" /\ DriverPackage[d] = TripPackage[offer'[d]]
  PROVE  Inv'
PROOF
<1> USE DEF Inv
<1>1. QueuedIsSound'
  BY SoundStays DEF QueuedIsSound
<1>2. WorkIsSound'
  <2> SUFFICES ASSUME NEW g \in Goroutines, work'[g] # Idle
               PROVE  SoundWork(work[g])'
    BY DEF WorkIsSound
  <2>1. PICK w \in Work : work'[g] = w /\ SoundWork(w)'
    <3>1. CASE work'[g] = work[g]
      <4>1. work[g] \in Work /\ SoundWork(work[g])
        BY <3>1 DEF TypeOK, WorkIsSound
      <4>2. PICK w \in Work : w = work[g] /\ SoundWork(w)
        BY <4>1
      <4>3. SoundWork(w)'
        BY <4>2, SoundWorkStays
      <4> QED BY <3>1, <4>2, <4>3
    <3> QED BY <3>1
  <2> QED BY <2>1, SoundWorkOfGoroutine
<1>3. ShownIsSound'
  <2>1. \A t \in Trips : shown[t] \subseteq Message
    BY DEF TypeOK
  <2> QED BY <2>1, SoundStays DEF ShownIsSound
<1>4. OfferIsSound'
  <2>1. \A d \in Drivers : offer[d] \in Trips \cup {None}
    BY DEF TypeOK
  <2> QED BY <2>1 DEF OfferIsSound, Grows
<1> QED BY <1>1, <1>2, <1>3, <1>4

\* A step that changes no document, no session and no answer.
LEMMA CarryInv ==
  ASSUME Inv, TypeOK', UNCHANGED <<trips, stripe, accepters>>,
         \A t \in Trips : creation'[t] = "none" <=> creation[t] = "none",
         \A m \in Message : queue'[m] > 0 => queue[m] > 0 \/ Sound(m),
         \A g \in Goroutines : \/ work'[g] \in {work[g], Idle}
                                \/ \E w \in Work : work'[g] = w /\ SoundWork(w),
         \A t \in Trips : \A m \in shown'[t] :
           m \in shown[t] \/ (m \in Message /\ m.trip = t /\ Sound(m)),
         \A d \in Drivers :
           \/ offer'[d] \in {offer[d], None}
           \/ creation'[offer'[d]] # "none" /\ DriverPackage[d] = TripPackage[offer'[d]]
  PROVE  Inv'
PROOF
<1>1. Grows
  BY DEF Grows, Sessions, Taken, stripe
<1>2. TripIsSound'
  BY DEF Inv, TripIsSound, Sessions, Taken, stripe
<1>3. \A m \in Message : Sound(m) => Sound(m)'
  BY <1>1, SoundStays
<1>4. \A w \in Work : SoundWork(w) => SoundWork(w)'
  BY <1>1, SoundWorkStays
<1>5. \A g \in Goroutines : \/ work'[g] \in {work[g], Idle}
                            \/ \E w \in Work : work'[g] = w /\ SoundWork(w)'
  BY <1>4
<1>6. \A t \in Trips : \A m \in shown'[t] : m \in shown[t] \/ (m.trip = t /\ Sound(m)')
  BY <1>3
<1>7. \A m \in Message : queue'[m] > 0 => queue[m] > 0 \/ Sound(m)'
  BY <1>3
<1> QED BY <1>1, <1>2, <1>5, <1>6, <1>7, StepInv

\* A goroutine goes on to other work, and may publish a message that is sound.
LEMMA MoveInv ==
  ASSUME Inv, NEW g \in Goroutines, NEW w \in Work \cup {Idle},
         work' = [work EXCEPT ![g] = w], w # Idle => SoundWork(w),
         UNCHANGED <<trips, creation, registered, pages, stripe, accepters>>,
         dlq' \in SUBSET Message, faults' \in 0 .. MaxFaults,
         queue' \in [Message -> Nat],
         \A m \in Message : queue'[m] > 0 => queue[m] > 0 \/ Sound(m)
  PROVE  Inv'
PROOF
<1>1. TypeOK
  BY DEF Inv
<1>2. \A h \in Goroutines : work'[h] = IF h = g THEN w ELSE work[h]
  BY <1>1 DEF TypeOK
<1>3. work' \in [Goroutines -> Work \cup {Idle}]
  BY <1>1 DEF TypeOK
<1>4. TypeOK'
  BY <1>1, <1>3 DEF TypeOK, pages, stripe
<1> QED BY <1>2, <1>4, CarryInv DEF pages

-----------------------------------------------------------------------------
(* The handlers *)

\* What the invariant says of a goroutine that is at work.
LEMMA AtWork ==
  ASSUME Inv, NEW g \in Goroutines, work[g].step # "idle"
  PROVE  /\ work[g] \in Work /\ SoundWork(work[g]) /\ Sound(work[g].msg)
         /\ work[g].msg \in Message /\ work[g].msg.trip \in Trips
         /\ work[g].msg.key \in WorkKeys
         /\ work[g].failures \in 0 .. MaxRetries + 1
PROOF
<1>1. work[g] # Idle
  BY DEF Idle
<1>2. work[g] \in Work
  BY <1>1 DEF Inv, TypeOK
<1>3. SoundWork(work[g])
  BY <1>1 DEF Inv, WorkIsSound
<1> QED BY <1>2, <1>3, MessageFields DEF Work, SoundWork

\* The goroutine's own step is the only thing that changes in its work.
LEMMA GotoWork ==
  ASSUME Inv, NEW g \in Goroutines, work[g].step # "idle",
         NEW step \in HandlerSteps \cup {"ack", "reject"}, Goto(g, step)
  PROVE  LET w == [work[g] EXCEPT !.step = step] IN
         /\ w \in Work /\ work' = [work EXCEPT ![g] = w]
         /\ w.step = step /\ w.msg = work[g].msg /\ w.read = work[g].read
         /\ w.failures = work[g].failures
PROOF
<1>1. work[g] \in Work
  BY AtWork
<1>2. work \in [Goroutines -> Work \cup {Idle}]
  BY DEF Inv, TypeOK
<1> QED BY <1>1, <1>2 DEF Goto, Work

\* The end of a handler: whatever it has published is sound.
LEMMA AckInv ==
  ASSUME Inv, NEW g \in Goroutines, work[g].step # "idle", Goto(g, "ack"),
         NEW m \in Message, Publish(m), Sound(m),
         UNCHANGED <<trips, creation, registered, dlq, pages, stripe, accepters, faults>>
  PROVE  Inv'
PROOF
<1> DEFINE w == [work[g] EXCEPT !.step = "ack"]
<1>1. /\ w \in Work /\ work' = [work EXCEPT ![g] = w] /\ w.step = "ack"
      /\ w.msg = work[g].msg
  BY GotoWork
<1>2. SoundWork(w)
  <2>1. SoundWork(work[g])
    BY AtWork
  <2> HIDE DEF w
  <2> QED BY <1>1, <2>1 DEF SoundWork, HandlerSteps
<1>3. queue \in [Message -> Nat] /\ dlq \in SUBSET Message /\ faults \in 0 .. MaxFaults
  BY DEF Inv, TypeOK
<1>4. /\ queue' \in [Message -> Nat]
      /\ \A n \in Message : queue'[n] > 0 => queue[n] > 0 \/ Sound(n)
  BY <1>3, PublishQueue
<1> HIDE DEF w
<1> QED BY <1>1, <1>2, <1>3, <1>4, MoveInv

\* The handler is called again, or its message is about to be rejected.
LEMMA HandlerErrorInv ==
  ASSUME Inv, NEW g \in Goroutines, work[g].step \in HandlerSteps, HandlerError(g),
         faults' \in 0 .. MaxFaults,
         UNCHANGED <<trips, creation, registered, queue, dlq, pages, stripe, accepters>>
  PROVE  Inv'
PROOF
<1> DEFINE m == work[g].msg
           n == work[g].failures + 1
           step == IF work[g].failures < MaxRetries THEN FirstStep(m.key) ELSE "reject"
           w == [msg |-> m, step |-> step, failures |-> n, read |-> None]
<1>1. work[g].step # "idle"
  BY DEF HandlerSteps
<1>2. work[g].failures \in Nat /\ work[g].failures <= MaxRetries
  <2>1. work[g].failures \in 0 .. MaxRetries + 1 /\ SoundWork(work[g])
    BY <1>1, AtWork
  <2>2. work[g].failures <= MaxRetries
    BY <2>1 DEF SoundWork
  <2> QED BY <2>1, <2>2, TripFlowAssumption
<1>3. n \in 0 .. MaxRetries + 1 /\ ((n <= MaxRetries /\ step = FirstStep(m.key)) \/ step = "reject")
  BY <1>2, TripFlowAssumption
<1>4. w \in Work /\ SoundWork(w)
  <2>1. m \in Message /\ m.key \in WorkKeys /\ Sound(m)
    BY <1>1, AtWork
  <2> HIDE DEF m, n, step
  <2> QED BY <1>3, <2>1, BeginningIsSound
<1>5. work' = [work EXCEPT ![g] = w]
  BY DEF HandlerError
<1>6. queue \in [Message -> Nat] /\ dlq \in SUBSET Message
  BY DEF Inv, TypeOK
<1> HIDE DEF w
<1> QED BY <1>4, <1>5, <1>6, MoveInv

\* Every step of a goroutine that leaves the documents and the sessions alone.
LEMMA ConsumerInv ==
  ASSUME Inv, NEW g \in Goroutines,
         (\E m \in Message : Take(g, m)) \/ StepFails(g) \/ Ack(g) \/ Reject(g)
  PROVE  Inv'
PROOF
<1>1. /\ queue \in [Message -> Nat] /\ dlq \in SUBSET Message /\ faults \in 0 .. MaxFaults
      /\ MaxFaults \in Nat
  BY TripFlowAssumption DEF Inv, TypeOK
<1>2. ASSUME NEW m \in Message, Take(g, m) PROVE Inv'
  <2> DEFINE w == [msg |-> m, step |-> FirstStep(m.key), failures |-> 0, read |-> None]
  <2>1. /\ m.key \in WorkKeys /\ queue[m] > 0 /\ queue' = [queue EXCEPT ![m] = @ - 1]
        /\ work' = [work EXCEPT ![g] = w]
        /\ UNCHANGED <<trips, creation, registered, dlq, pages, stripe, accepters, faults>>
    BY <1>2 DEF Take
  <2>2. Sound(m)
    BY <2>1 DEF Inv, QueuedIsSound
  <2>3. 0 \in 0 .. MaxRetries + 1 /\ 0 <= MaxRetries
    BY TripFlowAssumption
  <2>4. w \in Work /\ SoundWork(w)
    BY <2>1, <2>2, <2>3, BeginningIsSound
  <2>5. /\ queue' \in [Message -> Nat]
        /\ \A n \in Message : queue'[n] > 0 => queue[n] > 0
    BY <1>1, <2>1, ConsumeQueue
  <2> HIDE DEF w
  <2> QED BY <1>1, <2>1, <2>4, <2>5, MoveInv
<1>3. CASE StepFails(g)
  <2>1. faults' \in 0 .. MaxFaults
    BY <1>1, <1>3 DEF StepFails, Faulty
  <2> QED BY <1>3, <2>1, HandlerErrorInv DEF StepFails
<1>4. CASE Ack(g)
  BY <1>1, <1>4, MoveInv DEF Ack
<1>5. CASE Reject(g)
  <2>1. work[g].msg \in Message
    BY <1>5, AtWork DEF Reject, At
  <2> QED BY <1>1, <1>5, <2>1, MoveInv DEF Reject
<1> QED BY <1>2, <1>3, <1>4, <1>5

\* driver-service asks a driver who wants what the trip wants, or tells the rider.
LEMMA MatchInv ==
  ASSUME Inv, NEW g \in Goroutines, Match(g)
  PROVE  Inv'
PROOF
<1> DEFINE t == work[g].msg.trip
           suitable == FindAvailableDrivers(TripPackage[t])
<1>1. /\ work[g].step # "idle" /\ Goto(g, "ack")
      /\ UNCHANGED <<trips, creation, registered, dlq, pages, stripe, accepters, faults>>
      /\ \/ Publish(Msg(TripEventNoDriversFound, t, None))
         \/ \E d \in suitable : Publish(Msg(DriverCmdTripRequest, t, d))
  BY DEF Match, At
<1>2. t \in Trips /\ creation[t] # "none"
  BY <1>1, AtWork DEF Sound
<1>3. CASE Publish(Msg(TripEventNoDriversFound, t, None))
  <2> DEFINE m == Msg(TripEventNoDriversFound, t, None)
  <2>1. m \in Message /\ m.key = TripEventNoDriversFound /\ m.trip = t
    BY <1>2, MsgIsMessage
  <2>2. Sound(m)
    BY <1>2, <2>1 DEF Sound
  <2> HIDE DEF m
  <2> QED BY <1>1, <1>3, <2>1, <2>2, AckInv DEF m
<1>4. ASSUME NEW d \in suitable, Publish(Msg(DriverCmdTripRequest, t, d)) PROVE Inv'
  <2> DEFINE m == Msg(DriverCmdTripRequest, t, d)
  <2>1. d \in Drivers /\ DriverPackage[d] = TripPackage[t]
    BY DEF Inv, TypeOK, FindAvailableDrivers
  <2>2. m \in Message /\ m.key = DriverCmdTripRequest /\ m.trip = t /\ m.driver = d
    BY <1>2, <2>1, MsgIsMessage
  <2>3. Sound(m)
    BY <1>2, <2>1, <2>2 DEF Sound
  <2> HIDE DEF m
  <2> QED BY <1>1, <1>4, <2>2, <2>3, AckInv DEF m
<1> QED BY <1>1, <1>3, <1>4

\* The other handlers that end with a publication.
LEMMA PublishInv ==
  ASSUME Inv, NEW g \in Goroutines, Charge(g) \/ Reoffer(g) \/ Notify(g)
  PROVE  Inv'
PROOF
<1> DEFINE m == work[g].msg
<1>1. /\ work[g].step # "idle" /\ Goto(g, "ack")
      /\ UNCHANGED <<trips, creation, registered, dlq, pages, stripe, accepters, faults>>
  BY DEF Charge, Reoffer, Notify, At
<1>2. m \in Message /\ m.trip \in Trips /\ SoundWork(work[g]) /\ Sound(m)
  BY <1>1, AtWork
<1>3. ASSUME NEW n \in Message, Publish(n), Sound(n) PROVE Inv'
  BY <1>1, <1>3, AckInv
<1>4. CASE Charge(g)
  <2> DEFINE n == Msg(PaymentCmdCreateSession, m.trip, m.driver)
  <2>1. m.key = DriverCmdTripAccept /\ Taken(m.trip) /\ Publish(n)
    BY <1>2, <1>4 DEF Charge, At, SoundWork
  <2>2. /\ m.driver \in Drivers /\ m.driver \in accepters[m.trip]
        /\ creation[m.trip] # "none"
    BY <1>2, <2>1, MessageFields DEF Sound
  <2>3. n \in Message /\ n.key = PaymentCmdCreateSession /\ n.trip = m.trip /\ n.driver = m.driver
    BY <1>2, <2>2, MsgIsMessage
  <2>4. Sound(n)
    BY <2>1, <2>2, <2>3 DEF Sound
  <2> HIDE DEF n
  <2> QED BY <1>3, <2>1, <2>3, <2>4
<1>5. CASE Reoffer(g)
  <2> DEFINE n == Msg(TripEventDriverNotInterested, m.trip, None)
  <2>1. n \in Message /\ n.key = TripEventDriverNotInterested /\ n.trip = m.trip
    BY <1>2, MsgIsMessage
  <2>2. Sound(n)
    BY <1>2, <2>1 DEF Sound
  <2> QED BY <1>3, <1>5, <2>1, <2>2 DEF Reoffer
<1>6. CASE Notify(g)
  <2> DEFINE n == Msg(PaymentEventSessionCreated, m.trip, None)
  <2>1. n \in Message /\ n.key = PaymentEventSessionCreated /\ n.trip = m.trip
    BY <1>2, MsgIsMessage
  <2>2. Sessions(m.trip) # {}
    BY <1>2, <1>6 DEF Notify, At, SoundWork
  <2>3. Sound(n)
    BY <1>2, <2>1, <2>2 DEF Sound
  <2> QED BY <1>3, <1>6, <2>1, <2>3 DEF Notify
<1> QED BY <1>4, <1>5, <1>6

\* What is read from the trip is the driver who was stored last, an accepter.
LEMMA RereadInv ==
  ASSUME Inv, NEW g \in Goroutines, Reread(g)
  PROVE  Inv'
PROOF
<1> DEFINE m == work[g].msg
           read == trips[m.trip].driver
           w == [work[g] EXCEPT !.step = "announce", !.read = read]
<1>1. work[g].step = "reread"
  BY DEF Reread, At
<1>2. work[g] \in Work /\ m.trip \in Trips /\ SoundWork(work[g])
  BY <1>1, AtWork
<1>3. read \in Drivers /\ read \in accepters[m.trip]
  <2>1. Taken(m.trip)
    BY <1>1, <1>2 DEF SoundWork
  <2> QED BY <1>2, <2>1, TripFlowAssumption DEF Inv, TripIsSound
<1>4. /\ w \in Work /\ w.step = "announce" /\ w.read = read /\ w.msg = m
      /\ w.failures = work[g].failures
  BY <1>2, <1>3 DEF Work, HandlerSteps
<1>5. work' = [work EXCEPT ![g] = w]
  BY <1>2 DEF Reread, Inv, TypeOK, Work
<1>6. SoundWork(w)
  <2> HIDE DEF w
  <2> QED BY <1>1, <1>2, <1>3, <1>4 DEF SoundWork, HandlerSteps
<1>7. queue \in [Message -> Nat] /\ dlq \in SUBSET Message /\ faults \in 0 .. MaxFaults
  BY DEF Inv, TypeOK
<1> HIDE DEF w
<1> QED BY <1>4, <1>5, <1>6, <1>7, MoveInv DEF Reread

\* What is announced is what was read, although the trip may have changed since.
LEMMA AnnounceInv ==
  ASSUME Inv, NEW g \in Goroutines, Announce(g)
  PROVE  Inv'
PROOF
<1> DEFINE t == work[g].msg.trip
           n == Msg(TripEventDriverAssigned, t, work[g].read)
           w == [work[g] EXCEPT !.step = "charge", !.read = None]
<1>1. work[g].step = "announce"
  BY DEF Announce, At
<1>2. work[g] \in Work /\ t \in Trips /\ SoundWork(work[g]) /\ Sound(work[g].msg)
  BY <1>1, AtWork
<1>3. work[g].read \in accepters[t] /\ accepters[t] \subseteq Drivers
  BY <1>1, <1>2 DEF SoundWork, Inv, TypeOK
<1>4. /\ w \in Work /\ w.step = "charge" /\ w.msg = work[g].msg
      /\ w.failures = work[g].failures
  BY <1>2 DEF Work, HandlerSteps
<1>5. work' = [work EXCEPT ![g] = w]
  BY <1>2 DEF Announce, Inv, TypeOK, Work
<1>6. SoundWork(w)
  <2> HIDE DEF w
  <2> QED BY <1>1, <1>2, <1>4 DEF SoundWork, HandlerSteps
<1>7. /\ n \in Message /\ n.key = TripEventDriverAssigned /\ n.trip = t
      /\ n.driver = work[g].read
  BY <1>2, <1>3, MsgIsMessage
<1>8. Sound(n)
  <2> HIDE DEF n
  <2> QED BY <1>2, <1>3, <1>7 DEF Sound
<1>9. queue \in [Message -> Nat] /\ dlq \in SUBSET Message /\ faults \in 0 .. MaxFaults
  BY DEF Inv, TypeOK
<1>10. /\ queue' \in [Message -> Nat]
       /\ \A m \in Message : queue'[m] > 0 => queue[m] > 0 \/ Sound(m)
  <2>1. Publish(n)
    BY DEF Announce
  <2> HIDE DEF n
  <2> QED BY <1>7, <1>8, <1>9, <2>1, PublishQueue
<1> HIDE DEF w
<1> QED BY <1>4, <1>5, <1>6, <1>9, <1>10, MoveInv DEF Announce

-----------------------------------------------------------------------------
(* Documents and sessions *)

\* An update of a trip that names an accepter, by whatever handler.
LEMMA UpdateInv ==
  ASSUME Inv, NEW g \in Goroutines, work[g].step \in {"assign", "settle"},
         NEW status \in {"accepted", "payed"}, NEW d \in Drivers,
         d \in accepters[work[g].msg.trip],
         status = "payed" => payment[work[g].msg.trip] = "reported",
         NEW next \in {"reread", "ack"}, Goto(g, next),
         next = "reread" => work[g].msg.key = DriverCmdTripAccept,
         trips' = [trips EXCEPT ![work[g].msg.trip] = [status |-> status, driver |-> d]],
         UNCHANGED <<creation, registered, queue, dlq, pages, stripe, accepters, faults>>
  PROVE  Inv'
PROOF
<1>0. work[g].step # "idle"
  BY DEF HandlerSteps
<1>1. PICK t \in Trips, m \in Message :
        /\ m = work[g].msg /\ t = m.trip
        /\ work[g] \in Work /\ SoundWork(work[g]) /\ Sound(m)
  BY <1>0, AtWork
<1>2. PICK w \in Work :
        /\ work' = [work EXCEPT ![g] = w] /\ w.step = next
        /\ w.msg = m /\ w.failures = work[g].failures
  <2> DEFINE v == [work[g] EXCEPT !.step = next]
  <2>1. /\ v \in Work /\ work' = [work EXCEPT ![g] = v] /\ v.step = next
        /\ v.msg = work[g].msg /\ v.failures = work[g].failures
    BY <1>0, GotoWork DEF HandlerSteps
  <2> HIDE DEF v
  <2> QED BY <1>1, <2>1
<1>3. TypeOK
  BY DEF Inv
<1>4. \A u \in Trips :
        trips'[u] = IF u = t THEN [status |-> status, driver |-> d] ELSE trips[u]
  BY <1>1, <1>3 DEF TypeOK
<1>5. trips' \in [Trips -> [status : {"none", "Pending", "accepted", "payed"},
                            driver : Drivers \cup {None}]]
  BY <1>1, <1>3 DEF TypeOK
<1>6. work' \in [Goroutines -> Work \cup {Idle}]
  BY <1>2, <1>3 DEF TypeOK
<1>7. TypeOK'
  BY <1>3, <1>5, <1>6 DEF TypeOK, pages, stripe
<1>8. Grows
  BY <1>4 DEF Grows, Taken, Sessions, stripe
<1>9. TripIsSound'
  <2> SUFFICES ASSUME NEW u \in Trips
               PROVE  /\ creation[u] = "none" => trips'[u].status = "none"
                      /\ Taken(u)' => trips'[u].driver \in Drivers
                      /\ trips'[u].driver \in accepters[u] \cup {None}
                      /\ Sessions(u) \subseteq accepters[u]
                      /\ Sessions(u) # {} => Taken(u)'
                      /\ payment[u] # "none" => Sessions(u) # {}
                      /\ trips'[u].status = "payed" => payment[u] = "reported"
                      /\ \A e \in accepters[u] : DriverPackage[e] = TripPackage[u]
    BY DEF TripIsSound, stripe, Sessions
  <2>1. CASE u = t
    BY <1>1, <1>4, <2>1 DEF Inv, TripIsSound, Taken, Sound
  <2>2. CASE u # t
    BY <1>4, <2>2 DEF Inv, TripIsSound, Taken
  <2> QED BY <2>1, <2>2
<1>10. SoundWork(w)'
  <2>1. Sound(w.msg)'
    BY <1>1, <1>2, <1>8, SoundStays
  <2>2. Taken(t)'
    BY <1>1, <1>4 DEF Taken
  <2>3. w.failures <= MaxRetries
    BY <1>1, <1>2 DEF SoundWork, HandlerSteps
  <2> QED BY <1>1, <1>2, <2>1, <2>2, <2>3 DEF SoundWork, HandlerSteps
<1>11. \A h \in Goroutines : work'[h] = IF h = g THEN w ELSE work[h]
  BY <1>2, <1>3 DEF TypeOK
<1> QED BY <1>2, <1>7, <1>8, <1>9, <1>10, <1>11, StepInv DEF pages

\* trip-service stores a driver or a payment, or fails because nothing changes.
LEMMA StoreInv ==
  ASSUME Inv, NEW g \in Goroutines, Assign(g) \/ Settle(g)
  PROVE  Inv'
PROOF
<1> DEFINE m == work[g].msg
           t == m.trip
<1>1. work[g].step \in {"assign", "settle"} /\ work[g].step # "idle"
      /\ work[g].step \in HandlerSteps
  BY DEF Assign, Settle, At, HandlerSteps
<1>2. m \in Message /\ t \in Trips /\ SoundWork(work[g]) /\ Sound(m)
  BY <1>1, AtWork
<1>3. faults \in 0 .. MaxFaults
  BY DEF Inv, TypeOK
<1>4. UNCHANGED <<creation, registered, queue, dlq, pages, stripe, accepters, faults>>
  BY DEF Assign, Settle
<1>5. CASE HandlerError(g) /\ UNCHANGED trips
  BY <1>1, <1>3, <1>4, <1>5, HandlerErrorInv
<1>6. CASE Assign(g) /\ ~(HandlerError(g) /\ UNCHANGED trips)
  <2>1. m.key = DriverCmdTripAccept
    BY <1>2, <1>6 DEF Assign, At, SoundWork
  <2>2. m.driver \in Drivers /\ m.driver \in accepters[t] /\ m.driver # None
    BY <1>2, <2>1, MessageFields, TripFlowAssumption DEF Sound
  <2>3. /\ trips' = [trips EXCEPT ![t] = [status |-> "accepted", driver |-> m.driver]]
        /\ Goto(g, "reread")
    BY <1>6, <2>2 DEF Assign, UpdateTrip, Updated
  <2> QED BY <1>1, <1>4, <2>1, <2>2, <2>3, UpdateInv
<1>7. CASE Settle(g) /\ ~(HandlerError(g) /\ UNCHANGED trips)
  <2>1. payment[t] = "reported"
    BY <1>2, <1>7 DEF Settle, At, SoundWork, Sound
  <2>2. trips[t].driver \in Drivers /\ trips[t].driver \in accepters[t]
    BY <1>2, <2>1, TripFlowAssumption DEF Inv, TripIsSound
  <2>3. /\ trips' = [trips EXCEPT ![t] = [status |-> "payed", driver |-> trips[t].driver]]
        /\ Goto(g, "ack")
    BY <1>7 DEF Settle, UpdateTrip, Updated
  <2> QED BY <1>1, <1>4, <2>1, <2>2, <2>3, UpdateInv
<1> QED BY <1>5, <1>6, <1>7

\* A session is opened for a trip that is taken, and names an accepter.
LEMMA OpenSessionInv ==
  ASSUME Inv, NEW g \in Goroutines, OpenSession(g)
  PROVE  Inv'
PROOF
<1>0. work[g].step = "open session" /\ work[g].step # "idle"
  BY DEF OpenSession, At
<1>2. PICK t \in Trips, m \in Message :
        /\ m = work[g].msg /\ t = m.trip
        /\ work[g] \in Work /\ SoundWork(work[g]) /\ Sound(m)
  BY <1>0, AtWork
<1>1. /\ work[g].step = "open session" /\ Goto(g, "notify")
      /\ sessions' = [sessions EXCEPT ![t][m.driver] = @ + 1]
      /\ UNCHANGED <<trips, creation, registered, queue, dlq, pages, payment, webhookKey,
                     accepters, faults>>
  BY <1>2 DEF OpenSession, At
<1>3. m.key = PaymentCmdCreateSession
  BY <1>1, <1>2 DEF SoundWork
<1>4. m.driver \in Drivers /\ m.driver \in accepters[t] /\ Taken(t)
  BY <1>2, <1>3, MessageFields DEF Sound
<1>5. PICK w \in Work :
      /\ work' = [work EXCEPT ![g] = w] /\ w.step = "notify"
      /\ w.msg = m /\ w.failures = work[g].failures
  <2> DEFINE v == [work[g] EXCEPT !.step = "notify"]
  <2>1. /\ v \in Work /\ work' = [work EXCEPT ![g] = v] /\ v.step = "notify"
        /\ v.msg = work[g].msg /\ v.failures = work[g].failures
    BY <1>0, <1>1, GotoWork DEF HandlerSteps
  <2> HIDE DEF v
  <2> QED BY <1>2, <2>1
<1>6. TypeOK
  BY DEF Inv
<1>7. \A u \in Trips, e \in Drivers :
        sessions'[u][e] = IF u = t /\ e = m.driver THEN sessions[u][e] + 1 ELSE sessions[u][e]
  BY <1>1, <1>6 DEF TypeOK
<1>8. TypeOK'
  <2>1. work' \in [Goroutines -> Work \cup {Idle}]
    BY <1>5, <1>6 DEF TypeOK
  <2>2. sessions' \in [Trips -> [Drivers -> Nat]]
    <3>1. sessions \in [Trips -> [Drivers -> Nat]]
      BY <1>6 DEF TypeOK
    <3>2. sessions[t] \in [Drivers -> Nat]
      BY <3>1
    <3>3. [sessions[t] EXCEPT ![m.driver] = @ + 1] \in [Drivers -> Nat]
      <4>1. sessions[t][m.driver] + 1 \in Nat
        BY <1>4, <3>2
      <4> QED BY <1>4, <3>2, <4>1
    <3>4. sessions' = [sessions EXCEPT ![t] = [sessions[t] EXCEPT ![m.driver] = @ + 1]]
      BY <1>1
    <3> QED BY <3>1, <3>3, <3>4
  <2> QED BY <1>1, <1>6, <2>1, <2>2 DEF TypeOK, pages
<1>9. \A u \in Trips : Sessions(u)' = IF u = t THEN Sessions(u) \cup {m.driver} ELSE Sessions(u)
  <2> SUFFICES ASSUME NEW u \in Trips, NEW e \in Drivers
               PROVE  sessions'[u][e] > 0 <=> sessions[u][e] > 0 \/ (u = t /\ e = m.driver)
    BY <1>4 DEF Sessions
  <2>1. sessions[u][e] \in Nat
    BY <1>6 DEF TypeOK
  <2> QED BY <1>7, <2>1
<1>10. Grows
  BY <1>1, <1>9 DEF Grows, Taken
<1>11. TripIsSound'
  <2> SUFFICES ASSUME NEW u \in Trips
               PROVE  /\ creation[u] = "none" => trips[u].status = "none"
                      /\ Taken(u) => trips[u].driver \in Drivers
                      /\ trips[u].driver \in accepters[u] \cup {None}
                      /\ Sessions(u)' \subseteq accepters[u]
                      /\ Sessions(u)' # {} => Taken(u)
                      /\ payment[u] # "none" => Sessions(u)' # {}
                      /\ trips[u].status = "payed" => payment[u] = "reported"
                      /\ \A e \in accepters[u] : DriverPackage[e] = TripPackage[u]
    BY <1>1 DEF TripIsSound, Taken
  <2>1. CASE u = t
    BY <1>4, <1>9, <2>1 DEF Inv, TripIsSound
  <2>2. CASE u # t
    BY <1>9, <2>2 DEF Inv, TripIsSound
  <2> QED BY <2>1, <2>2
<1>12. SoundWork(w)'
  <2>1. Sound(w.msg)'
    BY <1>2, <1>5, <1>10, SoundStays
  <2>2. Sessions(t)' # {}
    BY <1>2, <1>9
  <2>3. w.failures <= MaxRetries
    BY <1>1, <1>2, <1>5 DEF SoundWork, HandlerSteps
  <2> QED BY <1>2, <1>3, <1>5, <2>1, <2>2, <2>3 DEF SoundWork, HandlerSteps
<1>13. \A h \in Goroutines : work'[h] = IF h = g THEN w ELSE work[h]
  BY <1>5, <1>6 DEF TypeOK
<1> QED BY <1>1, <1>5, <1>8, <1>10, <1>11, <1>12, <1>13, StepInv DEF pages

LEMMA HandleInv ==
  ASSUME Inv, NEW g \in Goroutines, Handle(g)
  PROVE  Inv'
PROOF
<1> QED
  BY MatchInv, StoreInv, RereadInv, AnnounceInv, PublishInv, OpenSessionInv DEF Handle

-----------------------------------------------------------------------------
(* The creation of a trip, drivers, riders and crashes *)

\* A trip that is inserted was nowhere spoken of.
LEMMA InsertInv ==
  ASSUME Inv, NEW t \in Trips, InsertTrip(t)
  PROVE  Inv'
PROOF
<1>1. /\ creation[t] = "none" /\ trips' = [trips EXCEPT ![t].status = "Pending"]
      /\ creation' = [creation EXCEPT ![t] = "inserted"]
      /\ UNCHANGED <<registered, queue, dlq, work, pages, stripe, accepters, faults>>
  BY DEF InsertTrip
<1>2. TypeOK
  BY DEF Inv
<1>3. \A u \in Trips : /\ creation'[u] = IF u = t THEN "inserted" ELSE creation[u]
                       /\ trips'[u].driver = trips[u].driver
                       /\ trips'[u].status = IF u = t THEN "Pending" ELSE trips[u].status
  BY <1>1, <1>2 DEF TypeOK
<1>4. trips[t].status = "none" /\ ~Taken(t)
  BY <1>1 DEF Inv, TripIsSound, Taken
<1>5. TypeOK'
  <2>1. trips' \in [Trips -> [status : {"none", "Pending", "accepted", "payed"},
                              driver : Drivers \cup {None}]]
    <3> DEFINE Doc == [status : {"none", "Pending", "accepted", "payed"},
                       driver : Drivers \cup {None}]
    <3>1. trips \in [Trips -> Doc]
      BY <1>2 DEF TypeOK
    <3>2. [trips[t] EXCEPT !.status = "Pending"] \in Doc
      <4>1. trips[t] \in Doc
        BY <3>1
      <4> QED BY <4>1
    <3>3. trips' = [trips EXCEPT ![t] = [trips[t] EXCEPT !.status = "Pending"]]
      BY <1>1
    <3> HIDE DEF Doc
    <3>4. trips' \in [Trips -> Doc]
      BY <3>1, <3>2, <3>3
    <3> QED BY <3>4 DEF Doc
  <2>2. creation' \in [Trips -> {"none", "inserted", "announced", "orphaned"}]
    BY <1>1, <1>2 DEF TypeOK
  <2> QED BY <1>1, <1>2, <2>1, <2>2 DEF TypeOK, pages, stripe
<1>6. \A u \in Trips : Taken(u)' <=> Taken(u)
  BY <1>3, <1>4 DEF Taken
<1>7. Grows
  BY <1>1, <1>3, <1>6 DEF Grows, Sessions, stripe
<1>8. TripIsSound'
  <2> SUFFICES ASSUME NEW u \in Trips
               PROVE  /\ creation'[u] = "none" => trips'[u].status = "none"
                      /\ Taken(u) => trips'[u].driver \in Drivers
                      /\ trips'[u].driver \in accepters[u] \cup {None}
                      /\ Sessions(u) \subseteq accepters[u]
                      /\ Sessions(u) # {} => Taken(u)
                      /\ payment[u] # "none" => Sessions(u) # {}
                      /\ trips'[u].status = "payed" => payment[u] = "reported"
                      /\ \A e \in accepters[u] : DriverPackage[e] = TripPackage[u]
    BY <1>1, <1>6 DEF TripIsSound, Sessions, stripe
  <2> QED BY <1>3 DEF Inv, TripIsSound
<1> QED BY <1>1, <1>5, <1>7, <1>8, StepInv DEF pages

\* The event that starts the matching, or its failure.
LEMMA AnnouncedInv ==
  ASSUME Inv, NEW t \in Trips, PublishTripCreated(t) \/ PublishTripCreatedFails(t)
  PROVE  Inv'
PROOF
<1> DEFINE m == Msg(TripEventCreated, t, None)
<1>1. /\ creation[t] = "inserted" /\ (Publish(m) \/ queue' = queue)
      /\ creation' \in {[creation EXCEPT ![t] = "announced"], [creation EXCEPT ![t] = "orphaned"]}
      /\ faults' \in {faults, faults + 1} /\ (faults' = faults \/ faults < MaxFaults)
      /\ UNCHANGED <<trips, registered, dlq, work, pages, stripe, accepters>>
  BY DEF PublishTripCreated, PublishTripCreatedFails, Faulty
<1>2. TypeOK
  BY DEF Inv
<1>3. m \in Message /\ m.key = TripEventCreated /\ m.trip = t
  BY MsgIsMessage
<1>4. Sound(m)
  BY <1>1, <1>3 DEF Sound
<1>5. /\ queue' \in [Message -> Nat]
      /\ \A n \in Message : queue'[n] > 0 => n = m \/ queue[n] > 0
  <2>1. queue \in [Message -> Nat]
    BY <1>2 DEF TypeOK
  <2> HIDE DEF m
  <2> QED BY <1>1, <1>3, <2>1, PublishQueue
<1>6. creation' \in [Trips -> {"none", "inserted", "announced", "orphaned"}]
  BY <1>1, <1>2 DEF TypeOK
<1>7. faults' \in 0 .. MaxFaults
  BY <1>1, <1>2, TripFlowAssumption DEF TypeOK
<1>8. TypeOK'
  BY <1>1, <1>2, <1>5, <1>6, <1>7 DEF TypeOK, pages, stripe
<1>9. \A u \in Trips : creation'[u] = "none" <=> creation[u] = "none"
  BY <1>1, <1>2 DEF TypeOK
<1> HIDE DEF m
<1> QED BY <1>1, <1>4, <1>5, <1>8, <1>9, CarryInv DEF pages

\* What a page or its websocket does, except to answer.
LEMMA PageInv ==
  ASSUME Inv,
         UNCHANGED <<trips, creation, queue, dlq, work, shown, stripe, accepters>>,
         registered' \in SUBSET Drivers, faults' \in 0 .. MaxFaults,
         socket' \in [Drivers -> {"new", "open", "serving", "closed", "gone"}],
         rider' \in [Trips -> {"here", "gone"}],
         offer' \in [Drivers -> Trips \cup {None}],
         \A d \in Drivers : offer'[d] \in {offer[d], None}
  PROVE  Inv'
PROOF
<1>1. TypeOK'
  BY DEF Inv, TypeOK, stripe
<1> QED BY <1>1, CarryInv

\* An answer is about the request on the page.
LEMMA AnswerInv ==
  ASSUME Inv, NEW d \in Drivers, Accept(d) \/ Decline(d)
  PROVE  Inv'
PROOF
<1>1. PICK t \in Trips : offer[d] = t /\ offer[d] # None
  BY DEF Inv, TypeOK, Accept, Decline, Answer
<1>2. PICK key \in {DriverCmdTripAccept, DriverCmdTripDecline} :
        /\ Publish(Msg(key, t, d))
        /\ offer' = [offer EXCEPT ![d] = None]
        /\ accepters' = IF key = DriverCmdTripAccept
                        THEN [accepters EXCEPT ![t] = @ \cup {d}] ELSE accepters
        /\ UNCHANGED <<trips, creation, registered, dlq, work, socket, rider, shown, stripe, faults>>
  BY <1>1 DEF Accept, Decline, Answer
<1>3. TypeOK
  BY DEF Inv
<1>4. creation[t] # "none" /\ DriverPackage[d] = TripPackage[t]
  BY <1>1 DEF Inv, OfferIsSound
<1> DEFINE m == Msg(key, t, d)
<1>5. m \in Message /\ m.key = key /\ m.trip = t /\ m.driver = d
  BY MsgIsMessage
<1>6. /\ queue' \in [Message -> Nat]
      /\ \A n \in Message : queue'[n] > 0 => n = m \/ queue[n] > 0
  <2> HIDE DEF m
  <2> QED BY <1>2, <1>3, <1>5, PublishQueue DEF TypeOK, m
<1>7. \A u \in Trips : /\ accepters[u] \subseteq accepters'[u]
                       /\ accepters'[u] \subseteq accepters[u] \cup (IF u = t THEN {d} ELSE {})
                       /\ key = DriverCmdTripAccept => d \in accepters'[t]
  BY <1>2, <1>3 DEF TypeOK
<1>8. offer' \in [Drivers -> Trips \cup {None}] /\ accepters' \in [Trips -> SUBSET Drivers]
  BY <1>2, <1>3 DEF TypeOK
<1>9. TypeOK'
  BY <1>2, <1>3, <1>6, <1>8 DEF TypeOK, stripe
<1>10. Grows
  BY <1>2, <1>7 DEF Grows, Taken, Sessions, stripe
<1>11. TripIsSound'
  <2> SUFFICES ASSUME NEW u \in Trips
               PROVE  /\ creation[u] = "none" => trips[u].status = "none"
                      /\ Taken(u) => trips[u].driver \in Drivers
                      /\ trips[u].driver \in accepters'[u] \cup {None}
                      /\ Sessions(u) \subseteq accepters'[u]
                      /\ Sessions(u) # {} => Taken(u)
                      /\ payment[u] # "none" => Sessions(u) # {}
                      /\ trips[u].status = "payed" => payment[u] = "reported"
                      /\ \A e \in accepters'[u] : DriverPackage[e] = TripPackage[u]
    BY <1>2 DEF TripIsSound, Taken, Sessions, stripe
  <2> QED BY <1>4, <1>7 DEF Inv, TripIsSound
<1>12. Sound(m)'
  <2> HIDE DEF m
  <2> QED BY <1>2, <1>4, <1>5, <1>7 DEF Sound
<1>13. \A n \in Message : queue'[n] > 0 => queue[n] > 0 \/ Sound(n)'
  <2> HIDE DEF m
  <2> QED BY <1>5, <1>6, <1>12 DEF Sound, Taken, Sessions
<1>14. \A e \in Drivers : offer'[e] \in {offer[e], None}
  BY <1>2, <1>3 DEF TypeOK
<1> QED BY <1>2, <1>9, <1>10, <1>11, <1>13, <1>14, StepInv

\* Every step of a driver, with its page and its websocket.
LEMMA DriverInv ==
  ASSUME Inv, NEW d \in Drivers, Driver(d)
  PROVE  Inv'
PROOF
<1>1. /\ TypeOK /\ registered \in SUBSET Drivers /\ faults \in 0 .. MaxFaults
      /\ MaxFaults \in Nat
  BY TripFlowAssumption DEF Inv, TypeOK
<1>2. CASE Accept(d) \/ Decline(d)
  BY <1>2, AnswerInv
<1>3. CASE Connect(d) \/ Register(d) \/ Disconnect(d) \/ Unregister(d) \/ UnregisterFails(d)
           \/ AnswerLost(d)
  <2>1. UNCHANGED <<trips, creation, queue, dlq, work, rider, shown, stripe, accepters>>
    BY <1>3 DEF Connect, Register, Disconnect, Unregister, UnregisterFails, AnswerLost
  <2>2. registered' \in SUBSET Drivers
    BY <1>1, <1>3 DEF Connect, Register, Disconnect, Unregister, UnregisterFails, AnswerLost
  <2>3. faults' \in 0 .. MaxFaults
    <3>1. faults' = faults \/ (faults < MaxFaults /\ faults' = faults + 1)
      BY <1>3
      DEF Connect, Register, Disconnect, Unregister, UnregisterFails, AnswerLost, Faulty
    <3> QED BY <1>1, <3>1
  <2>4. socket' \in [Drivers -> {"new", "open", "serving", "closed", "gone"}]
    BY <1>1, <1>3
    DEF TypeOK, Connect, Register, Disconnect, Unregister, UnregisterFails, AnswerLost
  <2>5. offer' = offer \/ offer' = [offer EXCEPT ![d] = None]
    BY <1>3 DEF Connect, Register, Disconnect, Unregister, UnregisterFails, AnswerLost
  <2>6. /\ offer' \in [Drivers -> Trips \cup {None}]
        /\ \A e \in Drivers : offer'[e] \in {offer[e], None}
    BY <1>1, <2>5 DEF TypeOK
  <2>7. rider' \in [Trips -> {"here", "gone"}]
    BY <1>1, <2>1 DEF TypeOK
  <2> QED BY <2>1, <2>2, <2>3, <2>4, <2>6, <2>7, PageInv
<1> QED BY <1>2, <1>3 DEF Driver

\* What the gateway hands to a page says what is so; what the broker loses says
\* nothing any more.
LEMMA GatewayInv ==
  ASSUME Inv, NEW m \in Message, Gateway(m) \/ PublicationLost(m)
  PROVE  Inv'
PROOF
<1>1. /\ queue[m] > 0 /\ queue' = [queue EXCEPT ![m] = @ - 1]
      /\ UNCHANGED <<trips, creation, registered, dlq, work, socket, rider, stripe, accepters>>
  BY DEF Gateway, DeliverRequest, DeliverToRider, PublicationLost, pages
<1>2. TypeOK /\ MaxFaults \in Nat
  BY TripFlowAssumption DEF Inv
<1>3. Sound(m)
  BY <1>1 DEF Inv, QueuedIsSound
<1>4. /\ queue' \in [Message -> Nat]
      /\ \A n \in Message : queue'[n] > 0 => queue[n] > 0
  <2>1. queue \in [Message -> Nat]
    BY <1>2 DEF TypeOK
  <2> QED BY <1>1, <2>1, ConsumeQueue
<1>5. faults' \in 0 .. MaxFaults
  <2>1. faults' = faults \/ (faults < MaxFaults /\ faults' = faults + 1)
    BY DEF Gateway, DeliverRequest, DeliverToRider, PublicationLost, Faulty
  <2> QED BY <1>2, <2>1 DEF TypeOK
<1>6. m.trip \in Trips
  BY MessageFields
<1>7. /\ shown' \in [Trips -> SUBSET Message]
      /\ \A t \in Trips : \A n \in shown'[t] : n \in shown[t] \/ (n = m /\ m.trip = t)
  <2>1. shown \in [Trips -> SUBSET Message]
    BY <1>2 DEF TypeOK
  <2>2. shown' \in {shown, [shown EXCEPT ![m.trip] = @ \cup {m}]}
    BY DEF Gateway, DeliverRequest, DeliverToRider, PublicationLost, pages
  <2> QED BY <1>6, <2>1, <2>2
<1>8. /\ offer' \in [Drivers -> Trips \cup {None}]
      /\ \A d \in Drivers :
           \/ offer'[d] \in {offer[d], None}
           \/ creation'[offer'[d]] # "none" /\ DriverPackage[d] = TripPackage[offer'[d]]
  <2>1. offer \in [Drivers -> Trips \cup {None}]
    BY <1>2 DEF TypeOK
  <2>2. CASE offer' = offer
    BY <2>1, <2>2
  <2>3. CASE m.key = DriverCmdTripRequest /\ offer' = [offer EXCEPT ![m.driver] = m.trip]
    <3>1. /\ m.driver \in Drivers /\ creation[m.trip] # "none"
          /\ DriverPackage[m.driver] = TripPackage[m.trip]
      BY <1>3, <2>3, MessageFields DEF Sound
    <3>2. \A d \in Drivers : offer'[d] = IF d = m.driver THEN m.trip ELSE offer[d]
      BY <2>1, <2>3
    <3>3. offer' \in [Drivers -> Trips \cup {None}]
      BY <1>6, <2>1, <2>3
    <3> QED BY <1>1, <3>1, <3>2, <3>3
  <2>4. offer' = offer
        \/ (m.key = DriverCmdTripRequest /\ offer' = [offer EXCEPT ![m.driver] = m.trip])
    BY DEF Gateway, DeliverRequest, DeliverToRider, PublicationLost, pages
  <2> QED BY <2>2, <2>3, <2>4
<1>9. TypeOK'
  BY <1>1, <1>2, <1>4, <1>5, <1>7, <1>8 DEF TypeOK, stripe
<1> QED BY <1>1, <1>3, <1>4, <1>7, <1>8, <1>9, CarryInv

\* A rider pays a session that was opened; Stripe reports a payment that was made.
LEMMA RiderInv ==
  ASSUME Inv, NEW t \in Trips, Rider(t)
  PROVE  Inv'
PROOF
<1> DEFINE m == Msg(PaymentEventSuccess, t, None)
<1>1. TypeOK /\ MaxFaults \in Nat
  BY TripFlowAssumption DEF Inv
<1>2. CASE RiderLeaves(t)
  <2>1. rider' \in [Trips -> {"here", "gone"}]
    BY <1>1, <1>2 DEF RiderLeaves, TypeOK
  <2> QED BY <1>1, <1>2, <2>1, PageInv DEF RiderLeaves, TypeOK
<1>3. CASE RiderPays(t) \/ Webhook(t) \/ WebhookRepeated(t)
  <2>1. /\ UNCHANGED <<trips, creation, registered, dlq, work, socket, offer, shown,
                       sessions, webhookKey, accepters>>
        /\ (Publish(m) \/ queue' = queue)
        /\ rider' \in {rider, [rider EXCEPT ![t] = "gone"]}
        /\ payment' \in {payment, [payment EXCEPT ![t] = "paid"], [payment EXCEPT ![t] = "reported"]}
        /\ faults' = faults \/ (faults < MaxFaults /\ faults' = faults + 1)
    BY <1>3 DEF RiderPays, Webhook, WebhookRepeated, Faulty, pages, stripe
  <2>2. /\ \A u \in Trips : payment[u] = "reported" => payment'[u] = "reported"
        /\ \A u \in Trips : u # t => payment'[u] = payment[u]
        /\ queue' = queue \/ payment'[t] = "reported"
    BY <1>1, <1>3 DEF RiderPays, Webhook, WebhookRepeated, TypeOK, stripe
  <2>3. Sessions(t) # {}
    <3>1. CASE RiderPays(t)
      <4>1. Msg(PaymentEventSessionCreated, t, None) \in shown[t]
        BY <3>1 DEF RiderPays
      <4>2. Sound(Msg(PaymentEventSessionCreated, t, None))
        BY <4>1 DEF Inv, ShownIsSound
      <4> QED BY <4>2, MsgIsMessage DEF Sound
    <3>2. CASE payment[t] # "none"
      BY <3>2 DEF Inv, TripIsSound
    <3> QED BY <1>3, <3>1, <3>2 DEF Webhook, WebhookRepeated
  <2>4. creation[t] # "none"
    BY <2>3 DEF Inv, TripIsSound, Taken
  <2>5. m \in Message /\ m.key = PaymentEventSuccess /\ m.trip = t
    BY MsgIsMessage
  <2>6. /\ queue' \in [Message -> Nat]
        /\ \A n \in Message : queue'[n] > 0 => queue[n] > 0 \/ (n = m /\ payment'[t] = "reported")
    <3>1. queue \in [Message -> Nat]
      BY <1>1 DEF TypeOK
    <3> HIDE DEF m
    <3> QED BY <2>1, <2>2, <2>5, <3>1, PublishQueue
  <2>7. TypeOK'
    <3>1. payment' \in [Trips -> {"none", "paid", "reported"}]
      BY <1>1, <2>1 DEF TypeOK
    <3>2. rider' \in [Trips -> {"here", "gone"}]
      BY <1>1, <2>1 DEF TypeOK
    <3>3. faults' \in 0 .. MaxFaults
      BY <1>1, <2>1 DEF TypeOK
    <3> QED BY <1>1, <2>1, <2>6, <3>1, <3>2, <3>3 DEF TypeOK
  <2>8. Grows
    BY <2>1, <2>2 DEF Grows, Taken, Sessions
  <2>9. TripIsSound'
    <3> SUFFICES ASSUME NEW u \in Trips
                 PROVE  /\ creation[u] = "none" => trips[u].status = "none"
                        /\ Taken(u) => trips[u].driver \in Drivers
                        /\ trips[u].driver \in accepters[u] \cup {None}
                        /\ Sessions(u) \subseteq accepters[u]
                        /\ Sessions(u) # {} => Taken(u)
                        /\ payment'[u] # "none" => Sessions(u) # {}
                        /\ trips[u].status = "payed" => payment'[u] = "reported"
                        /\ \A e \in accepters[u] : DriverPackage[e] = TripPackage[u]
      BY <2>1 DEF TripIsSound, Taken, Sessions
    <3> QED BY <2>2, <2>3 DEF Inv, TripIsSound
  <2>10. \A n \in Message : queue'[n] > 0 => queue[n] > 0 \/ Sound(n)'
    <3> HIDE DEF m
    <3> QED BY <2>1, <2>4, <2>5, <2>6 DEF Sound, Taken, Sessions
  <2> QED BY <2>1, <2>7, <2>8, <2>9, <2>10, StepInv
<1> QED BY <1>2, <1>3 DEF Rider

\* What a service was working on goes back to the queue, as sound as before.
LEMMA CrashInv ==
  ASSUME Inv, NEW s \in Services, Crash(s)
  PROVE  Inv'
PROOF
<1> DEFINE held == {g \in Goroutines : work[g] # Idle /\ ServiceOf(work[g].msg.key) = s}
           back(m) == {g \in held : work[g].msg = m}
<1>1. /\ faults < MaxFaults /\ faults' = faults + 1
      /\ queue' = [m \in Message |-> queue[m] + Cardinality(back(m))]
      /\ work' = [g \in Goroutines |-> IF g \in held THEN Idle ELSE work[g]]
      /\ creation' = [t \in Trips |-> IF s = "trip-service" /\ creation[t] = "inserted"
                                      THEN "orphaned" ELSE creation[t]]
      /\ registered' = IF s = "driver-service" THEN {} ELSE registered
      /\ UNCHANGED <<trips, dlq, pages, stripe, accepters>>
  BY DEF Crash
<1>2. TypeOK /\ MaxFaults \in Nat
  BY TripFlowAssumption DEF Inv
<1>3. ASSUME NEW m \in Message
      PROVE  Cardinality(back(m)) \in Nat /\ (Cardinality(back(m)) > 0 => Sound(m))
  <2>1. IsFiniteSet(back(m))
    BY FS_Subset, TripFlowAssumption
  <2>2. Cardinality(back(m)) \in Nat /\ (Cardinality(back(m)) = 0 <=> back(m) = {})
    BY <2>1, FS_CardinalityType, FS_EmptySet
  <2>3. ASSUME NEW g \in back(m) PROVE Sound(m)
    BY DEF Inv, WorkIsSound, SoundWork
  <2> QED BY <2>2, <2>3
<1>4. /\ queue' \in [Message -> Nat]
      /\ \A m \in Message : queue'[m] > 0 => queue[m] > 0 \/ Sound(m)
  <2> SUFFICES ASSUME NEW m \in Message
               PROVE  /\ queue[m] + Cardinality(back(m)) \in Nat
                      /\ queue[m] + Cardinality(back(m)) > 0 => queue[m] > 0 \/ Sound(m)
    BY <1>1
  <2>1. queue[m] \in Nat
    BY <1>2 DEF TypeOK
  <2> HIDE DEF back
  <2> QED BY <1>3, <2>1
<1>5. \A g \in Goroutines : work'[g] \in {work[g], Idle}
  BY <1>1
<1>6. \A t \in Trips : creation'[t] = "none" <=> creation[t] = "none"
  BY <1>1
<1>7. TypeOK'
  <2>1. work' \in [Goroutines -> Work \cup {Idle}]
    BY <1>1, <1>2 DEF TypeOK
  <2>2. creation' \in [Trips -> {"none", "inserted", "announced", "orphaned"}]
    BY <1>1, <1>2 DEF TypeOK
  <2>3. faults' \in 0 .. MaxFaults /\ registered' \in SUBSET Drivers
    BY <1>1, <1>2 DEF TypeOK
  <2> QED BY <1>1, <1>2, <1>4, <2>1, <2>2, <2>3 DEF TypeOK, pages, stripe
<1> QED BY <1>1, <1>4, <1>5, <1>6, <1>7, CarryInv DEF pages

LEMMA CrashGatewayInv ==
  ASSUME Inv, CrashGateway
  PROVE  Inv'
PROOF
<1>1. TypeOK /\ MaxFaults \in Nat
  BY TripFlowAssumption DEF Inv
<1>2. registered' \in SUBSET Drivers /\ faults' \in 0 .. MaxFaults
  BY <1>1 DEF CrashGateway, TypeOK
<1>3. /\ socket' \in [Drivers -> {"new", "open", "serving", "closed", "gone"}]
      /\ rider' \in [Trips -> {"here", "gone"}]
      /\ offer' \in [Drivers -> Trips \cup {None}]
      /\ \A d \in Drivers : offer'[d] \in {offer[d], None}
  BY <1>1 DEF CrashGateway, TypeOK
<1> QED BY <1>2, <1>3, PageInv DEF CrashGateway

-----------------------------------------------------------------------------
(* The theorems *)

LEMMA InitInv == Init => Inv
PROOF
<1> SUFFICES ASSUME Init PROVE Inv
  OBVIOUS
<1>1. TypeOK
  BY TripFlowAssumption DEF Init, TypeOK
<1>2. QueuedIsSound /\ WorkIsSound /\ ShownIsSound /\ OfferIsSound
  BY DEF Init, QueuedIsSound, WorkIsSound, ShownIsSound, OfferIsSound
<1>3. TripIsSound
  BY DEF Init, TripIsSound, Taken, Sessions
<1> QED BY <1>1, <1>2, <1>3 DEF Inv

LEMMA NextInv == Inv /\ [Next]_vars => Inv'
PROOF
<1> SUFFICES ASSUME Inv, [Next]_vars PROVE Inv'
  OBVIOUS
<1>1. CASE \E t \in Trips : Creation(t) \/ Rider(t)
  BY <1>1, InsertInv, AnnouncedInv, RiderInv DEF Creation
<1>2. CASE \E d \in Drivers : Driver(d)
  BY <1>2, DriverInv
<1>3. CASE \E g \in Goroutines : Goroutine(g)
  BY <1>3, ConsumerInv, HandleInv DEF Goroutine
<1>4. CASE \E m \in Message : Gateway(m) \/ PublicationLost(m)
  BY <1>4, GatewayInv
<1>5. CASE \E s \in Services : Crash(s)
  BY <1>5, CrashInv
<1>6. CASE CrashGateway
  BY <1>6, CrashGatewayInv
<1>7. CASE UNCHANGED vars
  BY <1>7, PageInv DEF vars, pages, Inv, TypeOK
<1> QED BY <1>1, <1>2, <1>3, <1>4, <1>5, <1>6, <1>7 DEF Next

\* In every reachable state every message, in a queue, in a handler or on a page,
\* says what is so.
THEOREM Invariance == Spec => []Inv
PROOF
<1> QED BY InitInv, NextInv, PTL DEF Spec

\* Every variable stays in its domain; in particular a handler fails at most
\* MaxRetries + 1 times.
THEOREM TypeCorrect == Spec => []TypeOK
PROOF
<1>1. Inv => TypeOK
  BY DEF Inv
<1> QED BY <1>1, Invariance, PTL

\* Only a driver who has accepted a trip is stored in it, announced to its rider
\* or named in its Stripe session.
THEOREM AssignedHaveAccepted == Spec => []OnlyAcceptersAreAssigned
PROOF
<1>1. Inv => OnlyAcceptersAreAssigned
  BY DEF Inv, OnlyAcceptersAreAssigned, TripIsSound, ShownIsSound, Sound
<1> QED BY <1>1, Invariance, PTL

\* Only drivers of the package a trip is booked with accept it.
THEOREM AcceptersSuitTheTrip == Spec => []PackageRespected
PROOF
<1>1. Inv => PackageRespected
  BY DEF Inv, PackageRespected, TripIsSound
<1> QED BY <1>1, Invariance, PTL

\* A trip is stored as payed only if Stripe has reported a payment of a session
\* that was opened for it.
THEOREM PayedTripsArePaid == Spec => []PayedIsPaidFor
PROOF
<1>1. Inv => PayedIsPaidFor
  BY TripFlowAssumption DEF Inv, PayedIsPaidFor, TripIsSound, Taken
<1> QED BY <1>1, Invariance, PTL

-----------------------------------------------------------------------------
(* The ledger *)

\* A trip whose creation has begun is in MongoDB.
CreatedIsStored == \A t \in Trips : creation[t] # "none" => trips[t].status # "none"

\* What was created is stored, whatever fails.
LEMMA StoredStays == Inv /\ CreatedIsStored /\ [Next]_vars => CreatedIsStored'
PROOF
<1> SUFFICES ASSUME Inv, CreatedIsStored, [Next]_vars, NEW u \in Trips, creation'[u] # "none"
             PROVE  trips'[u].status # "none"
  BY DEF CreatedIsStored
<1>1. CASE UNCHANGED <<trips, creation>>
  BY <1>1 DEF CreatedIsStored
<1>2. ASSUME NEW t \in Trips, Creation(t) PROVE trips'[u].status # "none"
  <2>1. CASE InsertTrip(t)
    <3>1. /\ trips'[t].status = "Pending"
          /\ u # t => trips'[u] = trips[u] /\ creation'[u] = creation[u]
      BY <2>1 DEF InsertTrip, Inv, TypeOK
    <3> QED BY <3>1 DEF CreatedIsStored
  <2>2. CASE PublishTripCreated(t) \/ PublishTripCreatedFails(t)
    <3>1. trips' = trips /\ creation[t] = "inserted" /\ (u # t => creation'[u] = creation[u])
      BY <2>2 DEF PublishTripCreated, PublishTripCreatedFails, Inv, TypeOK
    <3>2. creation[u] # "none"
      BY <3>1
    <3> QED BY <3>1, <3>2 DEF CreatedIsStored
  <2> QED BY <1>2, <2>1, <2>2 DEF Creation
<1>3. ASSUME NEW g \in Goroutines, Assign(g) \/ Settle(g) PROVE trips'[u].status # "none"
  <2>1. PICK t \in Trips : t = work[g].msg.trip
    BY <1>3, AtWork DEF Assign, Settle, At
  <2>2. \/ trips' = trips
        \/ \E status \in {"accepted", "payed"} : \E d :
             trips' = [trips EXCEPT ![t] = [status |-> status, driver |-> d]]
    BY <1>3, <2>1 DEF Assign, Settle, UpdateTrip, Updated
  <2>3. trips'[u] = trips[u] \/ trips'[u].status \in {"accepted", "payed"}
    BY <2>2 DEF Inv, TypeOK
  <2>4. creation' = creation
    BY <1>3 DEF Assign, Settle
  <2> QED BY <2>3, <2>4 DEF CreatedIsStored
<1>4. ASSUME NEW s \in Services, Crash(s) PROVE trips'[u].status # "none"
  BY <1>4 DEF Crash, CreatedIsStored, Inv, TypeOK
<1>5. CASE \E t \in Trips : Rider(t)
  BY <1>1, <1>5 DEF Rider, RiderLeaves, RiderPays, Webhook, WebhookRepeated
<1>6. CASE \E d \in Drivers : Driver(d)
  BY <1>1, <1>6 DEF Driver, Connect, Register, Disconnect, Unregister, UnregisterFails,
     Accept, Decline, Answer, AnswerLost
<1>7. ASSUME NEW g \in Goroutines, Goroutine(g) PROVE trips'[u].status # "none"
  <2>1. CASE Assign(g) \/ Settle(g)
    BY <1>3, <2>1
  <2>2. CASE Goroutine(g) /\ ~(Assign(g) \/ Settle(g))
    BY <1>1, <2>2 DEF Goroutine, Handle, Take, StepFails, Ack, Reject, Match, Reread,
       Announce, Charge, Reoffer, OpenSession, Notify
  <2> QED BY <1>7, <2>1, <2>2
<1>8. CASE \E m \in Message : Gateway(m) \/ PublicationLost(m)
  BY <1>1, <1>8 DEF Gateway, DeliverRequest, DeliverToRider, PublicationLost
<1>9. CASE CrashGateway
  BY <1>1, <1>9 DEF CrashGateway
<1> QED BY <1>1, <1>2, <1>4, <1>5, <1>6, <1>7, <1>8, <1>9 DEF Next, vars

\* What a handler does to the documents, the ledger does.
LEMMA HandlerKeepsLedger ==
  ASSUME Inv, NEW g \in Goroutines, Goroutine(g)
  PROVE  Ledger!Next \/ UNCHANGED Ledger!ledger
PROOF
<1>1. CASE Assign(g)
  <2>1. work[g].step = "assign" /\ UNCHANGED <<sessions, payment, accepters>>
    BY <1>1 DEF Assign, At, stripe
  <2>2. /\ work[g].msg.trip \in Trips /\ work[g].msg.driver \in Drivers
        /\ work[g].msg.driver \in accepters[work[g].msg.trip]
    BY <2>1, AtWork, MessageFields DEF SoundWork, Sound
  <2>3. PICK t \in Trips, d \in Drivers : t = work[g].msg.trip /\ d = work[g].msg.driver
    BY <2>2
  <2>4. Updated(t, "accepted", d) = [status |-> "accepted", driver |-> d]
    BY TripFlowAssumption DEF Updated
  <2>5. \/ trips' = trips
        \/ trips' = [trips EXCEPT ![t] = [status |-> "accepted", driver |-> d]]
    BY <1>1, <2>3, <2>4 DEF Assign, UpdateTrip
  <2>6. trips' # trips => Ledger!Assign(t, d)
    BY <2>1, <2>2, <2>3, <2>5 DEF Ledger!Assign
  <2> QED BY <2>1, <2>6 DEF Ledger!Next, Ledger!ledger
<1>2. CASE Settle(g)
  <2>1. work[g].step = "settle" /\ UNCHANGED <<sessions, payment, accepters>>
    BY <1>2 DEF Settle, At, stripe
  <2>2. PICK t \in Trips : t = work[g].msg.trip /\ payment[t] = "reported"
    BY <2>1, AtWork DEF SoundWork, Sound
  <2>3. trips \in [Trips -> [status : {"none", "Pending", "accepted", "payed"},
                             driver : Drivers \cup {None}]]
    BY DEF Inv, TypeOK
  <2>4. Updated(t, "payed", None) = [trips[t] EXCEPT !.status = "payed"]
    BY <2>3 DEF Updated
  <2>5. trips' = trips \/ trips' = [trips EXCEPT ![t].status = "payed"]
    BY <1>2, <2>2, <2>3, <2>4 DEF Settle, UpdateTrip
  <2>6. trips' # trips => Ledger!Settle(t)
    BY <2>1, <2>2, <2>5 DEF Ledger!Settle
  <2> QED BY <2>1, <2>6 DEF Ledger!Next, Ledger!ledger
<1>3. CASE OpenSession(g)
  <2>1. work[g].step = "open session" /\ UNCHANGED <<trips, payment, accepters>>
    BY <1>3 DEF OpenSession, At
  <2>2. /\ work[g].msg.trip \in Trips /\ work[g].msg.driver \in Drivers
        /\ work[g].msg.driver \in accepters[work[g].msg.trip]
        /\ trips[work[g].msg.trip].status \in {"accepted", "payed"}
    BY <2>1, AtWork, MessageFields DEF SoundWork, Sound, Taken
  <2>3. PICK t \in Trips, d \in Drivers : t = work[g].msg.trip /\ d = work[g].msg.driver
    BY <2>2
  <2>4. sessions' = [sessions EXCEPT ![t][d] = @ + 1]
    BY <1>3, <2>3 DEF OpenSession
  <2>5. Ledger!OpenSession(t, d)
    BY <2>1, <2>2, <2>3, <2>4 DEF Ledger!OpenSession
  <2> QED BY <2>5 DEF Ledger!Next
<1>4. CASE ~(Assign(g) \/ Settle(g) \/ OpenSession(g))
  <2>1. UNCHANGED <<trips, accepters, sessions, payment>>
    BY <1>4 DEF Goroutine, Handle, Take, StepFails, Ack, Reject, Match, Reread, Announce,
       Charge, Reoffer, Notify, stripe
  <2> QED BY <2>1 DEF Ledger!ledger
<1> QED BY <1>1, <1>2, <1>3, <1>4

\* What every step does to the records, the ledger does.
LEMMA NextKeepsLedger ==
  Inv /\ CreatedIsStored /\ [Next]_vars => [Ledger!Next]_(Ledger!ledger)
PROOF
<1> SUFFICES ASSUME Inv, CreatedIsStored, [Next]_vars
             PROVE  Ledger!Next \/ UNCHANGED Ledger!ledger
  OBVIOUS
<1>1. CASE UNCHANGED <<trips, accepters, stripe>>
  BY <1>1 DEF stripe, Ledger!ledger
<1>2. ASSUME NEW t \in Trips, Creation(t) PROVE Ledger!Next \/ UNCHANGED Ledger!ledger
  <2>1. CASE InsertTrip(t)
    <3>1. /\ trips[t].status = "none"
          /\ trips' = [trips EXCEPT ![t].status = "Pending"]
          /\ UNCHANGED <<accepters, sessions, payment>>
      BY <2>1 DEF InsertTrip, stripe, Inv, TripIsSound
    <3> QED BY <3>1 DEF Ledger!Next, Ledger!Request
  <2> QED BY <1>1, <1>2, <2>1 DEF Creation, PublishTripCreated, PublishTripCreatedFails
<1>3. ASSUME NEW t \in Trips, Rider(t) PROVE Ledger!Next \/ UNCHANGED Ledger!ledger
  <2>1. CASE RiderPays(t)
    <3>1. PICK m \in Message : m = Msg(PaymentEventSessionCreated, t, None)
                               /\ m.key = PaymentEventSessionCreated /\ m.trip = t
      BY MsgIsMessage
    <3>2. m \in shown[t]
      BY <2>1, <3>1 DEF RiderPays
    <3>3. Sessions(t) # {}
      BY <3>1, <3>2 DEF Inv, ShownIsSound, Sound
    <3>4. Ledger!Pay(t)
      BY <2>1, <3>3 DEF RiderPays, Sessions, Ledger!Pay
    <3> QED BY <3>4 DEF Ledger!Next
  <2>2. CASE Webhook(t)
    <3>1. Ledger!Report(t)
      BY <2>2 DEF Webhook, Ledger!Report
    <3> QED BY <3>1 DEF Ledger!Next
  <2> QED BY <1>1, <1>3, <2>1, <2>2 DEF Rider, RiderLeaves, WebhookRepeated
<1>4. ASSUME NEW d \in Drivers, Driver(d) PROVE Ledger!Next \/ UNCHANGED Ledger!ledger
  <2>1. CASE Accept(d)
    <3>1. PICK t \in Trips : t = offer[d]
      BY <2>1 DEF Accept, Answer, Inv, TypeOK
    <3>2. /\ accepters' = [accepters EXCEPT ![t] = @ \cup {d}]
          /\ UNCHANGED <<trips, sessions, payment>>
      BY <2>1, <3>1 DEF Accept, Answer, stripe
    <3>3. creation[t] # "none" /\ DriverPackage[d] = TripPackage[t]
      BY <2>1, <3>1 DEF Accept, Answer, Inv, OfferIsSound
    <3>4. Ledger!Accept(t, d)
      BY <3>2, <3>3 DEF CreatedIsStored, Ledger!Accept
    <3> QED BY <3>4 DEF Ledger!Next
  <2> QED BY <1>1, <1>4, <2>1 DEF Driver, Connect, Register, Disconnect, Unregister,
          UnregisterFails, Decline, Answer, AnswerLost
<1>5. CASE \E g \in Goroutines : Goroutine(g)
  BY <1>5, HandlerKeepsLedger
<1>6. CASE \E m \in Message : Gateway(m) \/ PublicationLost(m)
  BY <1>1, <1>6 DEF Gateway, DeliverRequest, DeliverToRider, PublicationLost
<1>7. CASE (\E s \in Services : Crash(s)) \/ CrashGateway
  BY <1>1, <1>7 DEF Crash, CrashGateway
<1>8. CASE UNCHANGED vars
  BY <1>1, <1>8 DEF vars
<1> QED BY <1>2, <1>3, <1>4, <1>5, <1>6, <1>7, <1>8 DEF Next

\* In every run, whatever fails, what is on record of a trip goes through the steps
\* of TripLedger.
THEOREM ImplementsTripLedger == Spec => KeepsTheLedger
PROOF
<1>1. Init => Ledger!Init /\ CreatedIsStored
  BY DEF Init, Ledger!Init, CreatedIsStored
<1>2. Inv /\ CreatedIsStored /\ [Next]_vars => CreatedIsStored'
  BY StoredStays
<1> QED BY <1>1, <1>2, NextKeepsLedger, Invariance, PTL DEF Spec, KeepsTheLedger, Ledger!Spec

-----------------------------------------------------------------------------
(* What the ledger is good for *)

\* What the records of a ledger say of each other.
LedgerIsSound == \A t \in Trips :
  /\ accepters[t] \in SUBSET Drivers
  /\ sessions[t] \in [Drivers -> Nat]
  /\ trips[t] \in [status : {"none", "Pending", "accepted", "payed"},
                   driver : Drivers \cup {None}]
  /\ \A d \in accepters[t] : DriverPackage[d] = TripPackage[t]
  /\ Taken(t) => trips[t].driver \in accepters[t]
  /\ Sessions(t) # {} => Taken(t)
  /\ Sessions(t) \subseteq accepters[t]
  /\ payment[t] # "none" => Sessions(t) # {}
  /\ trips[t].status = "payed" => payment[t] = "reported"

LedgerTyped ==
  /\ trips = [t \in Trips |-> trips[t]]
  /\ accepters = [t \in Trips |-> accepters[t]]
  /\ sessions = [t \in Trips |-> sessions[t]]
  /\ payment = [t \in Trips |-> payment[t]]

\* A step of the ledger leaves the records of other trips alone.
LEMMA LedgerStep ==
  ASSUME LedgerTyped, LedgerIsSound, [Ledger!Next]_(Ledger!ledger)
  PROVE  LedgerTyped' /\ LedgerIsSound'
PROOF
<1> USE DEF LedgerTyped, LedgerIsSound, Taken, Sessions
<1>1. CASE UNCHANGED Ledger!ledger
  BY <1>1 DEF Ledger!ledger
<1>2. ASSUME NEW t \in Trips, Ledger!Request(t) PROVE LedgerTyped' /\ LedgerIsSound'
  BY <1>2 DEF Ledger!Request
<1>3. ASSUME NEW t \in Trips, NEW d \in Drivers, Ledger!Accept(t, d)
      PROVE  LedgerTyped' /\ LedgerIsSound'
  BY <1>3 DEF Ledger!Accept
<1>4. ASSUME NEW t \in Trips, NEW d \in Drivers, Ledger!Assign(t, d)
      PROVE  LedgerTyped' /\ LedgerIsSound'
  BY <1>4 DEF Ledger!Assign
<1>5. ASSUME NEW t \in Trips, NEW d \in Drivers, Ledger!OpenSession(t, d)
      PROVE  LedgerTyped' /\ LedgerIsSound'
  <2> USE DEF Ledger!OpenSession
  <2>1. UNCHANGED <<trips, accepters, payment>> /\ d \in accepters[t] /\ Taken(t)
    BY <1>5
  <2>2. sessions[t] \in [Drivers -> Nat] /\ sessions = [u \in Trips |-> sessions[u]]
    OBVIOUS
  <2>3. sessions' = [sessions EXCEPT ![t] = [sessions[t] EXCEPT ![d] = @ + 1]]
    BY <1>5
  <2>4. /\ sessions' = [u \in Trips |-> sessions'[u]]
        /\ sessions'[t] = [sessions[t] EXCEPT ![d] = @ + 1]
        /\ \A u \in Trips \ {t} : sessions'[u] = sessions[u]
    BY <2>2, <2>3
  <2>5. sessions'[t] \in [Drivers -> Nat]
    BY <2>2, <2>4
  <2>6. \A e \in Drivers : sessions'[t][e] = IF e = d THEN sessions[t][d] + 1 ELSE sessions[t][e]
    BY <2>2, <2>4
  <2>7. LedgerTyped'
    BY <2>1, <2>4
  <2>8. Sessions(t)' = Sessions(t) \cup {d}
    BY <2>2, <2>6
  <2> DEFINE Line(u) ==
        /\ accepters[u] \in SUBSET Drivers
        /\ sessions[u] \in [Drivers -> Nat]
        /\ trips[u] \in [status : {"none", "Pending", "accepted", "payed"},
                         driver : Drivers \cup {None}]
        /\ \A e \in accepters[u] : DriverPackage[e] = TripPackage[u]
        /\ Taken(u) => trips[u].driver \in accepters[u]
        /\ Sessions(u) # {} => Taken(u)
        /\ Sessions(u) \subseteq accepters[u]
        /\ payment[u] # "none" => Sessions(u) # {}
        /\ trips[u].status = "payed" => payment[u] = "reported"
  <2>9. ASSUME NEW u \in Trips PROVE Line(u)'
    <3>1. CASE u = t
      <4> HIDE DEF Sessions
      <4> QED BY <2>1, <2>5, <2>8, <3>1
    <3>2. CASE u # t
      <4>1. UNCHANGED <<trips[u], accepters[u], payment[u], sessions[u]>>
        BY <2>1, <2>4, <3>2
      <4> QED BY <4>1
    <3> QED BY <3>1, <3>2
  <2>10. LedgerIsSound'
    BY <2>9
  <2> QED BY <2>7, <2>10
<1>6. ASSUME NEW t \in Trips, Ledger!Pay(t) PROVE LedgerTyped' /\ LedgerIsSound'
  BY <1>6 DEF Ledger!Pay
<1>7. ASSUME NEW t \in Trips, Ledger!Report(t) PROVE LedgerTyped' /\ LedgerIsSound'
  BY <1>7 DEF Ledger!Report
<1>8. ASSUME NEW t \in Trips, Ledger!Settle(t) PROVE LedgerTyped' /\ LedgerIsSound'
  BY <1>8 DEF Ledger!Settle
<1> QED BY <1>1, <1>2, <1>3, <1>4, <1>5, <1>6, <1>7, <1>8 DEF Ledger!Next

\* Whatever keeps the ledger is paid for what it books as payed, and has drivers of the
\* right package only.
THEOREM LedgerSuffices == KeepsTheLedger => [](PayedIsPaidFor /\ PackageRespected)
PROOF
<1>1. Ledger!Init => LedgerTyped /\ LedgerIsSound
  BY DEF Ledger!Init, LedgerTyped, LedgerIsSound, Taken, Sessions
<1>2. LedgerTyped /\ LedgerIsSound /\ [Ledger!Next]_(Ledger!ledger)
        => LedgerTyped' /\ LedgerIsSound'
  BY LedgerStep
<1>3. LedgerTyped /\ LedgerIsSound => PayedIsPaidFor /\ PackageRespected
  BY TripFlowAssumption DEF LedgerIsSound, PayedIsPaidFor, PackageRespected, Taken
<1> QED BY <1>1, <1>2, <1>3, PTL DEF KeepsTheLedger, Ledger!Spec

=============================================================================

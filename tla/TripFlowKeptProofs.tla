------------------------- MODULE TripFlowKeptProofs -------------------------
(***************************************************************************)
(* What is not lost on a trip's way through the services, for any trips,   *)
(* drivers, goroutines, retries and faults: an acceptance leads to a       *)
(* Stripe session or is kept in the dead letter queue, a payment reported  *)
(* to a gateway that has its webhook key is stored, and the search for a   *)
(* driver goes on until it has an end.                                     *)
(*                                                                         *)
(* The argument follows one message.  A failing step, a crash and a        *)
(* rejection move it to another place; only a publication that never       *)
(* arrived, and the last step of its handler, let go of it (KeptOrDone).   *)
(* What remains is what that last step leaves behind: the next message, a  *)
(* session, a stored payment; and, for the search, what a driver's page    *)
(* does with a request.                                                    *)
(***************************************************************************)
EXTENDS TripFlowCalmProofs

\* The goroutine has the message in hand and is not done with it.
WorksOn(g, m) == work[g] # Idle /\ work[g].msg = m /\ ~At(g, "ack")

\* The last step of a handler.
Ends(g) == Match(g) \/ Charge(g) \/ Reoffer(g) \/ Settle(g) \/ Notify(g)

\* A handler searches for a driver only for the messages that ask for it; and the
\* session it tells the rider of is the one of its own driver.
CarriesIt(w) ==
  /\ w.step = "match" => w.msg.key \in {TripEventCreated, TripEventDriverNotInterested}
  /\ w.step = "reoffer" => w.msg.key = DriverCmdTripDecline
  /\ w.step = "notify" => w.msg.driver \in Sessions(w.msg.trip)

CarriedOn == \A g \in Goroutines : work[g] # Idle => CarriesIt(work[g])

USE DEF TripEventCreated, TripEventDriverNotInterested, TripEventDriverAssigned,
        TripEventNoDriversFound, DriverCmdTripRequest, DriverCmdTripAccept,
        DriverCmdTripDecline, PaymentCmdCreateSession, PaymentEventSessionCreated,
        PaymentEventSuccess

-----------------------------------------------------------------------------
(* A message is kept *)

\* A step that takes nothing from the goroutines, the queue of the message and the
\* dead letter queue.
LEMMA UntouchedIsKept ==
  ASSUME NEW m \in Message, Kept(m), UNCHANGED <<work, dlq>>, queue[m] > 0 => queue'[m] > 0
  PROVE  Kept(m)'
PROOF
<1> QED BY DEF Kept, At

\* A goroutine that hands its message on to a queue, or keeps it.
LEMMA MovedIsKept ==
  ASSUME NEW m \in Message, Kept(m), NEW g \in Goroutines,
         \A h \in Goroutines : h # g => work'[h] = work[h],
         queue[m] > 0 => queue'[m] > 0 \/ WorksOn(g, m)',
         m \in dlq => m \in dlq',
         WorksOn(g, m) => WorksOn(g, m)' \/ m \in dlq'
  PROVE  Kept(m)'
PROOF
<1>1. WorksOn(g, m)' => Kept(m)'
  BY DEF Kept, WorksOn
<1>2. ASSUME NEW h \in Goroutines, h # g, WorksOn(h, m) PROVE Kept(m)'
  <2>1. WorksOn(h, m)'
    BY <1>2 DEF WorksOn, At
  <2> QED BY <2>1 DEF Kept, WorksOn
<1> QED BY <1>1, <1>2 DEF Kept, WorksOn

\* What a goroutine does to a message: it keeps it, whatever fails, to the end.
LEMMA GoroutineKeeps ==
  ASSUME Inv, NEW m \in Message, Kept(m), NEW g \in Goroutines, Goroutine(g),
         ~(WorksOn(g, m) /\ Ends(g))
  PROVE  Kept(m)'
PROOF
<1>1. queue \in [Message -> Nat] /\ work \in [Goroutines -> Work \cup {Idle}]
  BY DEF Inv, TypeOK
<1>2. ASSUME NEW n \in Message, Take(g, n) PROVE Kept(m)'
  <2>1. /\ work[g] = Idle /\ n.key \in WorkKeys /\ dlq' = dlq
        /\ \A h \in Goroutines : h # g => work'[h] = work[h]
        /\ work'[g] = [msg |-> n, step |-> FirstStep(n.key), failures |-> 0, read |-> None]
        /\ m # n => queue'[m] = queue[m]
    BY <1>1, <1>2 DEF Take
  <2>2. work'[g].step \in HandlerSteps /\ work'[g].msg = n
    <3>1. FirstStep(n.key) \in HandlerSteps
      BY <2>1, FirstStepBelongs
    <3>2. work'[g].step = FirstStep(n.key) /\ work'[g].msg = n
      BY <2>1
    <3> QED BY <3>1, <3>2
  <2>3. WorksOn(g, n)'
    <3>1. work'[g].step \notin {"idle", "ack"}
      BY <2>2 DEF HandlerSteps
    <3>2. work'[g] # Idle
      BY <3>1 DEF Idle
    <3> QED BY <2>2, <3>1, <3>2 DEF WorksOn, At
  <2> QED BY <2>1, <2>3, MovedIsKept DEF WorksOn
<1>3. ASSUME Ends(g) PROVE Kept(m)'
  <2>1. \A h \in Goroutines : h # g => work'[h] = work[h]
    <3>1. ASSUME NEW step, Goto(g, step)
          PROVE  \A h \in Goroutines : h # g => work'[h] = work[h]
      BY <1>1, <3>1 DEF Goto
    <3>2. ASSUME HandlerError(g)
          PROVE  \A h \in Goroutines : h # g => work'[h] = work[h]
      BY <1>1, <3>2 DEF HandlerError
    <3> QED BY <1>3, <3>1, <3>2 DEF Ends, Match, Charge, Reoffer, Settle, Notify, UpdateTrip
  <2>2. queue[m] > 0 => queue'[m] > 0
    <3>1. ASSUME NEW n, Publish(n) PROVE queue[m] > 0 => queue'[m] > 0
      BY <1>1, <3>1 DEF Publish
    <3>2. CASE Settle(g)
      BY <3>2 DEF Settle
    <3>3. CASE Match(g) \/ Charge(g) \/ Reoffer(g) \/ Notify(g)
      BY <3>1, <3>3 DEF Match, Charge, Reoffer, Notify
    <3> QED BY <1>3, <3>2, <3>3 DEF Ends
  <2>3. dlq' = dlq
    BY <1>3 DEF Ends, Match, Charge, Reoffer, Settle, Notify
  <2> QED BY <1>3, <2>1, <2>2, <2>3, MovedIsKept
<1>4. ASSUME Assign(g) \/ Reread(g) \/ Announce(g) \/ OpenSession(g) \/ StepFails(g)
      PROVE  Kept(m)'
  <2>1. work[g].step \in HandlerSteps
    BY <1>4 DEF Assign, Reread, Announce, OpenSession, StepFails, At, HandlerSteps
  <2>2. work[g] \in Work /\ work[g].msg.key \in WorkKeys
    BY <2>1, AtWork DEF HandlerSteps
  <2>3. \A h \in Goroutines : h # g => work'[h] = work[h]
    BY <1>1, <1>4 DEF Assign, Reread, Announce, OpenSession, StepFails, UpdateTrip,
       HandlerError, Goto
  <2>4. dlq' = dlq /\ (queue[m] > 0 => queue'[m] > 0)
    <3>1. CASE Announce(g)
      BY <1>1, <3>1 DEF Announce, Publish
    <3>2. CASE Assign(g) \/ Reread(g) \/ OpenSession(g) \/ StepFails(g)
      BY <3>2 DEF Assign, Reread, OpenSession, StepFails
    <3> QED BY <1>4, <3>1, <3>2
  <2>5. FirstStep(work[g].msg.key) \in HandlerSteps
    BY <2>2, FirstStepBelongs
  <2>6. work'[g].msg = work[g].msg /\ work'[g].step \in HandlerSteps \cup {"reject"}
    <3>1. CASE HandlerError(g)
      BY <1>1, <2>5, <3>1 DEF HandlerError
    <3>2. ASSUME NEW step \in HandlerSteps, Goto(g, step)
          PROVE  work'[g].msg = work[g].msg /\ work'[g].step \in HandlerSteps
      BY <1>1, <2>2, <3>2 DEF Goto, Work
    <3>3. CASE Reread(g) \/ Announce(g)
      <4>1. work'[g].msg = work[g].msg /\ work'[g].step \in {"announce", "charge"}
        BY <1>1, <2>2, <3>3 DEF Reread, Announce, Work
      <4> QED BY <4>1 DEF HandlerSteps
    <3> QED BY <1>4, <3>1, <3>2, <3>3 DEF Assign, OpenSession, StepFails, UpdateTrip, HandlerSteps
  <2>7. WorksOn(g, m) => WorksOn(g, m)'
    <3>1. work'[g].step \notin {"idle", "ack"}
      BY <2>6 DEF HandlerSteps
    <3>2. work'[g] # Idle
      BY <3>1 DEF Idle
    <3> QED BY <2>6, <3>1, <3>2 DEF WorksOn, At
  <2> QED BY <2>3, <2>4, <2>7, MovedIsKept
<1>5. CASE Ack(g)
  <2>1. /\ \A h \in Goroutines : h # g => work'[h] = work[h]
        /\ UNCHANGED <<queue, dlq>> /\ ~WorksOn(g, m)
    BY <1>1, <1>5 DEF Ack, WorksOn
  <2> QED BY <2>1, MovedIsKept
<1>6. CASE Reject(g)
  <2>1. /\ \A h \in Goroutines : h # g => work'[h] = work[h]
        /\ queue' = queue /\ dlq' = dlq \cup {work[g].msg}
    BY <1>1, <1>6 DEF Reject
  <2> QED BY <2>1, MovedIsKept DEF WorksOn
<1> QED BY <1>2, <1>3, <1>4, <1>5, <1>6 DEF Goroutine, Handle, Ends

\* What a crashed service had in hand goes back to the queue.
LEMMA CrashKeeps ==
  ASSUME Inv, NEW m \in Message, Kept(m), NEW s \in Services, Crash(s)
  PROVE  Kept(m)'
PROOF
<1> DEFINE held == {g \in Goroutines : work[g] # Idle /\ ServiceOf(work[g].msg.key) = s}
           Back == {g \in held : work[g].msg = m}
<1>1. /\ queue'[m] = queue[m] + Cardinality(Back)
      /\ \A g \in Goroutines : g \notin held => work'[g] = work[g]
      /\ dlq' = dlq
  BY DEF Crash
<1>2. queue[m] \in Nat
  BY DEF Inv, TypeOK
<1>3. IsFiniteSet(Back) /\ Cardinality(Back) \in Nat
  <2>1. IsFiniteSet(Goroutines) /\ Back \subseteq Goroutines
    BY TripFlowAssumption
  <2>2. IsFiniteSet(Back)
    BY <2>1, FS_Subset
  <2> QED BY <2>2, FS_CardinalityType
<1>4. Back # {} => Cardinality(Back) > 0
  <2> HIDE DEF Back
  <2> QED BY <1>3, FS_EmptySet
<1>5. CASE queue[m] > 0
  <2> HIDE DEF Back
  <2> QED BY <1>1, <1>2, <1>3, <1>5 DEF Kept
<1>6. ASSUME NEW g \in Goroutines, WorksOn(g, m) PROVE Kept(m)'
  <2>1. CASE g \in held
    <3>1. g \in Back
      BY <1>6, <2>1 DEF WorksOn
    <3> HIDE DEF Back
    <3> QED BY <1>1, <1>2, <1>3, <1>4, <3>1 DEF Kept
  <2>2. CASE g \notin held
    <3>1. work'[g] = work[g]
      BY <1>1, <2>2
    <3> QED BY <1>6, <3>1 DEF WorksOn, Kept, At
  <2> QED BY <2>1, <2>2
<1>7. CASE m \in dlq
  BY <1>1, <1>7 DEF Kept
<1> QED BY <1>5, <1>6, <1>7 DEF Kept, WorksOn

\* A message of an acknowledged queue stays kept until a publication of it turns
\* out to be lost, or a handler of it ends.
LEMMA KeptOrDone ==
  ASSUME Inv, NEW m \in Message, m.key \in WorkKeys, Kept(m), [Next]_vars
  PROVE  \/ Kept(m)'
         \/ PublicationLost(m)
         \/ \E g \in Goroutines : WorksOn(g, m) /\ Ends(g)
PROOF
<1>1. queue \in [Message -> Nat]
  BY DEF Inv, TypeOK
<1>2. CASE \E t \in Trips : Creation(t) \/ Rider(t)
  <2>1. UNCHANGED <<work, dlq>> /\ (queue[m] > 0 => queue'[m] > 0)
    BY <1>1, <1>2 DEF Creation, InsertTrip, PublishTripCreated, PublishTripCreatedFails,
       Rider, RiderLeaves, RiderPays, Webhook, WebhookRepeated, Publish
  <2> QED BY <2>1, UntouchedIsKept
<1>3. CASE \E d \in Drivers : Driver(d)
  <2>1. UNCHANGED <<work, dlq>> /\ (queue[m] > 0 => queue'[m] > 0)
    BY <1>1, <1>3 DEF Driver, Connect, Register, Disconnect, Unregister, UnregisterFails,
       Accept, Decline, Answer, AnswerLost, Publish
  <2> QED BY <2>1, UntouchedIsKept
<1>4. CASE \E g \in Goroutines : Goroutine(g)
  BY <1>4, GoroutineKeeps
<1>5. ASSUME NEW n \in Message, Gateway(n) PROVE Kept(m)'
  <2>1. n # m
    BY <1>5 DEF Gateway, DeliverRequest, DeliverToRider, RiderKeys, WorkKeys
  <2>2. UNCHANGED <<work, dlq>> /\ (queue[m] > 0 => queue'[m] > 0)
    BY <1>1, <1>5, <2>1 DEF Gateway, DeliverRequest, DeliverToRider
  <2> QED BY <2>2, UntouchedIsKept
<1>6. ASSUME NEW n \in Message, PublicationLost(n), n # m PROVE Kept(m)'
  <2>1. UNCHANGED <<work, dlq>> /\ (queue[m] > 0 => queue'[m] > 0)
    BY <1>1, <1>6 DEF PublicationLost
  <2> QED BY <2>1, UntouchedIsKept
<1>7. CASE \E s \in Services : Crash(s)
  BY <1>7, CrashKeeps
<1>8. CASE CrashGateway \/ UNCHANGED vars
  <2>1. UNCHANGED <<work, dlq>> /\ (queue[m] > 0 => queue'[m] > 0)
    BY <1>8 DEF CrashGateway, vars
  <2> QED BY <2>1, UntouchedIsKept
<1> QED BY <1>2, <1>3, <1>4, <1>5, <1>6, <1>7, <1>8 DEF Next

-----------------------------------------------------------------------------
(* What handlers carry on *)

\* A handler begins with the search only if its message asks for it.
LEMMA FirstStepCarries ==
  ASSUME NEW key \in WorkKeys
  PROVE  /\ FirstStep(key) = "match" => key \in {TripEventCreated, TripEventDriverNotInterested}
         /\ FirstStep(key) = "reoffer" => key = DriverCmdTripDecline
         /\ FirstStep(key) # "notify"
PROOF
<1> QED BY DEF WorkKeys, FirstStep

\* A session that was opened stays.
LEMMA SessionsStay ==
  ASSUME Inv, CreatedIsStored, [Next]_vars, NEW t \in Trips
  PROVE  Sessions(t) \subseteq Sessions(t)'
PROOF
<1>1. sessions \in [Trips -> [Drivers -> Nat]]
  BY DEF Inv, TypeOK
<1>2. \/ sessions' = sessions
      \/ \E u \in Trips, d \in Drivers : sessions' = [sessions EXCEPT ![u][d] = @ + 1]
  BY NextKeepsLedger DEF Ledger!Next, Ledger!ledger, Ledger!Request, Ledger!Accept, Ledger!Assign,
     Ledger!OpenSession, Ledger!Pay, Ledger!Report, Ledger!Settle
<1> QED BY <1>1, <1>2 DEF Sessions

LEMMA CarriesItOf ==
  ASSUME NEW g \in Goroutines, NEW w, work'[g] = w, CarriesIt(w)'
  PROVE  CarriesIt(work[g])'
PROOF
<1> QED BY DEF CarriesIt, Sessions

LEMMA CarriedOnStays ==
  ASSUME Inv, CreatedIsStored, CarriedOn, [Next]_vars
  PROVE  CarriedOn'
PROOF
<1> SUFFICES ASSUME NEW g \in Goroutines, work'[g] # Idle
             PROVE  CarriesIt(work[g])'
  BY DEF CarriedOn
<1>1. work \in [Goroutines -> Work \cup {Idle}]
  BY DEF Inv, TypeOK
<1>2. CASE work'[g] = work[g]
  <2>1. PICK w \in Work : w = work[g] /\ CarriesIt(w)
    BY <1>1, <1>2 DEF CarriedOn
  <2>2. w.msg.trip \in Trips
    BY MessageFields DEF Work
  <2>3. CarriesIt(w)'
    BY <2>1, <2>2, SessionsStay DEF CarriesIt
  <2> QED BY <1>2, <2>1, <2>3, CarriesItOf
<1>3. ASSUME NEW n \in Message, n.key \in WorkKeys, work'[g].msg = n,
             work'[g].step \in {FirstStep(n.key), "reject"}
      PROVE  CarriesIt(work[g])'
  BY <1>3, FirstStepCarries DEF CarriesIt
<1>4. ASSUME NEW n \in Message, Take(g, n) PROVE CarriesIt(work[g])'
  <2>1. n.key \in WorkKeys /\ work'[g].msg = n /\ work'[g].step = FirstStep(n.key)
    BY <1>1, <1>4 DEF Take
  <2> QED BY <1>3, <2>1
<1>5. ASSUME HandlerError(g), work[g].step \in HandlerSteps PROVE CarriesIt(work[g])'
  <2>1. PICK n \in Message : n = work[g].msg /\ n.key \in WorkKeys
    BY <1>5, AtWork DEF HandlerSteps
  <2>2. work'[g].msg = n /\ work'[g].step \in {FirstStep(n.key), "reject"}
    BY <1>1, <1>5, <2>1 DEF HandlerError
  <2> QED BY <1>3, <2>1, <2>2
<1>6. CASE work'[g].step \in {"reread", "announce", "charge", "ack", "idle"}
  BY <1>6 DEF CarriesIt
<1>7. CASE OpenSession(g)
  <2>1. work[g].step = "open session" /\ work[g].step # "idle"
    BY <1>7 DEF OpenSession, At
  <2>2. PICK n \in Message, t \in Trips, d \in Drivers :
          n = work[g].msg /\ t = n.trip /\ d = n.driver /\ work[g] \in Work
    BY <2>1, AtWork, MessageFields DEF SoundWork
  <2>3. work'[g].msg = n /\ work'[g].step = "notify"
    BY <1>1, <1>7, <2>2 DEF OpenSession, Goto, Work
  <2>4. sessions'[t][d] > 0
    <3>1. sessions' = [sessions EXCEPT ![t][d] = @ + 1]
      BY <1>7, <2>2 DEF OpenSession
    <3>2. sessions \in [Trips -> [Drivers -> Nat]]
      BY DEF Inv, TypeOK
    <3> QED BY <3>1, <3>2
  <2>5. n.driver \in Sessions(n.trip)'
    BY <2>2, <2>4 DEF Sessions
  <2> QED BY <2>3, <2>5 DEF CarriesIt, Sessions
<1>8. ASSUME Goroutine(g) PROVE CarriesIt(work[g])'
  <2>1. CASE Assign(g) \/ Settle(g)
    <3>1. work[g].step \in HandlerSteps /\ work[g] \in Work
      <4>1. work[g].step \in {"assign", "settle"}
        BY <2>1 DEF Assign, Settle, At
      <4> QED BY <4>1, AtWork DEF HandlerSteps
    <3>2. CASE Goto(g, "reread") \/ Goto(g, "ack")
      <4>1. work'[g].step \in {"reread", "ack"}
        BY <1>1, <3>1, <3>2 DEF Goto, Work
      <4> QED BY <1>6, <4>1
    <3> QED BY <1>5, <2>1, <3>1, <3>2 DEF Assign, Settle, UpdateTrip
  <2>2. CASE Match(g) \/ Charge(g) \/ Reoffer(g) \/ Notify(g)
    <3>1. Goto(g, "ack") /\ work[g].step # "idle"
      BY <2>2 DEF Match, Charge, Reoffer, Notify, At
    <3>2. work'[g].step = "ack"
      BY <1>1, <3>1, AtWork DEF Goto, Work
    <3> QED BY <1>6, <3>2
  <2>3. CASE Reread(g) \/ Announce(g)
    <3>1. work[g].step # "idle"
      BY <2>3 DEF Reread, Announce, At
    <3>2. work'[g].step \in {"announce", "charge"}
      BY <1>1, <2>3, <3>1, AtWork DEF Reread, Announce, Work
    <3> QED BY <1>6, <3>2
  <2>4. CASE Ack(g) \/ Reject(g)
    <3>1. work'[g].step = "idle"
      BY <1>1, <2>4 DEF Ack, Reject, Idle
    <3> QED BY <1>6, <3>1
  <2>5. CASE StepFails(g)
    BY <1>5, <2>5 DEF StepFails
  <2> QED BY <1>4, <1>7, <1>8, <2>1, <2>2, <2>3, <2>4, <2>5 DEF Goroutine, Handle
<1>9. ASSUME NEW h \in Goroutines, h # g, Goroutine(h) PROVE work'[g] = work[g]
  BY <1>1, <1>9 DEF Goroutine, Handle, Take, StepFails, Ack, Reject, Match, Assign, Settle,
     Reread, Announce, Charge, Reoffer, OpenSession, Notify, UpdateTrip, HandlerError, Goto
<1>10. CASE \E t \in Trips : Creation(t) \/ Rider(t)
  <2>1. work' = work
    BY <1>10 DEF Creation, InsertTrip, PublishTripCreated, PublishTripCreatedFails,
       Rider, RiderLeaves, RiderPays, Webhook, WebhookRepeated
  <2> QED BY <1>2, <2>1
<1>11. CASE \E d \in Drivers : Driver(d)
  <2>1. work' = work
    BY <1>11 DEF Driver, Connect, Register, Disconnect, Unregister, UnregisterFails,
       Accept, Decline, Answer, AnswerLost
  <2> QED BY <1>2, <2>1
<1>12. CASE (\E m \in Message : Gateway(m) \/ PublicationLost(m)) \/ CrashGateway \/ UNCHANGED vars
  <2>1. work' = work
    BY <1>12 DEF Gateway, DeliverRequest, DeliverToRider, PublicationLost, CrashGateway, vars
  <2> QED BY <1>2, <2>1
<1>13. CASE \E s \in Services : Crash(s)
  <2>1. work'[g] \in {work[g], Idle}
    BY <1>13 DEF Crash
  <2> QED BY <1>2, <2>1
<1> QED BY <1>2, <1>8, <1>9, <1>10, <1>11, <1>12, <1>13 DEF Next

-----------------------------------------------------------------------------
(* Acceptances *)

\* The handler of an acceptance ends with a payment command, the handler of the
\* command with a session.
LEMMA AcceptanceCarriesOn ==
  ASSUME Inv, CreatedIsStored, CarriedOn, [Next]_vars,
         NEW t \in Trips, NEW d \in Drivers, CarriesOn(t, d)
  PROVE  \/ CarriesOn(t, d)'
         \/ PublicationLost(Msg(DriverCmdTripAccept, t, d))
         \/ PublicationLost(Msg(PaymentCmdCreateSession, t, d))
PROOF
<1>1. PICK a \in Message : /\ a = Msg(DriverCmdTripAccept, t, d)
                           /\ a.key = DriverCmdTripAccept /\ a.trip = t /\ a.driver = d
  BY MsgIsMessage
<1>2. PICK c \in Message : /\ c = Msg(PaymentCmdCreateSession, t, d)
                           /\ c.key = PaymentCmdCreateSession /\ c.trip = t /\ c.driver = d
  BY MsgIsMessage
<1>3. a.key \in WorkKeys /\ c.key \in WorkKeys
  BY <1>1, <1>2 DEF WorkKeys
<1>4. sessions[t][d] > 0 => CarriesOn(t, d)'
  <2>1. sessions[t][d] > 0 => sessions'[t][d] > 0
    BY SessionsStay DEF Sessions
  <2> QED BY <2>1 DEF CarriesOn
<1>5. Kept(a)' \/ Kept(c)' => CarriesOn(t, d)'
  BY <1>1, <1>2 DEF CarriesOn
<1>6. ASSUME NEW g \in Goroutines, WorksOn(g, a), Ends(g) PROVE Kept(c)'
  <2>1. work[g].msg = a /\ work[g] # Idle
    BY <1>6 DEF WorksOn
  <2>2. Charge(g)
    <3>1. SoundWork(work[g]) /\ CarriesIt(work[g])
      BY <2>1 DEF Inv, WorkIsSound, CarriedOn
    <3>2. work[g].step \notin {"match", "reoffer", "settle", "notify"}
      BY <1>1, <2>1, <3>1 DEF SoundWork, CarriesIt
    <3> QED BY <1>6, <3>2 DEF Ends, Match, Reoffer, Settle, Notify, At
  <2>3. Publish(c)
    BY <1>1, <1>2, <2>1, <2>2 DEF Charge
  <2>4. queue'[c] > 0
    BY <2>3 DEF Publish, Inv, TypeOK
  <2> QED BY <2>4 DEF Kept
<1>7. ASSUME NEW g \in Goroutines, WorksOn(g, c), Ends(g) PROVE sessions[t][d] > 0
  <2>1. work[g].msg = c /\ work[g] # Idle
    BY <1>7 DEF WorksOn
  <2>2. SoundWork(work[g]) /\ CarriesIt(work[g])
    BY <2>1 DEF Inv, WorkIsSound, CarriedOn
  <2>3. work[g].step \notin {"match", "reoffer", "settle", "charge"}
    BY <1>2, <2>1, <2>2 DEF SoundWork, CarriesIt
  <2>4. work[g].step = "notify"
    BY <1>7, <2>3 DEF Ends, Match, Reoffer, Settle, Charge, Notify, At
  <2>5. d \in Sessions(t)
    BY <1>2, <2>1, <2>2, <2>4 DEF CarriesIt
  <2> QED BY <2>5 DEF Sessions
<1>8. CASE sessions[t][d] > 0
  BY <1>4, <1>8
<1>9. CASE Kept(a)
  BY <1>1, <1>3, <1>5, <1>6, <1>9, KeptOrDone
<1>10. CASE Kept(c)
  BY <1>2, <1>3, <1>4, <1>5, <1>7, <1>10, KeptOrDone
<1> QED BY <1>1, <1>2, <1>8, <1>9, <1>10 DEF CarriesOn

\* A driver who accepts has an acceptance published.
LEMMA AcceptanceStarts ==
  ASSUME Inv, CreatedIsStored, [Next]_vars,
         NEW t \in Trips, NEW d \in Drivers, d \notin accepters[t], d \in accepters'[t]
  PROVE  CarriesOn(t, d)'
PROOF
<1>1. accepters' # accepters
  OBVIOUS
<1>2. PICK e \in Drivers : Accept(e)
  <2>1. CASE \E u \in Trips : Creation(u) \/ Rider(u)
    BY <1>1, <2>1 DEF Creation, InsertTrip, PublishTripCreated, PublishTripCreatedFails,
       Rider, RiderLeaves, RiderPays, Webhook, WebhookRepeated
  <2>2. CASE \E e \in Drivers : Driver(e)
    BY <1>1, <2>2 DEF Driver, Connect, Register, Disconnect, Unregister, UnregisterFails,
       Decline, AnswerLost
  <2>3. CASE \E g \in Goroutines : Goroutine(g)
    BY <1>1, <2>3 DEF Goroutine, Handle, Take, StepFails, Ack, Reject, Match, Assign,
       Settle, Reread, Announce, Charge, Reoffer, OpenSession, Notify
  <2>4. CASE \E m \in Message : Gateway(m) \/ PublicationLost(m)
    BY <1>1, <2>4 DEF Gateway, DeliverRequest, DeliverToRider, PublicationLost
  <2>5. CASE (\E s \in Services : Crash(s)) \/ CrashGateway \/ UNCHANGED vars
    BY <1>1, <2>5 DEF Crash, CrashGateway, vars
  <2> QED BY <2>1, <2>2, <2>3, <2>4, <2>5 DEF Next
<1>3. e = d /\ offer[d] = t
  <2>1. accepters' = [accepters EXCEPT ![offer[e]] = @ \cup {e}]
    BY <1>2 DEF Accept
  <2> QED BY <2>1 DEF Inv, TypeOK
<1>4. PICK a \in Message : a = Msg(DriverCmdTripAccept, t, d)
  BY MsgIsMessage
<1>5. Publish(a)
  BY <1>2, <1>3, <1>4 DEF Accept, Answer
<1>6. queue'[a] > 0
  BY <1>5 DEF Publish, Inv, TypeOK
<1>7. Kept(a)'
  BY <1>6 DEF Kept
<1> QED BY <1>4, <1>7 DEF CarriesOn

\* Nothing but the loss of one of its two publications loses an acceptance.
LEMMA OnlyThenLost ==
  ASSUME Inv, CreatedIsStored, CarriedOn, [Next]_vars,
         NEW t \in Trips, NEW d \in Drivers, Lost(t, d)'
  PROVE  \/ Lost(t, d)
         \/ PublicationLost(Msg(DriverCmdTripAccept, t, d))
         \/ PublicationLost(Msg(PaymentCmdCreateSession, t, d))
PROOF
<1>1. d \in accepters'[t] /\ ~CarriesOn(t, d)'
  BY DEF Lost
<1>2. d \in accepters[t]
  BY <1>1, AcceptanceStarts
<1> QED BY <1>1, <1>2, AcceptanceCarriesOn DEF Lost

\* Whatever fails, an acceptance leads to a Stripe session unless it ends up in the
\* dead letter queue; it gets lost only with a publication of it, or of the request for
\* its session, that never arrived.
THEOREM AcceptancesArePursued == Spec => AcceptancesAreKept
PROOF
<1>1. Init => CreatedIsStored /\ CarriedOn
  BY InitCalm DEF Init, CarriedOn
<1>2. Inv /\ CreatedIsStored /\ CarriedOn /\ [Next]_vars => CreatedIsStored' /\ CarriedOn'
  BY StoredStays, CarriedOnStays
<1>3. Inv /\ CreatedIsStored /\ CarriedOn /\ [Next]_vars
        => [\A t \in Trips, d \in Drivers :
              Lost(t, d)' => \/ Lost(t, d)
                             \/ PublicationLost(Msg(DriverCmdTripAccept, t, d))
                             \/ PublicationLost(Msg(PaymentCmdCreateSession, t, d))]_vars
  BY OnlyThenLost
<1> QED BY <1>1, <1>2, <1>3, Invariance, PTL DEF Spec, AcceptancesAreKept

-----------------------------------------------------------------------------
(* Payments *)

\* No step configures the gateway.
LEMMA KeyStays == [Next]_vars => webhookKey' = webhookKey
PROOF
<1> SUFFICES ASSUME [Next]_vars PROVE webhookKey' = webhookKey
  OBVIOUS
<1>1. CASE \E t \in Trips : Creation(t) \/ Rider(t)
  BY <1>1 DEF Creation, InsertTrip, PublishTripCreated, PublishTripCreatedFails, Rider,
     RiderLeaves, RiderPays, Webhook, WebhookRepeated, stripe
<1>2. CASE \E d \in Drivers : Driver(d)
  BY <1>2 DEF Driver, Connect, Register, Disconnect, Unregister, UnregisterFails, Accept,
     Decline, Answer, AnswerLost, stripe
<1>3. CASE \E g \in Goroutines : Goroutine(g)
  BY <1>3 DEF Goroutine, Handle, Take, StepFails, Ack, Reject, Match, Assign, Settle,
     Reread, Announce, Charge, Reoffer, OpenSession, Notify, stripe
<1>4. CASE \E m \in Message : Gateway(m) \/ PublicationLost(m)
  BY <1>4 DEF Gateway, DeliverRequest, DeliverToRider, PublicationLost, stripe
<1>5. CASE (\E s \in Services : Crash(s)) \/ CrashGateway \/ UNCHANGED vars
  BY <1>5 DEF Crash, CrashGateway, vars, stripe
<1> QED BY <1>1, <1>2, <1>3, <1>4, <1>5 DEF Next

\* Where there is a webhook key, the report of a payment is published as it is
\* recorded.
LEMMA ReportStarts ==
  ASSUME Inv, [Next]_vars, NEW t \in Trips,
         webhookKey, payment[t] # "reported", payment'[t] = "reported"
  PROVE  Kept(Msg(PaymentEventSuccess, t, None))'
PROOF
<1>1. payment' # payment
  OBVIOUS
<1>2. PICK u \in Trips : Rider(u)
  <2>1. CASE \E u \in Trips : Creation(u)
    BY <1>1, <2>1 DEF Creation, InsertTrip, PublishTripCreated, PublishTripCreatedFails, stripe
  <2>2. CASE \E e \in Drivers : Driver(e)
    BY <1>1, <2>2 DEF Driver, Connect, Register, Disconnect, Unregister, UnregisterFails,
       Accept, Decline, Answer, AnswerLost, stripe
  <2>3. CASE \E g \in Goroutines : Goroutine(g)
    BY <1>1, <2>3 DEF Goroutine, Handle, Take, StepFails, Ack, Reject, Match, Assign,
       Settle, Reread, Announce, Charge, Reoffer, OpenSession, Notify, stripe
  <2>4. CASE \E m \in Message : Gateway(m) \/ PublicationLost(m)
    BY <1>1, <2>4 DEF Gateway, DeliverRequest, DeliverToRider, PublicationLost, stripe
  <2>5. CASE (\E s \in Services : Crash(s)) \/ CrashGateway \/ UNCHANGED vars
    BY <1>1, <2>5 DEF Crash, CrashGateway, vars, stripe
  <2> QED BY <2>1, <2>2, <2>3, <2>4, <2>5 DEF Next
<1>3. Webhook(u) /\ u = t
  <2>1. RiderPays(u) \/ Webhook(u)
    BY <1>1, <1>2 DEF Rider, RiderLeaves, WebhookRepeated, stripe
  <2>2. \/ payment' = [payment EXCEPT ![u] = "paid"]
        \/ Webhook(u) /\ payment' = [payment EXCEPT ![u] = "reported"]
    BY <2>1 DEF RiderPays, Webhook
  <2> QED BY <2>2 DEF Inv, TypeOK
<1>4. PICK m \in Message : m = Msg(PaymentEventSuccess, t, None)
  BY MsgIsMessage
<1>5. Publish(m)
  BY <1>3, <1>4 DEF Webhook
<1>6. queue'[m] > 0
  BY <1>5 DEF Publish, Inv, TypeOK
<1> QED BY <1>4, <1>6 DEF Kept

\* As long as nothing fails, the handler of the report stores the payment, and what is
\* stored as payed is not stored over.
LEMMA PaymentsStay ==
  ASSUME Inv, CreatedIsStored, CarriedOn, faults = 0 => Calm, PaymentsAreKept, [Next]_vars
  PROVE  PaymentsAreKept'
PROOF
<1> SUFFICES ASSUME webhookKey', faults' = 0, NEW t \in Trips, payment'[t] = "reported"
             PROVE  trips'[t].status = "payed" \/ Kept(Msg(PaymentEventSuccess, t, None))'
  BY DEF PaymentsAreKept
<1>1. faults = 0 /\ Calm
  BY FaultsStay
<1>2. PICK m \in Message : m = Msg(PaymentEventSuccess, t, None)
                           /\ m.key = PaymentEventSuccess /\ m.trip = t
  BY MsgIsMessage
<1>0. webhookKey
  BY KeyStays
<1>3. CASE payment[t] # "reported"
  BY <1>0, <1>3, ReportStarts
<1>4. CASE trips[t].status = "payed"
  <2>1. trips \in [Trips -> [status : {"none", "Pending", "accepted", "payed"},
                             driver : Drivers \cup {None}]]
    BY DEF Inv, TypeOK
  <2>2. \/ trips' = trips
        \/ \E u \in Trips : u # t /\ \E doc : trips' = [trips EXCEPT ![u] = doc]
    BY <1>1, <1>4, NextLives
       DEF Lifecycle!Next, Lifecycle!Request, Lifecycle!Assign, Lifecycle!Pay
  <2> QED BY <1>4, <2>1, <2>2
<1>5. ASSUME NEW g \in Goroutines, WorksOn(g, m), Ends(g) PROVE trips'[t].status = "payed"
  <2>1. work[g].msg = m /\ work[g] # Idle
    BY <1>5 DEF WorksOn
  <2>2. SoundWork(work[g]) /\ CarriesIt(work[g])
    BY <2>1 DEF Inv, WorkIsSound, CarriedOn
  <2>3. work[g].step \notin {"match", "reoffer", "charge", "notify"}
    BY <1>2, <2>1, <2>2 DEF SoundWork, CarriesIt
  <2>4. Settle(g)
    BY <1>5, <2>3 DEF Ends, Match, Reoffer, Charge, Notify, At
  <2>5. trips' = [trips EXCEPT ![t].status = "payed"]
    <3>1. work[g].msg.trip = t
      BY <1>2, <2>1
    <3>2. trips' = [trips EXCEPT ![work[g].msg.trip].status = "payed"]
      BY <1>1, <2>4, SettlePays
    <3> QED BY <3>1, <3>2
  <2> QED BY <2>5 DEF Inv, TypeOK
<1>6. CASE Kept(m)
  <2>1. ~PublicationLost(m)
    BY <1>1 DEF PublicationLost, Faulty
  <2>2. m.key \in WorkKeys
    BY <1>2 DEF WorkKeys
  <2> QED BY <1>2, <1>5, <1>6, <2>1, <2>2, KeptOrDone
<1> QED BY <1>0, <1>1, <1>2, <1>3, <1>4, <1>6 DEF PaymentsAreKept

\* Where the gateway has a webhook key, and as long as nothing fails, a payment that
\* Stripe has reported is stored for good, or its event is under way.
THEOREM PaymentsArePursued == Spec => []PaymentsAreKept
PROOF
<1>1. Init => CreatedIsStored /\ CarriedOn /\ (faults = 0 => Calm) /\ PaymentsAreKept
  BY InitCalm DEF Init, CarriedOn, PaymentsAreKept
<1>2. Inv /\ CreatedIsStored /\ CarriedOn /\ (faults = 0 => Calm) /\ [Next]_vars
        => CreatedIsStored' /\ CarriedOn' /\ (faults = 0 => Calm)'
  BY StoredStays, CarriedOnStays, FaultsStay, NextCalm
<1>3. Inv /\ CreatedIsStored /\ CarriedOn /\ (faults = 0 => Calm) /\ PaymentsAreKept
        /\ [Next]_vars => PaymentsAreKept'
  BY PaymentsStay
<1> QED BY <1>1, <1>2, <1>3, Invariance, PTL DEF Spec

-----------------------------------------------------------------------------
(* The search for a driver *)

\* A request is on its way, and shown, only to a driver whose page was opened.
PagesInOrder ==
  /\ \A d \in Drivers :
       /\ d \in registered => socket[d] # "new"
       /\ offer[d] # None => socket[d] \in {"open", "serving"}
  /\ \A m \in Message :
       (m.key = DriverCmdTripRequest /\ queue[m] > 0) => socket[m.driver] # "new"

\* Only a handler that matches asks a driver, and only one who is registered.
LEMMA OnlyRegisteredAreAsked ==
  ASSUME Inv, [Next]_vars, NEW m \in Message, m.key = DriverCmdTripRequest,
         queue'[m] > 0, ~(queue[m] > 0)
  PROVE  m.driver \in registered
PROOF
<1>1. queue \in [Message -> Nat]
  BY DEF Inv, TypeOK
<1>2. ASSUME NEW key, NEW t, NEW d, Publish(Msg(key, t, d))
      PROVE  Msg(key, t, d) = m /\ key = DriverCmdTripRequest /\ d = m.driver
  <2>1. Msg(key, t, d) = m
    BY <1>1, <1>2 DEF Publish
  <2>2. Msg(key, t, d).key = key /\ Msg(key, t, d).driver = d
    BY DEF Msg
  <2> QED BY <2>1, <2>2
<1>3. queue' # queue
  OBVIOUS
<1>4. ~ \E n \in Message : queue' = [queue EXCEPT ![n] = @ - 1]
  BY <1>1
<1>5. ASSUME NEW t \in Trips, Creation(t) \/ Rider(t) PROVE FALSE
  <2>1. \/ Publish(Msg(TripEventCreated, t, None))
        \/ Publish(Msg(PaymentEventSuccess, t, None))
    BY <1>3, <1>5 DEF Creation, InsertTrip, PublishTripCreated, PublishTripCreatedFails, Rider,
       RiderLeaves, RiderPays, Webhook, WebhookRepeated
  <2> QED BY <1>2, <2>1
<1>6. ASSUME NEW d \in Drivers, Driver(d) PROVE FALSE
  <2>1. \/ Publish(Msg(DriverCmdTripAccept, offer[d], d))
        \/ Publish(Msg(DriverCmdTripDecline, offer[d], d))
    BY <1>3, <1>6 DEF Driver, Connect, Register, Disconnect, Unregister, UnregisterFails, Accept,
       Decline, Answer, AnswerLost
  <2> QED BY <1>2, <2>1
<1>7. ASSUME NEW g \in Goroutines, Goroutine(g) PROVE m.driver \in registered
  <2>1. CASE Match(g)
    <3> DEFINE t == work[g].msg.trip
    <3>1. \/ Publish(Msg(TripEventNoDriversFound, t, None))
          \/ \E d \in registered : Publish(Msg(DriverCmdTripRequest, t, d))
      BY <2>1 DEF Match, FindAvailableDrivers
    <3> QED BY <1>2, <3>1
  <2>2. CASE Announce(g) \/ Charge(g) \/ Reoffer(g) \/ Notify(g)
    <3> DEFINE n == work[g].msg
    <3>1. \/ Publish(Msg(TripEventDriverAssigned, n.trip, work[g].read))
          \/ Publish(Msg(PaymentCmdCreateSession, n.trip, n.driver))
          \/ Publish(Msg(TripEventDriverNotInterested, n.trip, None))
          \/ Publish(Msg(PaymentEventSessionCreated, n.trip, None))
      BY <2>2 DEF Announce, Charge, Reoffer, Notify
    <3> QED BY <1>2, <3>1
  <2>3. ~ \E n \in Message : Take(g, n)
    BY <1>4 DEF Take
  <2>4. ~(Assign(g) \/ Reread(g) \/ Settle(g) \/ OpenSession(g) \/ StepFails(g) \/ Ack(g) \/ Reject(g))
    BY <1>3 DEF Assign, Reread, Settle, OpenSession, StepFails, Ack, Reject
  <2> QED BY <1>7, <2>1, <2>2, <2>3, <2>4 DEF Goroutine, Handle
<1>8. ~ \E n \in Message : Gateway(n) \/ PublicationLost(n)
  BY <1>4 DEF Gateway, DeliverRequest, DeliverToRider, PublicationLost
<1>9. ASSUME NEW s \in Services, Crash(s) PROVE FALSE
  <2> DEFINE back == {g \in {g \in Goroutines : work[g] # Idle /\ ServiceOf(work[g].msg.key) = s} :
                        work[g].msg = m}
  <2>1. queue'[m] = queue[m] + Cardinality(back)
    BY <1>9 DEF Crash
  <2>2. back = {}
    <3> SUFFICES ASSUME NEW g \in back PROVE FALSE
      OBVIOUS
    <3>1. work[g] # Idle /\ work[g].msg = m
      OBVIOUS
    <3>2. m.key \in WorkKeys
      BY <3>1 DEF Inv, WorkIsSound, SoundWork
    <3> QED BY <3>2 DEF WorkKeys
  <2> HIDE DEF back
  <2>3. Cardinality(back) = 0
    BY <2>2, FS_EmptySet
  <2> QED BY <1>1, <2>1, <2>3
<1>10. ~(CrashGateway \/ UNCHANGED vars)
  BY <1>3 DEF CrashGateway, vars
<1> QED BY <1>5, <1>6, <1>7, <1>8, <1>9, <1>10 DEF Next

\* No page is opened twice.
LEMMA SocketsAge ==
  ASSUME Inv, [Next]_vars, NEW d \in Drivers
  PROVE  /\ socket[d] # "new" => socket'[d] # "new"
         /\ d \in registered' => d \in registered \/ socket'[d] # "new"
PROOF
<1>1. socket \in [Drivers -> {"new", "open", "serving", "closed", "gone"}]
  BY DEF Inv, TypeOK
<1>2. CASE \E t \in Trips : Creation(t) \/ Rider(t)
  BY <1>2 DEF Creation, InsertTrip, PublishTripCreated, PublishTripCreatedFails, Rider,
     RiderLeaves, RiderPays, Webhook, WebhookRepeated, pages
<1>3. CASE \E e \in Drivers : Driver(e)
  BY <1>1, <1>3 DEF Driver, Connect, Register, Disconnect, Unregister, UnregisterFails, Accept,
     Decline, Answer, AnswerLost
<1>4. CASE \E g \in Goroutines : Goroutine(g)
  BY <1>4 DEF Goroutine, Handle, Take, StepFails, Ack, Reject, Match, Assign, Settle, Reread,
     Announce, Charge, Reoffer, OpenSession, Notify, pages
<1>5. CASE \E m \in Message : Gateway(m) \/ PublicationLost(m)
  BY <1>5 DEF Gateway, DeliverRequest, DeliverToRider, PublicationLost, pages
<1>6. CASE (\E s \in Services : Crash(s)) \/ CrashGateway \/ UNCHANGED vars
  BY <1>1, <1>6 DEF Crash, CrashGateway, vars, pages
<1> QED BY <1>2, <1>3, <1>4, <1>5, <1>6 DEF Next

\* What becomes of the request a page shows.
LEMMA OfferStep ==
  ASSUME Inv, PagesInOrder, [Next]_vars, NEW d \in Drivers
  PROVE  /\ offer'[d] # None => socket'[d] \in {"open", "serving"}
         /\ offer[d] # None =>
              \/ offer'[d] = offer[d]
              \/ socket'[d] \in {"closed", "gone"}
              \/ offer'[d] \in Trips \ {offer[d]}
              \/ Accept(d) \/ Decline(d) \/ AnswerLost(d)
PROOF
<1>1. /\ socket \in [Drivers -> {"new", "open", "serving", "closed", "gone"}]
      /\ offer \in [Drivers -> Trips \cup {None}]
      /\ offer[d] # None => socket[d] \in {"open", "serving"}
  BY DEF Inv, TypeOK, PagesInOrder
<1>2. CASE UNCHANGED <<socket, offer>>
  BY <1>1, <1>2
<1>3. CASE \E t \in Trips : Creation(t) \/ Rider(t)
  BY <1>2, <1>3 DEF Creation, InsertTrip, PublishTripCreated, PublishTripCreatedFails, Rider,
     RiderLeaves, RiderPays, Webhook, WebhookRepeated, pages
<1>4. ASSUME NEW e \in Drivers, Connect(e) \/ Register(e) \/ Unregister(e) \/ UnregisterFails(e)
      PROVE  offer' = offer /\ (offer[d] # None => socket'[d] \in {"open", "serving"})
  BY <1>1, <1>4 DEF Connect, Register, Unregister, UnregisterFails
<1>5. ASSUME NEW e \in Drivers, Disconnect(e)
      PROVE  IF e = d THEN offer'[d] = None /\ socket'[d] = "closed"
             ELSE offer'[d] = offer[d] /\ socket'[d] = socket[d]
  BY <1>1, <1>5 DEF Disconnect
<1>6. ASSUME NEW e \in Drivers, Accept(e) \/ Decline(e) \/ AnswerLost(e)
      PROVE  socket' = socket /\ offer'[d] = IF e = d THEN None ELSE offer[d]
  BY <1>1, <1>6 DEF Accept, Decline, Answer, AnswerLost
<1>7. CASE \E e \in Drivers : Driver(e)
  <2>1. PICK e \in Drivers : Driver(e)
    BY <1>7
  <2>2. CASE Connect(e) \/ Register(e) \/ Unregister(e) \/ UnregisterFails(e)
    BY <1>4, <2>2
  <2>3. CASE Disconnect(e)
    BY <1>1, <1>5, <2>3
  <2>4. CASE Accept(e) \/ Decline(e) \/ AnswerLost(e)
    <3>1. socket' = socket /\ offer'[d] = IF e = d THEN None ELSE offer[d]
      BY <1>6, <2>4
    <3> QED BY <1>1, <2>4, <3>1
  <2> QED BY <2>1, <2>2, <2>3, <2>4 DEF Driver
<1>8. CASE \E g \in Goroutines : Goroutine(g)
  BY <1>2, <1>8 DEF Goroutine, Handle, Take, StepFails, Ack, Reject, Match, Assign, Settle, Reread,
     Announce, Charge, Reoffer, OpenSession, Notify, pages
<1>9. CASE \E m \in Message : Gateway(m) \/ PublicationLost(m)
  <2>1. PICK m \in Message : Gateway(m) \/ PublicationLost(m)
    BY <1>9
  <2>2. CASE DeliverRequest(m)
    <3>1. m.trip \in Trips /\ m.driver \in Drivers
      BY <2>2, MessageFields DEF DeliverRequest
    <3>2. /\ socket' = socket
          /\ offer' = IF socket[m.driver] \in {"open", "serving"}
                      THEN [offer EXCEPT ![m.driver] = m.trip] ELSE offer
      BY <2>2 DEF DeliverRequest
    <3> QED BY <1>1, <3>1, <3>2
  <2>3. CASE DeliverToRider(m) \/ PublicationLost(m)
    BY <1>2, <2>3 DEF DeliverToRider, PublicationLost, pages
  <2> QED BY <2>1, <2>2, <2>3 DEF Gateway
<1>10. CASE CrashGateway
  BY <1>1, <1>10 DEF CrashGateway
<1>11. CASE (\E s \in Services : Crash(s)) \/ UNCHANGED vars
  BY <1>2, <1>11 DEF Crash, vars, pages
<1> QED BY <1>3, <1>7, <1>8, <1>9, <1>10, <1>11 DEF Next

LEMMA PagesStayInOrder ==
  ASSUME Inv, PagesInOrder, [Next]_vars
  PROVE  PagesInOrder'
PROOF
<1>1. ASSUME NEW d \in Drivers
      PROVE  /\ d \in registered' => socket'[d] # "new"
             /\ offer'[d] # None => socket'[d] \in {"open", "serving"}
  BY SocketsAge, OfferStep DEF PagesInOrder
<1>2. ASSUME NEW m \in Message, m.key = DriverCmdTripRequest, queue'[m] > 0
      PROVE  socket'[m.driver] # "new"
  <2>1. m.driver \in Drivers
    BY <1>2, MessageFields
  <2>2. socket[m.driver] # "new"
    BY <1>2, <2>1, OnlyRegisteredAreAsked DEF PagesInOrder
  <2> QED BY <2>1, <2>2, SocketsAge
<1> QED BY <1>1, <1>2 DEF PagesInOrder

\* What becomes of a request that waits in its queue.
LEMMA RequestStep ==
  ASSUME Inv, [Next]_vars, NEW m \in Message, m.key = DriverCmdTripRequest, queue[m] > 0
  PROVE  queue'[m] > 0 \/ DeliverRequest(m) \/ PublicationLost(m)
PROOF
<1>1. queue \in [Message -> Nat]
  BY DEF Inv, TypeOK
<1>2. CASE \E t \in Trips : Creation(t) \/ Rider(t)
  BY <1>1, <1>2 DEF Creation, InsertTrip, PublishTripCreated, PublishTripCreatedFails, Rider,
     RiderLeaves, RiderPays, Webhook, WebhookRepeated, Publish
<1>3. CASE \E d \in Drivers : Driver(d)
  BY <1>1, <1>3 DEF Driver, Connect, Register, Disconnect, Unregister, UnregisterFails, Accept,
     Decline, Answer, AnswerLost, Publish
<1>4. CASE \E g \in Goroutines : Goroutine(g)
  <2>1. PICK g \in Goroutines : Goroutine(g)
    BY <1>4
  <2>2. ASSUME NEW n \in Message, Take(g, n) PROVE queue'[m] = queue[m]
    <3>1. n # m
      BY <2>2 DEF Take, WorkKeys
    <3> QED BY <1>1, <2>2, <3>1 DEF Take
  <2>3. CASE Match(g) \/ Announce(g) \/ Charge(g) \/ Reoffer(g) \/ Notify(g)
    BY <1>1, <2>3 DEF Match, Announce, Charge, Reoffer, Notify, Publish
  <2>4. CASE Assign(g) \/ Reread(g) \/ Settle(g) \/ OpenSession(g) \/ StepFails(g) \/ Ack(g) \/ Reject(g)
    BY <2>4 DEF Assign, Reread, Settle, OpenSession, StepFails, Ack, Reject
  <2> QED BY <2>1, <2>2, <2>3, <2>4 DEF Goroutine, Handle
<1>5. CASE \E n \in Message : Gateway(n) \/ PublicationLost(n)
  <2>1. PICK n \in Message : Gateway(n) \/ PublicationLost(n)
    BY <1>5
  <2>2. CASE n = m
    BY <2>1, <2>2 DEF Gateway, DeliverToRider, RiderKeys
  <2>3. CASE n # m
    BY <1>1, <2>1, <2>3 DEF Gateway, DeliverRequest, DeliverToRider, PublicationLost
  <2> QED BY <2>2, <2>3
<1>6. ASSUME NEW s \in Services, Crash(s) PROVE queue'[m] > 0
  <2> DEFINE back == {g \in {g \in Goroutines : work[g] # Idle /\ ServiceOf(work[g].msg.key) = s} :
                        work[g].msg = m}
  <2>1. queue'[m] = queue[m] + Cardinality(back)
    BY <1>6 DEF Crash
  <2>2. IsFiniteSet(back)
    BY TripFlowAssumption, FS_Subset
  <2> HIDE DEF back
  <2>3. Cardinality(back) \in Nat
    BY <2>2, FS_CardinalityType
  <2> QED BY <1>1, <2>1, <2>3
<1>7. CASE CrashGateway \/ UNCHANGED vars
  BY <1>7 DEF CrashGateway, vars
<1> QED BY <1>2, <1>3, <1>4, <1>5, <1>6, <1>7 DEF Next

\* A message of the search, and the handler it is for.
LEMMA SearchIsHandled ==
  ASSUME Inv, CarriedOn, NEW g \in Goroutines, NEW m \in Message, WorksOn(g, m), Ends(g)
  PROVE  /\ m.key \in {TripEventCreated, TripEventDriverNotInterested} => Match(g)
         /\ m.key = DriverCmdTripDecline => Reoffer(g)
PROOF
<1>1. work[g].msg = m /\ SoundWork(work[g]) /\ CarriesIt(work[g])
  BY DEF WorksOn, Inv, WorkIsSound, CarriedOn
<1>2. ASSUME m.key \in {TripEventCreated, TripEventDriverNotInterested} PROVE Match(g)
  <2>1. work[g].step \notin {"reoffer", "charge", "settle", "notify"}
    BY <1>1, <1>2 DEF SoundWork, CarriesIt
  <2> QED BY <2>1 DEF Ends, Charge, Reoffer, Settle, Notify, At
<1>3. ASSUME m.key = DriverCmdTripDecline PROVE Reoffer(g)
  <2>1. work[g].step \notin {"match", "charge", "settle", "notify"}
    BY <1>1, <1>3 DEF SoundWork, CarriesIt
  <2> QED BY <2>1 DEF Ends, Match, Charge, Settle, Notify, At
<1> QED BY <1>2, <1>3

\* The search of a trip goes on through each of the forms it takes.
LEMMA SearchStep ==
  ASSUME Inv, CarriedOn, PagesInOrder, [Next]_vars, NEW t \in Trips, Sought(t)
  PROVE  Sought(t)' \/ SearchEnds(t)
PROOF
<1>1. ASSUME NEW key, NEW d \in Drivers \cup {None},
             \/ key \in {DriverCmdTripRequest, DriverCmdTripAccept, DriverCmdTripDecline}
                /\ d \in Drivers
             \/ key \in {TripEventCreated, TripEventDriverNotInterested, TripEventNoDriversFound}
                /\ d = None
      PROVE  /\ Msg(key, t, d) \in Message /\ Msg(key, t, d).key = key
             /\ Msg(key, t, d).trip = t /\ Msg(key, t, d).driver = d
  BY <1>1, MsgIsMessage
<1>2. ASSUME NEW m \in Message, Publish(m) PROVE queue'[m] > 0
  BY <1>2 DEF Publish, Inv, TypeOK
<1>3. ASSUME NEW m \in Message, m.trip = t, Kept(m),
             m.key \in {TripEventCreated, TripEventDriverNotInterested}
      PROVE  Kept(m)' \/ Sought(t)' \/ SearchEnds(t)
  <2>1. m.key \in WorkKeys
    BY <1>3 DEF WorkKeys
  <2>2. PublicationLost(m) => SearchEnds(t)
    BY <1>3 DEF SearchEnds
  <2>3. ASSUME NEW g \in Goroutines, WorksOn(g, m), Ends(g)
        PROVE  Sought(t)' \/ SearchEnds(t)
    <3>1. Match(g) /\ work[g].msg.trip = t
      BY <1>3, <2>3, SearchIsHandled DEF WorksOn
    <3>2. \/ Publish(Msg(TripEventNoDriversFound, t, None))
          \/ \E d \in Drivers : Publish(Msg(DriverCmdTripRequest, t, d))
      BY <3>1 DEF Match, FindAvailableDrivers, Inv, TypeOK
    <3>3. ASSUME Publish(Msg(TripEventNoDriversFound, t, None)) PROVE SearchEnds(t)
      BY <1>1, <1>2, <3>3 DEF SearchEnds
    <3>4. ASSUME NEW d \in Drivers, Publish(Msg(DriverCmdTripRequest, t, d)) PROVE Sought(t)'
      <4>1. queue'[Msg(DriverCmdTripRequest, t, d)] > 0
        BY <1>1, <1>2, <3>4
      <4> QED BY <4>1 DEF Sought
    <3> QED BY <3>2, <3>3, <3>4
  <2> QED BY <1>3, <2>1, <2>2, <2>3, KeptOrDone
<1>4. CASE Kept(Msg(TripEventCreated, t, None))
  <2>1. PICK m \in Message : m = Msg(TripEventCreated, t, None)
                             /\ m.key = TripEventCreated /\ m.trip = t
    BY <1>1
  <2>2. Kept(m)' => Sought(t)'
    BY <2>1 DEF Sought
  <2> QED BY <1>3, <1>4, <2>1, <2>2
<1>5. CASE Kept(Msg(TripEventDriverNotInterested, t, None))
  <2>1. PICK m \in Message : m = Msg(TripEventDriverNotInterested, t, None)
                             /\ m.key = TripEventDriverNotInterested /\ m.trip = t
    BY <1>1
  <2>2. Kept(m)' => Sought(t)'
    BY <2>1 DEF Sought
  <2> QED BY <1>3, <1>5, <2>1, <2>2
<1>6. ASSUME NEW d \in Drivers, Kept(Msg(DriverCmdTripDecline, t, d))
      PROVE  Sought(t)' \/ SearchEnds(t)
  <2>1. PICK m \in Message : m = Msg(DriverCmdTripDecline, t, d)
                             /\ m.key = DriverCmdTripDecline /\ m.trip = t
    BY <1>1
  <2>2. m.key \in WorkKeys
    BY <2>1 DEF WorkKeys
  <2>3. Kept(m)' => Sought(t)'
    BY <2>1 DEF Sought
  <2>4. PublicationLost(m) => SearchEnds(t)
    BY <2>1 DEF SearchEnds
  <2>5. ASSUME NEW g \in Goroutines, WorksOn(g, m), Ends(g) PROVE Sought(t)'
    <3>1. Reoffer(g) /\ work[g].msg.trip = t
      BY <2>1, <2>5, SearchIsHandled DEF WorksOn
    <3>2. PICK n \in Message : n = Msg(TripEventDriverNotInterested, t, None)
      BY <1>1
    <3>3. Publish(n)
      BY <3>1, <3>2 DEF Reoffer
    <3>4. Kept(n)'
      BY <1>2, <3>3 DEF Kept
    <3> QED BY <3>2, <3>4 DEF Sought
  <2> QED BY <1>6, <2>1, <2>2, <2>3, <2>4, <2>5, KeptOrDone
<1>7. ASSUME NEW d \in Drivers, queue[Msg(DriverCmdTripRequest, t, d)] > 0
      PROVE  Sought(t)' \/ SearchEnds(t)
  <2>1. PICK m \in Message : m = Msg(DriverCmdTripRequest, t, d)
                             /\ m.key = DriverCmdTripRequest /\ m.trip = t /\ m.driver = d
    BY <1>1
  <2>2. queue'[m] > 0 => Sought(t)'
    BY <2>1 DEF Sought
  <2>3. PublicationLost(m) => SearchEnds(t)
    BY <2>1 DEF SearchEnds
  <2>4. ASSUME DeliverRequest(m) PROVE Sought(t)' \/ SearchEnds(t)
    <3>1. socket[d] # "new" /\ socket[d] \in {"new", "open", "serving", "closed", "gone"}
      BY <1>7, <2>1 DEF PagesInOrder, Inv, TypeOK
    <3>2. CASE socket[d] \in {"open", "serving"}
      <4>1. offer' = [offer EXCEPT ![d] = t]
        BY <2>1, <2>4, <3>2 DEF DeliverRequest
      <4>2. offer'[d] = t
        BY <4>1 DEF Inv, TypeOK
      <4> QED BY <4>2 DEF Sought
    <3>3. CASE socket[d] \in {"closed", "gone"}
      <4>1. PageLoses(d, t)
        BY <2>1, <2>4, <3>3 DEF PageLoses
      <4> QED BY <4>1 DEF SearchEnds
    <3> QED BY <3>1, <3>2, <3>3
  <2> QED BY <1>7, <2>1, <2>2, <2>3, <2>4, RequestStep
<1>8. ASSUME NEW d \in Drivers, offer[d] = t PROVE Sought(t)' \/ SearchEnds(t)
  <2>1. offer[d] # None
    BY <1>8, TripFlowAssumption
  <2>2. CASE offer'[d] = offer[d]
    BY <1>8, <2>2 DEF Sought
  <2>3. CASE socket'[d] \in {"closed", "gone"} \/ offer'[d] \in Trips \ {offer[d]}
    <3>1. PageLoses(d, t)
      BY <1>8, <2>3 DEF PageLoses
    <3> QED BY <3>1 DEF SearchEnds
  <2>4. CASE Accept(d)
    <3>1. PICK m \in Message : m = Msg(DriverCmdTripAccept, t, d)
      BY <1>1
    <3>2. Publish(m)
      BY <1>8, <2>4, <3>1 DEF Accept, Answer
    <3>3. Kept(m)'
      BY <1>2, <3>2 DEF Kept
    <3> QED BY <3>1, <3>3 DEF SearchEnds
  <2>5. CASE Decline(d)
    <3>1. PICK m \in Message : m = Msg(DriverCmdTripDecline, t, d)
      BY <1>1
    <3>2. Publish(m)
      BY <1>8, <2>5, <3>1 DEF Decline, Answer
    <3>3. Kept(m)'
      BY <1>2, <3>2 DEF Kept
    <3> QED BY <3>1, <3>3 DEF Sought
  <2>6. CASE AnswerLost(d)
    BY <1>8, <2>6 DEF SearchEnds
  <2> QED BY <2>1, <2>2, <2>3, <2>4, <2>5, <2>6, OfferStep
<1> QED BY <1>4, <1>5, <1>6, <1>7, <1>8 DEF Sought

\* Whatever fails, the search for a driver of a trip goes on until one has accepted or
\* there is none, unless a page loses the request or a publication never arrives.
THEOREM SearchesArePursued == Spec => SearchGoesOn
PROOF
<1>1. Init => CreatedIsStored /\ CarriedOn /\ PagesInOrder
  BY InitCalm DEF Init, CarriedOn, PagesInOrder
<1>2. Inv /\ CreatedIsStored /\ CarriedOn /\ PagesInOrder /\ [Next]_vars
        => CreatedIsStored' /\ CarriedOn' /\ PagesInOrder'
  BY StoredStays, CarriedOnStays, PagesStayInOrder
<1>3. Inv /\ CarriedOn /\ PagesInOrder /\ [Next]_vars
        => [\A t \in Trips : Sought(t) => Sought(t)' \/ SearchEnds(t)]_vars
  BY SearchStep
<1> QED BY <1>1, <1>2, <1>3, Invariance, PTL DEF Spec, SearchGoesOn

=============================================================================

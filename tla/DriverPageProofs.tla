-------------------------- MODULE DriverPageProofs --------------------------
(***************************************************************************)
(* The safety of a driver's page, for any trips and packages and any       *)
(* numbers of requests, moves and faults.                                  *)
(*                                                                         *)
(* That a trip is answered once per request needs that the page offers a   *)
(* trip for an answer only while one of its requests is unanswered         *)
(* (OfferedIsUnanswered); that the offer stays, that nothing but a request *)
(* or the driver changes the status once the page has the driver's data:   *)
(* the handler greets once (GreetedOnce, AnswerableOnce).  That the        *)
(* gateway has the newest location needs what the refs know (SentIsKnown). *)
(*                                                                         *)
(* That no answer is lost while nothing fails needs the order in which the *)
(* page, the websocket and the handler end (Orderly), which the last       *)
(* section adds to the invariant.                                          *)
(***************************************************************************)
EXTENDS DriverPage, FiniteSetTheorems, SequenceTheorems, TLAPS

\* Where a message stands in a queue.
At(q, m) == {i \in 1 .. Len(q) : q[i] = m}

\* The messages of which it matters how many are on their way to the page.
Request(t) == [type |-> DriverTripRequest, trip |-> t]
Greeting == [type |-> DriverRegister, trip |-> None]

\* Every request that has arrived, or still may, was made.
RequestsAreMade == \A t \in Trips :
  arrived[t] + Cardinality(At(down, Request(t))) + queue[t] <= requests[t]

\* A trip is offered for an answer as long as there is a request to answer.
OfferedIsUnanswered ==
  requestedTrip # None /\ tripStatus = DriverTripRequest =>
    answers[requestedTrip] < arrived[requestedTrip]

\* The handler tells the page of its registration once.
GreetedOnce ==
  Cardinality(At(down, Greeting)) + (IF driver THEN 1 ELSE 0)
    <= IF handler \in {"serving", "ended"} THEN 1 ELSE 0

\* A request that came after the registration is on the page until it is answered
\* or replaced.
AnswerableOnce ==
  requestedTrip # None /\ ~early =>
    driver /\ tripStatus \in {DriverTripRequest, DriverTripAccept}

\* What the refs know of the location has been sent.
SentIsKnown == socket = "open" /\ ref.ws => sent = ref.location

Inv ==
  /\ TypeOK
  /\ RequestsAreMade
  /\ OneAnswerPerRequest
  /\ OfferedIsUnanswered
  /\ GreetedOnce
  /\ AnswerableOnce
  /\ SentIsKnown

-----------------------------------------------------------------------------
(* Messages in a queue *)

\* An empty queue holds no message, and every queue finitely many.
LEMMA AtFinite ==
  ASSUME NEW S, NEW q \in Seq(S), NEW m
  PROVE  /\ IsFiniteSet(At(q, m))
         /\ Cardinality(At(q, m)) \in Nat
         /\ q = <<>> => Cardinality(At(q, m)) = 0
PROOF
<1>1. Len(q) \in Nat /\ IsFiniteSet(1 .. Len(q))
  BY FS_Interval
<1>2. At(q, m) \in SUBSET (1 .. Len(q))
  BY DEF At
<1>3. IsFiniteSet(At(q, m)) /\ Cardinality(At(q, m)) \in Nat
  BY <1>1, <1>2, FS_Subset, FS_CardinalityType
<1>4. q = <<>> => At(q, m) = {}
  BY DEF At
<1> QED BY <1>3, <1>4, FS_EmptySet

\* A message that is appended is there once more.
LEMMA AtAppend ==
  ASSUME NEW S, NEW q \in Seq(S), NEW m, NEW n \in S
  PROVE  Cardinality(At(Append(q, n), m)) =
           Cardinality(At(q, m)) + (IF n = m THEN 1 ELSE 0)
PROOF
<1>1. At(Append(q, n), m) = IF n = m THEN At(q, m) \cup {Len(q) + 1} ELSE At(q, m)
  BY DEF At
<1>2. Len(q) + 1 \notin At(q, m)
  BY DEF At
<1>3. IsFiniteSet(At(q, m)) /\ Cardinality(At(q, m)) \in Nat
  BY AtFinite
<1>4. CASE n = m
  BY <1>1, <1>2, <1>3, <1>4, FS_AddElement
<1>5. CASE n # m
  BY <1>1, <1>3, <1>5
<1> QED BY <1>4, <1>5

\* The head of a queue is there once less in the tail.
LEMMA AtTail ==
  ASSUME NEW S, NEW q \in Seq(S), NEW m, q # <<>>
  PROVE  Cardinality(At(q, m)) =
           Cardinality(At(Tail(q), m)) + (IF Head(q) = m THEN 1 ELSE 0)
PROOF
<1> DEFINE T == At(Tail(q), m)
           R == At(q, m) \ {1}
           f == [i \in R |-> i - 1]
<1>1. Tail(q) \in Seq(S) /\ Len(Tail(q)) = Len(q) - 1 /\ Len(q) \in Nat \ {0}
  OBVIOUS
<1>2. \A i \in 1 .. Len(q) - 1 : Tail(q)[i] = q[i + 1]
  OBVIOUS
<1>3. \A i \in R : i \in 2 .. Len(q) /\ q[i] = m
  BY <1>1 DEF At
<1>4. f \in [R -> T]
  <2> SUFFICES ASSUME NEW i \in R PROVE i - 1 \in T
    OBVIOUS
  <2>1. i - 1 \in 1 .. Len(q) - 1 /\ q[i] = m /\ (i - 1) + 1 = i
    BY <1>1, <1>3
  <2>2. Tail(q)[i - 1] = m
    BY <1>2, <2>1
  <2> QED BY <1>1, <2>1, <2>2 DEF At
<1>5. \A i, j \in R : f[i] = f[j] => i = j
  BY <1>1, <1>3
<1>6. \A k \in T : \E i \in R : f[i] = k
  <2> SUFFICES ASSUME NEW k \in T PROVE k + 1 \in R /\ f[k + 1] = k
    OBVIOUS
  <2>1. k \in 1 .. Len(q) - 1 /\ Tail(q)[k] = m
    BY <1>1 DEF At
  <2>2. k + 1 \in R
    BY <1>1, <1>2, <2>1 DEF At
  <2> QED BY <1>1, <2>1, <2>2
<1>7. ExistsBijection(R, T)
  <2>1. f \in Bijection(R, T)
    BY <1>4, <1>5, <1>6 DEF Bijection, Injection, Surjection, IsInjective
  <2> QED BY <2>1 DEF ExistsBijection
<1>8. IsFiniteSet(At(q, m)) /\ IsFiniteSet(T) /\ Cardinality(T) \in Nat
      /\ Cardinality(At(q, m)) \in Nat
  BY <1>1, AtFinite
<1>9. IsFiniteSet(R) /\ Cardinality(T) = Cardinality(R)
  BY <1>7, <1>8, FS_RemoveElement, FS_Bijection
<1>10. Cardinality(R) = IF 1 \in At(q, m) THEN Cardinality(At(q, m)) - 1
                        ELSE Cardinality(At(q, m))
  BY <1>8, FS_RemoveElement
<1>11. 1 \in At(q, m) <=> Head(q) = m
  BY <1>1 DEF At
<1> QED BY <1>8, <1>9, <1>10, <1>11

LEMMA DownMessage ==
  /\ \A t \in Trips : Request(t) \in DownMessages
  /\ Greeting \in DownMessages
  /\ \A t \in Trips : Request(t) # Greeting
  /\ \A t, u \in Trips : Request(t) = Request(u) => t = u
  /\ \A m \in DownMessages : m = Greeting \/ \E t \in Trips : m = Request(t)
  /\ Greeting.type = DriverRegister
  /\ \A t \in Trips : Request(t).type = DriverTripRequest /\ Request(t).trip = t
  /\ DriverRegister # DriverTripRequest
PROOF
<1> QED BY DEF Request, Greeting, DownMessages, DriverRegister, DriverTripRequest

LEMMA HomeTypeStays ==
  ASSUME HomeTypeOK, UNCHANGED homeVars
  PROVE  HomeTypeOK'
PROOF
<1> QED BY DEF HomeTypeOK, homeVars

-----------------------------------------------------------------------------
(* Steps that change what the page is asked or shows *)

LEMMA InitInv == Init => Inv
PROOF
<1> SUFFICES ASSUME Init PROVE Inv
  OBVIOUS
<1>1. TypeOK
  <2>1. HomeTypeOK
    BY DEF Init, HomeInit, HomeTypeOK
  <2>2. up \in Seq(UpMessages) /\ down \in Seq(DownMessages)
    BY DEF Init
  <2>3. 0 \in Locations /\ 0 \in 0 .. MaxRequests /\ 0 \in 0 .. MaxFaults
    BY DriverPageAssumption DEF Locations
  <2>4. PageTypeOK /\ OfferTypeOK
    BY <2>3 DEF Init, PageTypeOK, OfferTypeOK
  <2>5. GatewayTypeOK /\ RequestTypeOK
    BY <2>3 DEF Init, GatewayTypeOK, RequestTypeOK
  <2> QED BY <2>1, <2>2, <2>4, <2>5 DEF TypeOK
<1>2. \A m : Cardinality(At(down, m)) = 0
  <2>1. down = <<>> /\ down \in Seq(DownMessages)
    BY DEF Init
  <2> QED BY <2>1, AtFinite
<1>3. RequestsAreMade /\ OneAnswerPerRequest
  BY <1>2 DEF Init, RequestsAreMade, OneAnswerPerRequest
<1>4. OfferedIsUnanswered /\ AnswerableOnce /\ SentIsKnown
  BY DEF Init, OfferedIsUnanswered, AnswerableOnce, SentIsKnown
<1>5. GreetedOnce
  BY <1>2 DEF Init, GreetedOnce
<1> QED BY <1>1, <1>3, <1>4, <1>5 DEF Inv

\* The page receives the head of what is on its way.
LEMMA ReceiveInv ==
  ASSUME Inv, Receive
  PROVE  Inv'
PROOF
<1> USE DEF Inv
<1> DEFINE m == Head(down)
<1>1. /\ requestedTrip' = IF m.type = DriverTripRequest THEN m.trip ELSE requestedTrip
      /\ driver' = (driver \/ m.type = DriverRegister)
      /\ tripStatus' = m.type
      /\ arrived' = IF m.type = DriverTripRequest
                    THEN [arrived EXCEPT ![m.trip] = @ + 1] ELSE arrived
      /\ early' = (early \/ (m.type = DriverTripRequest /\ ~driver))
      /\ down # <<>> /\ down' = Tail(down)
      /\ UNCHANGED <<socket, view, position, homeVars, up, gateway, broker, requests, answers,
                     sent, dropped, faults>>
  BY DEF Receive, HandleMessage
<1>2. down \in Seq(DownMessages)
  BY DEF TypeOK
<1>3. m \in DownMessages /\ Tail(down) \in Seq(DownMessages)
  BY <1>1, <1>2
<1>4. \A n : /\ Cardinality(At(down, n)) =
                  Cardinality(At(Tail(down), n)) + (IF m = n THEN 1 ELSE 0)
             /\ Cardinality(At(Tail(down), n)) \in Nat
  BY <1>1, <1>2, <1>3, AtTail, AtFinite
<1>5. /\ requests \in [Trips -> 0 .. MaxRequests] /\ queue \in [Trips -> 0 .. MaxRequests]
      /\ arrived \in [Trips -> 0 .. MaxRequests] /\ answers \in [Trips -> Nat]
      /\ MaxRequests \in Nat
  BY DriverPageAssumption DEF TypeOK, RequestTypeOK
<1>6. \A t \in Trips : m = Request(t) =>
        /\ requestedTrip' = t /\ tripStatus' = DriverTripRequest
        /\ driver' = driver /\ early' = (early \/ ~driver)
        /\ arrived' = [arrived EXCEPT ![t] = @ + 1]
  <2> SUFFICES ASSUME NEW t \in Trips, m = Request(t)
               PROVE  /\ requestedTrip' = t /\ tripStatus' = DriverTripRequest
                      /\ driver' = driver /\ early' = (early \/ ~driver)
                      /\ arrived' = [arrived EXCEPT ![t] = @ + 1]
    OBVIOUS
  <2>1. m.type = DriverTripRequest /\ m.type # DriverRegister /\ m.trip = t
    BY DownMessage
  <2>2. driver \in BOOLEAN /\ early \in BOOLEAN
    BY DEF TypeOK, OfferTypeOK
  <2>3. requestedTrip' = t /\ tripStatus' = DriverTripRequest
        /\ arrived' = [arrived EXCEPT ![t] = @ + 1]
    BY <1>1, <2>1
  <2>4. driver' = driver /\ early' = (early \/ ~driver)
    <3> HIDE DEF m
    <3> QED BY <1>1, <2>1, <2>2, Zenon
  <2> QED BY <2>3, <2>4
<1>7. m = Greeting =>
        /\ driver' = TRUE /\ tripStatus' = DriverRegister
        /\ UNCHANGED <<requestedTrip, early, arrived>>
  BY <1>1, DownMessage DEF TypeOK, OfferTypeOK
<1>8. m = Greeting \/ \E t \in Trips : m = Request(t)
  BY <1>3, DownMessage
<1>9. \A t \in Trips : arrived'[t] = arrived[t] + (IF m = Request(t) THEN 1 ELSE 0)
  BY <1>5, <1>6, <1>7, <1>8, DownMessage
<1>10. RequestsAreMade'
  <2> SUFFICES ASSUME NEW t \in Trips
               PROVE  arrived'[t] + Cardinality(At(Tail(down), Request(t))) + queue[t] <= requests[t]
    BY <1>1 DEF RequestsAreMade, broker
  <2>1. arrived[t] + Cardinality(At(down, Request(t))) + queue[t] <= requests[t]
    BY DEF RequestsAreMade
  <2>2. Cardinality(At(down, Request(t))) =
          Cardinality(At(Tail(down), Request(t))) + (IF m = Request(t) THEN 1 ELSE 0)
    BY <1>4
  <2>3. Cardinality(At(Tail(down), Request(t))) \in Nat
    BY <1>4
  <2> QED BY <1>5, <1>9, <2>1, <2>2, <2>3
<1>11. TypeOK'
  <2>1. HomeTypeOK' /\ PageTypeOK' /\ GatewayTypeOK'
    BY <1>1, HomeTypeStays DEF TypeOK, PageTypeOK, GatewayTypeOK, position, gateway, broker
  <2>2. OfferTypeOK'
    BY <1>1, <1>6, <1>7, <1>8 DEF TypeOK, OfferTypeOK
  <2>3. \A t \in Trips : arrived'[t] \in 0 .. MaxRequests
    <3> SUFFICES ASSUME NEW t \in Trips PROVE arrived'[t] \in 0 .. MaxRequests
      OBVIOUS
    <3>1. arrived'[t] + Cardinality(At(Tail(down), Request(t))) + queue[t] <= requests[t]
      BY <1>1, <1>10 DEF RequestsAreMade, broker
    <3>2. Cardinality(At(Tail(down), Request(t))) \in Nat /\ arrived'[t] \in Nat
      BY <1>4, <1>5, <1>9
    <3> QED BY <1>5, <3>1, <3>2
  <2>4. arrived' \in [Trips -> 0 .. MaxRequests]
    <3>1. CASE m = Greeting
      BY <1>5, <1>7, <3>1
    <3>2. CASE \E t \in Trips : m = Request(t)
      BY <1>5, <1>6, <2>3, <3>2
    <3> QED BY <1>8, <3>1, <3>2
  <2>5. RequestTypeOK'
    BY <1>1, <1>5, <2>4 DEF RequestTypeOK, broker
  <2> QED BY <1>1, <1>3, <2>1, <2>2, <2>5 DEF TypeOK
<1>12. OneAnswerPerRequest'
  <2> SUFFICES ASSUME NEW t \in Trips PROVE answers[t] <= arrived'[t]
    BY <1>1 DEF OneAnswerPerRequest
  <2>1. answers[t] <= arrived[t] /\ answers[t] \in Nat /\ arrived[t] \in Nat
    BY <1>5 DEF OneAnswerPerRequest
  <2> QED BY <1>9, <2>1
<1>13. SentIsKnown'
  BY <1>1 DEF SentIsKnown, position
<1>14. CASE m = Greeting
  <2>1. Cardinality(At(down, Greeting)) = Cardinality(At(Tail(down), Greeting)) + 1
        /\ Cardinality(At(Tail(down), Greeting)) \in Nat
    BY <1>4, <1>14
  <2>2. ~driver /\ GreetedOnce'
    BY <1>1, <1>7, <1>14, <2>1 DEF GreetedOnce, gateway
  <2>3. OfferedIsUnanswered'
    BY <1>7, <1>14, DownMessage DEF OfferedIsUnanswered
  <2>4. AnswerableOnce'
    BY <1>7, <1>14, <2>2 DEF AnswerableOnce
  <2> QED BY <1>10, <1>11, <1>12, <1>13, <2>2, <2>3, <2>4
<1>15. ASSUME NEW t \in Trips, m = Request(t) PROVE Inv'
  <2>1. answers[t] <= arrived[t] /\ arrived'[t] = arrived[t] + 1
        /\ answers[t] \in Nat /\ arrived[t] \in Nat
    BY <1>5, <1>9, <1>15 DEF OneAnswerPerRequest
  <2>2. OfferedIsUnanswered'
    BY <1>1, <1>6, <1>15, <2>1 DEF OfferedIsUnanswered
  <2>3. AnswerableOnce'
    BY <1>6, <1>15 DEF AnswerableOnce
  <2>4. Cardinality(At(down, Greeting)) = Cardinality(At(Tail(down), Greeting))
    <3>1. m # Greeting /\ Cardinality(At(Tail(down), Greeting)) \in Nat
      BY <1>4, <1>15, DownMessage
    <3> QED BY <1>4, <3>1
  <2>5. GreetedOnce'
    BY <1>1, <1>6, <1>15, <2>4 DEF GreetedOnce, gateway
  <2> QED BY <1>10, <1>11, <1>12, <1>13, <2>2, <2>3, <2>5
<1> QED BY <1>8, <1>14, <1>15

\* The driver answers the trip on the page.
LEMMA AnswerInv ==
  ASSUME Inv, AcceptTrip \/ DeclineTrip
  PROVE  Inv'
PROOF
<1> USE DEF Inv
<1>1. PICK type \in AnswerTypes : SendAnswer(type)
  BY DEF AcceptTrip, DeclineTrip, AnswerTypes
<1>2. requestedTrip \in Trips /\ tripStatus = DriverTripRequest /\ driver
  <2>1. Screen = "request" /\ driver
    BY <1>1 DEF SendAnswer
  <2>2. view = "ui" /\ requestedTrip # None /\ tripStatus = DriverTripRequest
    BY <2>1 DEF Screen, TypeOK, PageTypeOK
  <2> QED BY <2>1, <2>2 DEF TypeOK, OfferTypeOK
<1>3. /\ UNCHANGED <<socket, view, driver, position, homeVars, down, gateway, broker,
                     requests, arrived, sent, early, faults>>
      /\ answers' = [answers EXCEPT ![requestedTrip] = @ + 1]
  BY <1>1 DEF AcceptTrip, DeclineTrip, SendAnswer
<1>4. \/ tripStatus' = DriverTripAccept /\ requestedTrip' = requestedTrip
      \/ tripStatus' = None /\ requestedTrip' = None
  BY DEF AcceptTrip, DeclineTrip
<1>5. up' \in Seq(UpMessages) /\ dropped' \in SUBSET Trips
  <2>1. [type |-> type, trip |-> requestedTrip] \in UpMessages
    BY <1>2 DEF UpMessages, Answers
  <2>2. up \in Seq(UpMessages) /\ dropped \in SUBSET Trips
    BY DEF TypeOK, OfferTypeOK
  <2>3. Append(up, [type |-> type, trip |-> requestedTrip]) \in Seq(UpMessages)
    BY <2>1, <2>2
  <2>4. \/ up' = up /\ dropped' = dropped \cup {requestedTrip}
        \/ up' = Append(up, [type |-> type, trip |-> requestedTrip]) /\ dropped' = dropped
    BY <1>1 DEF SendAnswer
  <2> QED BY <1>2, <2>2, <2>3, <2>4
<1>6. TypeOK'
  <2>1. HomeTypeOK' /\ PageTypeOK' /\ GatewayTypeOK'
    BY <1>3, HomeTypeStays DEF TypeOK, PageTypeOK, GatewayTypeOK, position, gateway, broker
  <2>2. OfferTypeOK'
    BY <1>2, <1>3, <1>4, <1>5 DEF TypeOK, OfferTypeOK
  <2>3. RequestTypeOK'
    BY <1>2, <1>3 DEF TypeOK, RequestTypeOK, broker
  <2> QED BY <1>3, <1>5, <2>1, <2>2, <2>3 DEF TypeOK
<1>7. RequestsAreMade'
  BY <1>3 DEF RequestsAreMade, broker
<1>8. OneAnswerPerRequest'
  <2>1. answers[requestedTrip] < arrived[requestedTrip]
    BY <1>2, DriverPageAssumption DEF OfferedIsUnanswered
  <2>2. answers \in [Trips -> Nat] /\ arrived \in [Trips -> 0 .. MaxRequests]
    BY DEF TypeOK, RequestTypeOK
  <2> QED BY <1>2, <1>3, <2>1, <2>2, DriverPageAssumption DEF OneAnswerPerRequest
<1>9. OfferedIsUnanswered'
  BY <1>4, DriverPageAssumption
  DEF OfferedIsUnanswered, DriverTripAccept, DriverTripRequest
<1>10. AnswerableOnce'
  BY <1>2, <1>3, <1>4 DEF AnswerableOnce
<1>11. GreetedOnce' /\ SentIsKnown'
  BY <1>3 DEF GreetedOnce, SentIsKnown, position, gateway
<1> QED BY <1>6, <1>7, <1>8, <1>9, <1>10, <1>11

\* The handler greets the page, which it has not done before.
LEMMA GreetInv ==
  ASSUME Inv, Greet
  PROVE  Inv'
PROOF
<1> USE DEF Inv
<1>1. /\ UNCHANGED <<page, up, registered, broker, history, faults>>
      /\ handler = "registered" /\ handler' = "serving"
      /\ down' \in {down, Append(down, Greeting)}
  BY DEF Greet, Greeting
<1> USE DEF page, position, broker, history
<1>2. down \in Seq(DownMessages) /\ Append(down, Greeting) \in Seq(DownMessages)
  BY DownMessage DEF TypeOK
<1>3. TypeOK'
  <2>1. HomeTypeOK' /\ PageTypeOK' /\ GatewayTypeOK' /\ OfferTypeOK' /\ RequestTypeOK'
    BY <1>1, HomeTypeStays DEF TypeOK, PageTypeOK, GatewayTypeOK, OfferTypeOK, RequestTypeOK
  <2> QED BY <1>1, <1>2, <2>1 DEF TypeOK
<1>4. /\ Cardinality(At(down, Greeting)) \in Nat
      /\ Cardinality(At(Append(down, Greeting), Greeting)) = Cardinality(At(down, Greeting)) + 1
  BY <1>2, AtAppend, AtFinite, DownMessage
<1>5. \A t \in Trips : Cardinality(At(down', Request(t))) = Cardinality(At(down, Request(t)))
  <2> SUFFICES ASSUME NEW t \in Trips
               PROVE  Cardinality(At(Append(down, Greeting), Request(t)))
                        = Cardinality(At(down, Request(t)))
    BY <1>1
  <2>1. Cardinality(At(down, Request(t))) \in Nat
    BY <1>2, AtFinite
  <2>2. Request(t) # Greeting /\ Greeting \in DownMessages
    BY DownMessage
  <2> QED BY <1>2, <2>1, <2>2, AtAppend
<1>6. RequestsAreMade'
  BY <1>1, <1>5 DEF RequestsAreMade
<1>7. GreetedOnce'
  <2>1. ~driver /\ Cardinality(At(down, Greeting)) = 0
    BY <1>1, <1>4 DEF GreetedOnce
  <2>2. Cardinality(At(down', Greeting)) \in {0, 1}
    <3>1. CASE down' = down
      BY <2>1, <3>1
    <3>2. CASE down' = Append(down, Greeting)
      BY <1>4, <2>1, <3>2
    <3> QED BY <1>1, <3>1, <3>2
  <2> QED BY <1>1, <2>1, <2>2 DEF GreetedOnce
<1>8. OneAnswerPerRequest' /\ OfferedIsUnanswered' /\ AnswerableOnce' /\ SentIsKnown'
  BY <1>1 DEF OneAnswerPerRequest, OfferedIsUnanswered, AnswerableOnce, SentIsKnown
<1> QED BY <1>3, <1>6, <1>7, <1>8

\* A request is made, or goes from the broker to the page or is lost.
LEMMA RequestInv ==
  ASSUME Inv, NEW t \in Trips, RequestTrip(t) \/ Deliver(t)
  PROVE  Inv'
PROOF
<1> USE DEF Inv
<1>1. /\ UNCHANGED <<page, up, gateway, arrived, answers, sent, early, dropped, faults,
                     published>>
      /\ down' \in {down, Append(down, Request(t))}
  BY DEF RequestTrip, Deliver, broker, history, Request
<1> USE DEF page, position, gateway
<1>2. down \in Seq(DownMessages) /\ down' \in Seq(DownMessages)
  <2>1. down \in Seq(DownMessages) /\ Request(t) \in DownMessages
    BY DownMessage DEF TypeOK
  <2>2. Append(down, Request(t)) \in Seq(DownMessages)
    BY <2>1
  <2> QED BY <1>1, <2>1, <2>2
<1>3. \A m : /\ Cardinality(At(down, m)) \in Nat
             /\ Cardinality(At(down', m)) \in Nat
             /\ Cardinality(At(down', m)) <=
                  Cardinality(At(down, m)) + (IF m = Request(t) THEN 1 ELSE 0)
  <2> SUFFICES ASSUME NEW m
               PROVE  /\ Cardinality(At(down, m)) \in Nat
                      /\ Cardinality(At(down', m)) \in Nat
                      /\ Cardinality(At(down', m)) <=
                           Cardinality(At(down, m)) + (IF m = Request(t) THEN 1 ELSE 0)
    OBVIOUS
  <2>1. Cardinality(At(down, m)) \in Nat /\ Cardinality(At(down', m)) \in Nat
    BY <1>2, AtFinite
  <2>2. Cardinality(At(Append(down, Request(t)), m)) =
          Cardinality(At(down, m)) + (IF Request(t) = m THEN 1 ELSE 0)
    BY <1>2, AtAppend, DownMessage
  <2>3. CASE down' = down
    BY <2>1, <2>3
  <2>4. CASE down' = Append(down, Request(t))
    BY <2>1, <2>2, <2>4
  <2> QED BY <1>1, <2>3, <2>4
<1>4. /\ requests \in [Trips -> 0 .. MaxRequests] /\ queue \in [Trips -> 0 .. MaxRequests]
      /\ arrived \in [Trips -> 0 .. MaxRequests] /\ MaxRequests \in Nat
  BY DriverPageAssumption DEF TypeOK, RequestTypeOK
<1>5. /\ requests' \in [Trips -> 0 .. MaxRequests] /\ queue' \in [Trips -> Int]
      /\ \A u \in Trips : queue'[u] \in Nat
      /\ RequestsAreMade'
  <2>1. CASE RequestTrip(t)
    <3>1. /\ down' = down /\ arrived' = arrived /\ requests[t] < MaxRequests
          /\ requests' = [requests EXCEPT ![t] = @ + 1]
          /\ queue' = [queue EXCEPT ![t] = @ + 1]
      BY <2>1 DEF RequestTrip
    <3>2. \A u \in Trips : Cardinality(At(down, Request(u))) \in Nat
      BY <1>3
    <3> QED BY <1>4, <3>1, <3>2 DEF RequestsAreMade
  <2>2. CASE Deliver(t)
    <3>1. /\ queue' = [queue EXCEPT ![t] = @ - 1] /\ queue[t] > 0
          /\ requests' = requests /\ arrived' = arrived
      BY <2>2 DEF Deliver, history
    <3>2. \A u \in Trips : u # t => Request(u) # Request(t)
      BY DownMessage
    <3>3. \A u \in Trips : arrived[u] + Cardinality(At(down', Request(u))) + queue'[u]
                             <= requests[u]
      <4> SUFFICES ASSUME NEW u \in Trips
                   PROVE  arrived[u] + Cardinality(At(down', Request(u))) + queue'[u]
                            <= requests[u]
        OBVIOUS
      <4>1. arrived[u] + Cardinality(At(down, Request(u))) + queue[u] <= requests[u]
        BY DEF RequestsAreMade
      <4>2. /\ Cardinality(At(down, Request(u))) \in Nat
            /\ Cardinality(At(down', Request(u))) \in Nat
            /\ Cardinality(At(down', Request(u))) <=
                 Cardinality(At(down, Request(u))) + (IF u = t THEN 1 ELSE 0)
        BY <1>3, <3>2
      <4>3. queue'[u] = queue[u] - (IF u = t THEN 1 ELSE 0)
        BY <1>4, <3>1
      <4> QED BY <1>4, <4>1, <4>2, <4>3
    <3> QED BY <1>4, <3>1, <3>3 DEF RequestsAreMade
  <2> QED BY <2>1, <2>2
<1>6. queue' \in [Trips -> 0 .. MaxRequests]
  <2> SUFFICES ASSUME NEW u \in Trips PROVE queue'[u] \in 0 .. MaxRequests
    BY <1>5
  <2>1. arrived'[u] + Cardinality(At(down', Request(u))) + queue'[u] <= requests'[u]
    BY <1>5 DEF RequestsAreMade
  <2>2. arrived'[u] \in Nat /\ Cardinality(At(down', Request(u))) \in Nat
        /\ queue'[u] \in Nat /\ requests'[u] \in 0 .. MaxRequests
    BY <1>1, <1>3, <1>4, <1>5
  <2> QED BY <1>4, <2>1, <2>2
<1>7. TypeOK'
  <2>1. HomeTypeOK' /\ PageTypeOK'
    BY <1>1, HomeTypeStays DEF TypeOK, PageTypeOK
  <2>3. GatewayTypeOK' /\ OfferTypeOK'
    BY <1>1 DEF TypeOK, GatewayTypeOK, OfferTypeOK
  <2>2. RequestTypeOK'
    BY <1>1, <1>5, <1>6 DEF TypeOK, RequestTypeOK
  <2> QED BY <1>1, <1>2, <2>1, <2>2, <2>3 DEF TypeOK
<1>8. GreetedOnce'
  <2>1. Cardinality(At(down', Greeting)) <= Cardinality(At(down, Greeting))
        /\ Cardinality(At(down', Greeting)) \in Nat /\ Cardinality(At(down, Greeting)) \in Nat
    BY <1>3, DownMessage
  <2> QED BY <1>1, <2>1 DEF GreetedOnce
<1>9. OneAnswerPerRequest' /\ OfferedIsUnanswered' /\ AnswerableOnce' /\ SentIsKnown'
  BY <1>1 DEF OneAnswerPerRequest, OfferedIsUnanswered, AnswerableOnce, SentIsKnown
<1> QED BY <1>5, <1>7, <1>8, <1>9

-----------------------------------------------------------------------------
(* Steps that leave the page as it is, or with nothing *)

\* What changes neither what the page shows nor what it is asked.
LEMMA QuietInv ==
  ASSUME Inv, TypeOK', SentIsKnown',
         handler \in {"serving", "ended"} => handler' \in {"serving", "ended"},
         UNCHANGED <<driver, requestedTrip, tripStatus, down, queue, requests, arrived,
                     answers, early>>
  PROVE  Inv'
PROOF
<1> USE DEF Inv
<1>1. RequestsAreMade'
  BY DEF RequestsAreMade
<1>2. OneAnswerPerRequest' /\ OfferedIsUnanswered' /\ AnswerableOnce'
  BY DEF OneAnswerPerRequest, OfferedIsUnanswered, AnswerableOnce
<1>3. GreetedOnce'
  <2>1. Cardinality(At(down, Greeting)) \in Nat
    BY AtFinite DEF TypeOK
  <2> QED BY <2>1 DEF GreetedOnce
<1> QED BY <1>1, <1>2, <1>3

\* The page goes, or what is on its way to it is lost.
LEMMA LostInv ==
  ASSUME Inv, TypeOK', socket' = "closed", down' = <<>>,
         \/ UNCHANGED <<driver, requestedTrip, tripStatus>>
         \/ driver' = FALSE /\ requestedTrip' = None /\ tripStatus' = None,
         UNCHANGED <<handler, queue, requests, arrived, answers, early>>
  PROVE  Inv'
PROOF
<1> USE DEF Inv
<1>1. \A m : Cardinality(At(down, m)) \in Nat /\ Cardinality(At(down', m)) = 0
  <2>1. down \in Seq(DownMessages) /\ down' \in Seq(DownMessages)
    BY DEF TypeOK
  <2> QED BY <2>1, AtFinite
<1>2. RequestsAreMade'
  <2> SUFFICES ASSUME NEW t \in Trips
               PROVE  arrived[t] + Cardinality(At(down', Request(t))) + queue[t] <= requests[t]
    BY DEF RequestsAreMade
  <2>1. Cardinality(At(down', Request(t))) = 0 /\ Cardinality(At(down, Request(t))) \in Nat
    BY <1>1
  <2>2. arrived[t] \in Nat /\ queue[t] \in Nat /\ requests[t] \in Nat
    BY DriverPageAssumption DEF TypeOK, RequestTypeOK
  <2>3. arrived[t] + Cardinality(At(down, Request(t))) + queue[t] <= requests[t]
    BY DEF RequestsAreMade
  <2> QED BY <2>1, <2>2, <2>3
<1>3. OneAnswerPerRequest'
  BY DEF OneAnswerPerRequest
<1>4. OfferedIsUnanswered' /\ AnswerableOnce' /\ SentIsKnown'
  BY DEF OfferedIsUnanswered, AnswerableOnce, SentIsKnown
<1>5. GreetedOnce'
  <2>1. Cardinality(At(down', Greeting)) = 0 /\ Cardinality(At(down, Greeting)) \in Nat
    BY <1>1
  <2> QED BY <2>1 DEF GreetedOnce
<1> QED BY <1>2, <1>3, <1>4, <1>5

\* The choice, the mount and the positions of the browser.
LEMMA PageQuietInv ==
  ASSUME Inv,
         \/ Choose \/ Move \/ SocketOpens \/ Effects
         \/ \E p \in CarPackages : Mount(p)
  PROVE  Inv'
PROOF
<1> USE DEF Inv, position, gateway, broker, history
<1>1. UNCHANGED <<driver, requestedTrip, tripStatus, down, queue, requests, arrived,
                  answers, early, dropped, handler, registered, published, faults>>
  BY DEF Choose, Move, SocketOpens, Effects, Mount
<1>2. HomeTypeOK'
  <2>1. CASE Choose
    BY <2>1 DEF Choose, ChooseDriver, GoBack, UserTypes, TypeOK, HomeTypeOK
  <2>2. ASSUME NEW p \in CarPackages, Mount(p) PROVE HomeTypeOK'
    BY <2>2 DEF Mount, SelectPackage, TypeOK, HomeTypeOK
  <2> QED BY <2>1, <2>2, HomeTypeStays DEF Move, SocketOpens, Effects, TypeOK
<1>3. \A l \in Locations : Append(up, [type |-> DriverLocation, location |-> l]) \in Seq(UpMessages)
  <2>1. \A l \in Locations : [type |-> DriverLocation, location |-> l] \in UpMessages
    BY DEF UpMessages
  <2> QED BY <2>1 DEF TypeOK
<1>4. PageTypeOK' /\ up' \in Seq(UpMessages) /\ SentIsKnown'
  <2> USE DEF TypeOK, PageTypeOK, SentIsKnown
  <2>1. CASE Choose
    BY <2>1 DEF Choose
  <2>2. CASE Move
    BY <2>2, DriverPageAssumption DEF Move, Locations
  <2>3. CASE SocketOpens
    BY <1>3, <2>3 DEF SocketOpens
  <2>4. CASE Effects
    BY <1>3, <2>4 DEF Effects
  <2>5. ASSUME NEW p \in CarPackages, Mount(p)
        PROVE  PageTypeOK' /\ up' \in Seq(UpMessages) /\ SentIsKnown'
    BY <2>5 DEF Mount
  <2> QED BY <2>1, <2>2, <2>3, <2>4, <2>5
<1>5. OfferTypeOK' /\ GatewayTypeOK' /\ RequestTypeOK'
  BY <1>1 DEF TypeOK, OfferTypeOK, GatewayTypeOK, RequestTypeOK
<1>6. TypeOK'
  BY <1>1, <1>2, <1>4, <1>5 DEF TypeOK
<1> QED BY <1>1, <1>4, <1>6, QuietInv

\* The steps of the gateway's handler, but for the greeting.
LEMMA HandlerQuietInv ==
  ASSUME Inv,
         \/ Accept \/ Register \/ RegisterFails \/ Serve \/ PublishFails
         \/ HandlerEnds \/ UnregisterFails
  PROVE  Inv'
PROOF
<1> USE DEF Inv, page, position, gateway, broker, history, Ending
<1>1. /\ UNCHANGED <<view, driver, requestedTrip, tripStatus, down, queue, requests, arrived,
                     answers, sent, early, dropped, location, ref, homeVars>>
      /\ socket' \in {socket, "closed"}
  BY DEF Accept, Register, RegisterFails, Serve, PublishFails, HandlerEnds, UnregisterFails
<1>2. HomeTypeOK' /\ PageTypeOK' /\ OfferTypeOK' /\ RequestTypeOK'
  BY <1>1, HomeTypeStays DEF TypeOK, PageTypeOK, OfferTypeOK, RequestTypeOK
<1>3. up' \in Seq(UpMessages)
  <2>1. up \in Seq(UpMessages) /\ <<>> \in Seq(UpMessages)
        /\ (up # <<>> => Tail(up) \in Seq(UpMessages))
    BY DEF TypeOK
  <2>2. \/ up' = up \/ up' = <<>>
        \/ up # <<>> /\ up' = Tail(up)
    BY DEF Accept, Register, RegisterFails, Serve, PublishFails, HandlerEnds, UnregisterFails
  <2> QED BY <2>1, <2>2
<1>4. published' \in SUBSET Answers
  <2>1. published \in SUBSET Answers
    BY DEF TypeOK, GatewayTypeOK
  <2>2. CASE Serve
    <3>1. up \in Seq(UpMessages) /\ up # <<>> /\ Head(up) \in UpMessages
      BY <2>2 DEF Serve, TypeOK
    <3>2. Head(up).type \in AnswerTypes => Head(up) \in Answers
      BY <3>1 DEF UpMessages, AnswerTypes, DriverLocation, DriverTripAccept,
                  DriverTripDecline
    <3> QED BY <2>1, <2>2, <3>2 DEF Serve
  <2> QED BY <2>1, <2>2
      DEF Accept, Register, RegisterFails, PublishFails, HandlerEnds, UnregisterFails
<1>5. /\ handler' \in {"none", "awaiting location", "registered", "serving", "ended"}
      /\ registered' \in BOOLEAN
      /\ handler \in {"serving", "ended"} => handler' \in {"serving", "ended"}
  BY DEF Accept, Register, RegisterFails, Serve, PublishFails, HandlerEnds, UnregisterFails,
         Connected, TypeOK, GatewayTypeOK
<1>6. faults' \in 0 .. MaxFaults
  <2>1. faults \in 0 .. MaxFaults /\ MaxFaults \in Nat
    BY DriverPageAssumption DEF TypeOK, GatewayTypeOK
  <2>2. faults' = faults \/ Fault
    BY DEF Accept, Register, RegisterFails, Serve, PublishFails, HandlerEnds, UnregisterFails
  <2> QED BY <2>1, <2>2 DEF Fault
<1>7. TypeOK'
  BY <1>1, <1>2, <1>3, <1>4, <1>5, <1>6 DEF TypeOK, GatewayTypeOK
<1>8. SentIsKnown'
  BY <1>1 DEF SentIsKnown
<1> QED BY <1>1, <1>5, <1>7, <1>8, QuietInv

\* The driver goes back, or the network fails.
LEMMA PageLostInv ==
  ASSUME Inv, Back \/ \E v \in {"ui", "error"} : SocketFails(v)
  PROVE  Inv'
PROOF
<1> USE DEF Inv, position, gateway, broker, history
<1>1. /\ UNCHANGED <<handler, registered, queue, published, requests, arrived, answers, sent,
                     early, dropped, location, ref, up>>
      /\ socket' = "closed" /\ down' = <<>>
      /\ \/ UNCHANGED <<driver, requestedTrip, tripStatus>>
         \/ driver' = FALSE /\ requestedTrip' = None /\ tripStatus' = None
      /\ view' \in {"ui", "error", "gone"}
      /\ faults' = faults \/ Fault
  BY DEF Back, SocketFails
<1>2. HomeTypeOK'
  BY HomeTypeStays DEF Back, GoBack, SocketFails, TypeOK, HomeTypeOK
<1>3. PageTypeOK' /\ OfferTypeOK' /\ RequestTypeOK'
  BY <1>1 DEF TypeOK, PageTypeOK, OfferTypeOK, RequestTypeOK
<1>4. GatewayTypeOK'
  <2>1. faults \in 0 .. MaxFaults /\ MaxFaults \in Nat
    BY DriverPageAssumption DEF TypeOK, GatewayTypeOK
  <2>2. faults' \in 0 .. MaxFaults
    BY <1>1, <2>1 DEF Fault
  <2> QED BY <1>1, <2>2 DEF TypeOK, GatewayTypeOK
<1>5. TypeOK'
  BY <1>1, <1>2, <1>3, <1>4 DEF TypeOK
<1> QED BY <1>1, <1>5, LostInv

-----------------------------------------------------------------------------
(* The theorems *)

LEMMA NextInv == Inv /\ [Next]_vars => Inv'
PROOF
<1> SUFFICES ASSUME Inv, [Next]_vars PROVE Inv'
  OBVIOUS
<1>1. CASE Choose \/ Move \/ SocketOpens \/ Effects \/ \E p \in CarPackages : Mount(p)
  BY <1>1, PageQuietInv
<1>2. CASE Back \/ SocketFails("ui") \/ SocketFails("error")
  BY <1>2, PageLostInv
<1>3. CASE Receive
  BY <1>3, ReceiveInv
<1>4. CASE AcceptTrip \/ DeclineTrip
  BY <1>4, AnswerInv
<1>5. CASE Accept \/ Handler
  BY <1>5, HandlerQuietInv, GreetInv DEF Handler
<1>6. CASE \E t \in Trips : RequestTrip(t) \/ Deliver(t)
  BY <1>6, RequestInv
<1>7. CASE UNCHANGED vars
  <2> USE DEF vars, page, position, gateway, broker, history
  <2>1. TypeOK'
    <3>1. HomeTypeOK' /\ PageTypeOK'
      BY <1>7, HomeTypeStays DEF Inv, TypeOK, PageTypeOK
    <3>2. OfferTypeOK' /\ GatewayTypeOK'
      BY <1>7 DEF Inv, TypeOK, OfferTypeOK, GatewayTypeOK
    <3>3. RequestTypeOK'
      BY <1>7 DEF Inv, TypeOK, RequestTypeOK
    <3> QED BY <1>7, <3>1, <3>2, <3>3 DEF Inv, TypeOK
  <2>2. SentIsKnown'
    BY <1>7 DEF Inv, SentIsKnown
  <2> QED BY <1>7, <2>1, <2>2, QuietInv
<1> QED BY <1>1, <1>2, <1>3, <1>4, <1>5, <1>6, <1>7 DEF Next

\* The strengthening holds in every reachable state of a driver's page.
THEOREM Invariance == Spec => []Inv
PROOF
<1> QED BY InitInv, NextInv, PTL DEF Spec

\* Every variable stays in its domain; in particular no more requests for a trip
\* arrive than were made.
THEOREM TypeCorrect == Spec => []TypeOK
PROOF
<1>1. Inv => TypeOK
  BY DEF Inv
<1> QED BY <1>1, Invariance, PTL

\* A driver answers a trip at most once per request that has come to the page.
THEOREM AnswersAreCounted == Spec => []OneAnswerPerRequest
PROOF
<1>1. Inv => OneAnswerPerRequest
  BY DEF Inv
<1> QED BY <1>1, Invariance, PTL

\* A request that does not overtake the registration keeps its buttons until it is
\* answered.
THEOREM RequestsKeepTheirButtons == Spec => []RequestIsAnswerable
PROOF
<1>1. Inv => RequestIsAnswerable
  BY DEF Inv, AnswerableOnce, RequestIsAnswerable, Screen, TypeOK
<1> QED BY <1>1, Invariance, PTL

\* The gateway has been sent the newest location once the effects have run.
THEOREM NewestLocationIsSent == Spec => []LatestLocationIsSent
PROOF
<1>1. Inv => LatestLocationIsSent
  BY DEF Inv, SentIsKnown, LatestLocationIsSent, Settled
<1> QED BY <1>1, Invariance, PTL

-----------------------------------------------------------------------------
(* What becomes of an answer *)

\* The websocket is opened once, and the page hears of the driver on it only.
OneSocket ==
  /\ view = "none" => socket = "none" /\ handler = "none" /\ requestedTrip = None
  /\ view = "ui" => socket # "none"
  /\ driver => socket \in {"open", "closed"}

\* Unless something fails, the page ends first, then the websocket, then the handler.
EndsInOrder == faults = 0 =>
  /\ socket = "closed" => view = "gone"
  /\ handler = "ended" => socket = "closed"

\* No answer reaches the handler before it has told the page of its registration.
NothingToAnswer ==
  handler \notin {"serving", "ended"} => \A i \in DOMAIN up : up[i] \notin Answers

Orderly == OneSocket /\ EndsInOrder /\ NothingToAnswer

\* The driver's answer to trip t.
Answer(type, t) == [type |-> type, trip |-> t]

LEMMA AnswerIsOne ==
  /\ \A type \in AnswerTypes, t \in Trips : Answer(type, t) \in Answers
  /\ Answers \subseteq UpMessages
  /\ \A a \in Answers : a.type \in AnswerTypes
  /\ \A l : [type |-> DriverLocation, location |-> l] \notin Answers
PROOF
<1>1. \A l : [type |-> DriverLocation, location |-> l] \notin Answers
  <2>1. DriverLocation \notin AnswerTypes
    BY DEF AnswerTypes, DriverLocation, DriverTripAccept, DriverTripDecline
  <2> QED BY <2>1 DEF Answers
<1> QED BY <1>1 DEF Answer, Answers, UpMessages

\* The page knows the driver only of a handler that has greeted it.
LEMMA DriverIsGreeted ==
  ASSUME Inv, driver
  PROVE  handler \in {"serving", "ended"}
PROOF
<1>1. Cardinality(At(down, Greeting)) \in Nat
  BY AtFinite DEF Inv, TypeOK
<1> QED BY <1>1 DEF Inv, GreetedOnce

\* While nothing fails, a driver who answers has an open websocket.
LEMMA AnswersAreSent ==
  ASSUME Inv, Orderly, faults = 0, NEW type, SendAnswer(type)
  PROVE  /\ requestedTrip \in Trips
         /\ up' = Append(up, Answer(type, requestedTrip))
         /\ answers' = [answers EXCEPT ![requestedTrip] = @ + 1]
         /\ handler \in {"serving", "ended"}
PROOF
<1>1. Screen = "request" /\ driver
  BY DEF SendAnswer
<1>2. view = "ui" /\ requestedTrip # None
  BY <1>1 DEF Screen, Inv, TypeOK, PageTypeOK
<1>3. requestedTrip \in Trips
  BY <1>2 DEF Inv, TypeOK, OfferTypeOK
<1>4. socket = "open"
  BY <1>1, <1>2 DEF Orderly, OneSocket, EndsInOrder
<1> QED BY <1>1, <1>3, <1>4, DriverIsGreeted DEF SendAnswer, Answer

\* What is on its way to the gateway grows at its end and is read from its head.
LEMMA UpMoves ==
  ASSUME Inv, [Next]_vars
  PROVE  \/ up' = up \/ up' = <<>>
         \/ /\ up # <<>> /\ up' = Tail(up)
            /\ handler \in {"awaiting location", "serving"}
         \/ \E l \in Locations : up' = Append(up, [type |-> DriverLocation, location |-> l])
         \/ /\ handler \in {"serving", "ended"} /\ handler' = handler
            /\ \E a \in Answers : up' = Append(up, a)
PROOF
<1> USE DEF page, position, gateway, broker, history
<1>1. CASE SocketOpens \/ Effects
  <2>1. location \in Locations /\ ref.location \in Locations
    BY DEF Inv, TypeOK, PageTypeOK
  <2> QED BY <1>1, <2>1 DEF SocketOpens, Effects
<1>2. CASE AcceptTrip \/ DeclineTrip
  <2>1. PICK type \in AnswerTypes : SendAnswer(type) /\ handler' = handler
    BY <1>2 DEF AcceptTrip, DeclineTrip, AnswerTypes
  <2>2. Screen = "request" /\ driver
    BY <2>1 DEF SendAnswer
  <2>3. requestedTrip \in Trips
    BY <2>2 DEF Screen, Inv, TypeOK, OfferTypeOK, PageTypeOK
  <2>4. Answer(type, requestedTrip) \in Answers
    BY <2>1, <2>3, AnswerIsOne
  <2>5. up' = up \/ up' = Append(up, Answer(type, requestedTrip))
    BY <2>1 DEF SendAnswer, Answer
  <2> QED BY <2>1, <2>2, <2>4, <2>5, DriverIsGreeted
<1>3. CASE Choose \/ Back \/ Move \/ Receive \/ Accept \/ \E p \in CarPackages : Mount(p)
  BY <1>3 DEF Choose, Back, Move, Receive, Accept, Mount
<1>4. CASE SocketFails("ui") \/ SocketFails("error")
  BY <1>4 DEF SocketFails
<1>5. CASE Handler
  BY <1>5 DEF Handler, Register, RegisterFails, Greet, Serve, PublishFails, HandlerEnds,
              UnregisterFails, Ending
<1>6. CASE \E t \in Trips : RequestTrip(t) \/ Deliver(t)
  BY <1>6 DEF RequestTrip, Deliver
<1>7. CASE UNCHANGED vars
  BY <1>7 DEF vars
<1> QED BY <1>1, <1>2, <1>3, <1>4, <1>5, <1>6, <1>7 DEF Next

\* Only the handler's greeting lets it serve, and only its end what it has served.
LEMMA HandlerMoves ==
  ASSUME Inv, [Next]_vars
  PROVE  \/ handler' = handler
         \/ handler = "none" /\ handler' = "awaiting location" /\ up' = up
         \/ /\ handler = "awaiting location" /\ handler' = "registered"
            /\ up # <<>> /\ up' = Tail(up)
         \/ handler' \in {"serving", "ended"}
PROOF
<1> USE DEF page, position, gateway, broker, history
<1>1. CASE SocketOpens \/ Effects \/ AcceptTrip \/ DeclineTrip
  BY <1>1 DEF SocketOpens, Effects, AcceptTrip, DeclineTrip
<1>2. CASE Choose \/ Back \/ Move \/ Receive \/ Accept \/ \E p \in CarPackages : Mount(p)
  BY <1>2 DEF Choose, Back, Move, Receive, Accept, Mount
<1>3. CASE SocketFails("ui") \/ SocketFails("error")
  BY <1>3 DEF SocketFails
<1>4. CASE Handler
  BY <1>4 DEF Handler, Register, RegisterFails, Greet, Serve, PublishFails, HandlerEnds,
              UnregisterFails, Ending
<1>5. CASE \E t \in Trips : RequestTrip(t) \/ Deliver(t)
  BY <1>5 DEF RequestTrip, Deliver
<1>6. CASE UNCHANGED vars
  BY <1>6 DEF vars
<1> QED BY <1>1, <1>2, <1>3, <1>4, <1>5, <1>6 DEF Next

\* The websocket and the view change in a few steps only.
LEMMA SocketMoves ==
  ASSUME Inv, OneSocket, [Next]_vars
  PROVE  OneSocket'
PROOF
<1> USE DEF OneSocket, page, position, gateway, broker, history
<1>1. CASE SocketOpens \/ Effects \/ AcceptTrip \/ DeclineTrip
  <2>1. CASE SocketOpens \/ Effects
    BY <2>1 DEF SocketOpens, Effects
  <2>2. CASE AcceptTrip \/ DeclineTrip
    <3>1. view = "ui" /\ UNCHANGED <<view, socket, driver>>
      BY <2>2 DEF AcceptTrip, DeclineTrip, SendAnswer, Screen, Inv, TypeOK, PageTypeOK
    <3> QED BY <3>1
  <2> QED BY <1>1, <2>1, <2>2
<1>2. CASE Choose \/ Back \/ Move \/ Accept
  <2>1. CASE Choose
    BY <2>1 DEF Choose
  <2>2. CASE Back
    BY <2>2 DEF Back
  <2>3. CASE Move
    BY <2>3 DEF Move
  <2>4. CASE Accept
    <3>1. socket # "none" /\ view # "none"
      BY <2>4 DEF Accept
    <3>2. UNCHANGED <<socket, view, driver>>
      BY <2>4 DEF Accept
    <3> QED BY <3>1, <3>2
  <2> QED BY <1>2, <2>1, <2>2, <2>3, <2>4
<1>3. CASE Receive
  BY <1>3 DEF Receive, HandleMessage
<1>4. CASE \E p \in CarPackages : Mount(p)
  BY <1>4 DEF Mount
<1>5. CASE SocketFails("ui") \/ SocketFails("error")
  BY <1>5 DEF SocketFails
<1>6. CASE Handler
  <2>1. handler # "none" /\ view # "none"
    BY <1>6 DEF Handler, Register, RegisterFails, Greet, Serve, PublishFails, HandlerEnds,
                UnregisterFails, Ending, Connected
  <2>2. UNCHANGED <<view, driver>> /\ socket' \in {socket, "closed"}
    BY <1>6 DEF Handler, Register, RegisterFails, Greet, Serve, PublishFails, HandlerEnds,
                UnregisterFails
  <2> QED BY <2>1, <2>2
<1>7. CASE \E t \in Trips : RequestTrip(t) \/ Deliver(t)
  BY <1>7 DEF RequestTrip, Deliver
<1>8. CASE UNCHANGED vars
  BY <1>8 DEF vars
<1> QED BY <1>1, <1>2, <1>3, <1>4, <1>5, <1>6, <1>7, <1>8 DEF Next

\* Faults are not taken back.
LEMMA FaultlessBefore ==
  ASSUME Inv, [Next]_vars, faults' = 0
  PROVE  faults = 0 /\ ~Fault
PROOF
<1> USE DEF page, position, gateway, broker, history
<1>1. faults \in Nat
  <2>1. faults \in 0 .. MaxFaults
    BY DEF Inv, TypeOK, GatewayTypeOK
  <2> QED BY <2>1
<1>2. ~Fault
  BY <1>1 DEF Fault
<1>3. faults' = faults \/ Fault
  <2>1. CASE SocketOpens \/ Effects \/ AcceptTrip \/ DeclineTrip
    BY <2>1 DEF SocketOpens, Effects, AcceptTrip, DeclineTrip
  <2>2. CASE Choose \/ Back \/ Move \/ Receive \/ Accept \/ \E p \in CarPackages : Mount(p)
    BY <2>2 DEF Choose, Back, Move, Receive, Accept, Mount
  <2>3. CASE SocketFails("ui") \/ SocketFails("error")
    BY <2>3 DEF SocketFails
  <2>4. CASE Handler
    BY <2>4 DEF Handler, Register, RegisterFails, Greet, Serve, PublishFails, HandlerEnds,
                UnregisterFails
  <2>5. CASE \E t \in Trips : RequestTrip(t) \/ Deliver(t)
    BY <2>5 DEF RequestTrip, Deliver
  <2>6. CASE UNCHANGED vars
    BY <2>6 DEF vars
  <2> QED BY <2>1, <2>2, <2>3, <2>4, <2>5, <2>6 DEF Next
<1> QED BY <1>2, <1>3

LEMMA OrderStays ==
  ASSUME Inv, Orderly, [Next]_vars
  PROVE  EndsInOrder'
PROOF
<1> USE DEF page, position, gateway, broker, history, EndsInOrder
<1> SUFFICES ASSUME faults' = 0
             PROVE  /\ socket' = "closed" => view' = "gone"
                    /\ handler' = "ended" => socket' = "closed"
  OBVIOUS
<1>1. faults = 0 /\ ~Fault
  BY FaultlessBefore
<1>2. /\ socket = "closed" => view = "gone"
      /\ handler = "ended" => socket = "closed"
      /\ view = "none" => socket = "none"
  BY <1>1 DEF Orderly, OneSocket
<1>3. CASE SocketOpens \/ Effects \/ AcceptTrip \/ DeclineTrip
  BY <1>2, <1>3 DEF SocketOpens, Effects, AcceptTrip, DeclineTrip
<1>4. CASE Choose \/ Back \/ Move \/ Receive \/ Accept \/ \E p \in CarPackages : Mount(p)
  BY <1>2, <1>4 DEF Choose, Back, Move, Receive, Accept, Mount
<1>5. CASE SocketFails("ui") \/ SocketFails("error")
  BY <1>1, <1>5 DEF SocketFails
<1>6. CASE Handler
  BY <1>1, <1>2, <1>6 DEF Handler, Register, RegisterFails, Greet, Serve, PublishFails,
                          HandlerEnds, UnregisterFails, Ending
<1>7. CASE \E t \in Trips : RequestTrip(t) \/ Deliver(t)
  BY <1>2, <1>7 DEF RequestTrip, Deliver
<1>8. CASE UNCHANGED vars
  BY <1>2, <1>8 DEF vars
<1> QED BY <1>3, <1>4, <1>5, <1>6, <1>7, <1>8 DEF Next

LEMMA NothingToAnswerStays ==
  ASSUME Inv, NothingToAnswer, [Next]_vars
  PROVE  NothingToAnswer'
PROOF
<1> SUFFICES ASSUME handler' \notin {"serving", "ended"}
             PROVE  \A i \in DOMAIN up' : up'[i] \notin Answers
  BY DEF NothingToAnswer
<1>1. up \in Seq(UpMessages)
  BY DEF Inv, TypeOK
<1>2. handler \notin {"serving", "ended"}
  BY HandlerMoves DEF NothingToAnswer
<1>3. \A i \in DOMAIN up : up[i] \notin Answers
  BY <1>2 DEF NothingToAnswer
<1>4. CASE up' = up \/ up' = <<>>
  BY <1>3, <1>4
<1>5. CASE up # <<>> /\ up' = Tail(up)
  BY <1>1, <1>3, <1>5
<1>6. ASSUME NEW l \in Locations,
             up' = Append(up, [type |-> DriverLocation, location |-> l])
      PROVE  \A i \in DOMAIN up' : up'[i] \notin Answers
  <2>1. [type |-> DriverLocation, location |-> l] \notin Answers
    BY AnswerIsOne
  <2> QED BY <1>1, <1>3, <1>6, <2>1
<1> QED BY <1>2, <1>4, <1>5, <1>6, UpMoves

LEMMA HeadIsFirst ==
  ASSUME NEW S, NEW q \in Seq(S), q # <<>>
  PROVE  Head(q) = q[1] /\ 1 \in DOMAIN q
PROOF
<1> QED OBVIOUS

\* What is read while nothing fails is published, if it is an answer.
LEMMA UpIsRead ==
  ASSUME Inv, Orderly, [Next]_vars, faults' = 0
  PROVE  /\ published \subseteq published'
         /\ \/ up' = up
            \/ \E m \in UpMessages : up' = Append(up, m)
            \/ /\ up # <<>> /\ up' = Tail(up)
               /\ Head(up) \in Answers => Head(up) \in published'
            \/ up' = <<>> /\ \A i \in DOMAIN up : up[i] \notin Answers
PROOF
<1> USE DEF page, position, gateway, broker, history
<1>1. faults = 0 /\ ~Fault
  BY FaultlessBefore
<1>2. up \in Seq(UpMessages)
  BY DEF Inv, TypeOK
<1>3. CASE Serve
  <2>1. up # <<>> /\ up' = Tail(up)
        /\ published' = IF Head(up).type \in AnswerTypes
                        THEN published \cup {Head(up)} ELSE published
    BY <1>3 DEF Serve
  <2>2. Head(up) \in Answers => Head(up).type \in AnswerTypes
    BY AnswerIsOne
  <2> QED BY <2>1, <2>2
<1>4. CASE Register
  <2>1. up # <<>> /\ up' = Tail(up) /\ published' = published
        /\ handler = "awaiting location"
    BY <1>4 DEF Register
  <2>2. Head(up) = up[1] /\ 1 \in DOMAIN up
    BY <1>2, <2>1, HeadIsFirst
  <2>3. Head(up) \notin Answers
    BY <2>1, <2>2 DEF Orderly, NothingToAnswer
  <2> QED BY <2>1, <2>3
<1>5. CASE HandlerEnds \/ UnregisterFails
  <2>1. up' = <<>> /\ published' = published /\ (handler = "registered" \/ up = <<>>)
    BY <1>1, <1>5 DEF HandlerEnds, UnregisterFails, Ending
  <2>2. \A i \in DOMAIN up : up[i] \notin Answers
    BY <2>1 DEF Orderly, NothingToAnswer
  <2> QED BY <2>1, <2>2
<1>6. CASE RegisterFails \/ PublishFails \/ SocketFails("ui") \/ SocketFails("error")
  BY <1>1, <1>6 DEF RegisterFails, PublishFails, SocketFails
<1>7. CASE SocketOpens \/ Effects \/ AcceptTrip \/ DeclineTrip
  <2>1. published' = published /\ UNCHANGED handler
    BY <1>7 DEF SocketOpens, Effects, AcceptTrip, DeclineTrip
  <2>2. /\ \A a \in Answers : a \in UpMessages
        /\ \A l \in Locations : [type |-> DriverLocation, location |-> l] \in UpMessages
    BY AnswerIsOne DEF UpMessages
  <2>3. CASE SocketOpens \/ Effects
    <3>1. location \in Locations /\ ref.location \in Locations
      BY DEF Inv, TypeOK, PageTypeOK
    <3> QED BY <2>1, <2>2, <2>3, <3>1 DEF SocketOpens, Effects
  <2>4. CASE AcceptTrip \/ DeclineTrip
    <3>1. PICK type \in AnswerTypes : SendAnswer(type)
      BY <2>4 DEF AcceptTrip, DeclineTrip, AnswerTypes
    <3>2. requestedTrip \in Trips /\ up' = Append(up, Answer(type, requestedTrip))
      BY <1>1, <3>1, AnswersAreSent
    <3>3. Answer(type, requestedTrip) \in UpMessages
      BY <2>2, <3>2, AnswerIsOne
    <3> QED BY <2>1, <3>2, <3>3
  <2> QED BY <1>7, <2>3, <2>4
<1>8. CASE \/ Choose \/ Back \/ Move \/ Receive \/ Accept \/ Greet
           \/ \E p \in CarPackages : Mount(p)
  BY <1>8 DEF Choose, Back, Move, Receive, Accept, Greet, Mount
<1>9. CASE \E t \in Trips : RequestTrip(t) \/ Deliver(t)
  BY <1>9 DEF RequestTrip, Deliver
<1>10. CASE UNCHANGED vars
  BY <1>10 DEF vars
<1> QED BY <1>3, <1>4, <1>5, <1>6, <1>7, <1>8, <1>9, <1>10 DEF Next, Handler

\* An answer that is under way stays so until it is published.
LEMMA UnderWayStays ==
  ASSUME Inv, Orderly, [Next]_vars, faults' = 0, NEW a \in Answers, UnderWay(a)
  PROVE  UnderWay(a)'
PROOF
<1>1. up \in Seq(UpMessages)
  BY DEF Inv, TypeOK
<1>2. CASE a \in published
  BY <1>2, UpIsRead DEF UnderWay
<1>3. ASSUME NEW i \in DOMAIN up, up[i] = a PROVE UnderWay(a)'
  <2>1. CASE up' = up
    BY <1>3, <2>1 DEF UnderWay
  <2>2. ASSUME NEW m \in UpMessages, up' = Append(up, m) PROVE UnderWay(a)'
    <3>1. i \in DOMAIN up' /\ up'[i] = a
      BY <1>1, <1>3, <2>2
    <3> QED BY <3>1 DEF UnderWay
  <2>3. CASE up # <<>> /\ up' = Tail(up) /\ (Head(up) \in Answers => Head(up) \in published')
    <3>1. CASE i = 1
      <4>1. Head(up) = a
        BY <1>1, <1>3, <3>1
      <4> QED BY <2>3, <4>1 DEF UnderWay
    <3>2. CASE i # 1
      <4>1. i \in 2 .. Len(up) /\ Len(up) \in Nat
        BY <1>1, <1>3, <3>2
      <4>2. i - 1 \in DOMAIN Tail(up) /\ Tail(up)[i - 1] = up[i]
        BY <1>1, <4>1
      <4>3. i - 1 \in DOMAIN up' /\ up'[i - 1] = a
        BY <1>3, <2>3, <4>2
      <4> QED BY <4>3 DEF UnderWay
    <3> QED BY <3>1, <3>2
  <2>4. ~(up' = <<>> /\ \A j \in DOMAIN up : up[j] \notin Answers)
    BY <1>3
  <2> QED BY <2>1, <2>2, <2>3, <2>4, UpIsRead
<1> QED BY <1>2, <1>3 DEF UnderWay

\* What the driver has answered changes with an answer only, and only accepting a
\* trip shows it as active.
LEMMA AnswersMove ==
  ASSUME Inv, Orderly, [Next]_vars, ~AcceptTrip, ~DeclineTrip
  PROVE  /\ answers' = answers
         /\ Screen' = "active" => Screen = "active" /\ requestedTrip' = requestedTrip
PROOF
<1> USE DEF page, position, gateway, broker, history
<1>1. CASE Receive
  <2>1. /\ down \in Seq(DownMessages) /\ down # <<>>
        /\ tripStatus' = Head(down).type /\ answers' = answers
    BY <1>1 DEF Receive, HandleMessage, Inv, TypeOK
  <2>2. Head(down) \in DownMessages
    BY <2>1
  <2>3. tripStatus' # DriverTripAccept
    BY <2>1, <2>2 DEF DownMessages, DriverTripRequest, DriverRegister, DriverTripAccept
  <2>4. Screen' # "active"
    <3>1. view' \in {"none", "ui", "error", "gone"}
      BY <1>1 DEF Receive, Inv, TypeOK, PageTypeOK
    <3> QED BY <2>3, <3>1 DEF Screen
  <2> QED BY <2>1, <2>4
<1>2. CASE Back
  <2>1. Screen' = "gone" /\ answers' = answers
    BY <1>2 DEF Back, Screen
  <2> QED BY <2>1
<1>3. CASE \E p \in CarPackages : Mount(p)
  <2>1. Screen' = "ready" /\ answers' = answers
    BY <1>3 DEF Mount, Screen, Orderly, OneSocket
  <2> QED BY <2>1
<1>4. CASE SocketFails("ui") \/ SocketFails("error")
  <2>1. UNCHANGED <<requestedTrip, tripStatus, answers>> /\ view = "ui"
        /\ view' \in {"ui", "error"}
    BY <1>4 DEF SocketFails
  <2>2. Screen' \in {Screen, "error"}
    BY <2>1 DEF Screen
  <2> QED BY <2>1, <2>2
<1>5. \/ Choose \/ Move \/ SocketOpens \/ Effects \/ Accept \/ Handler
      \/ (\E t \in Trips : RequestTrip(t) \/ Deliver(t)) \/ UNCHANGED vars
      => UNCHANGED <<view, requestedTrip, tripStatus, answers>>
  <2>1. Choose \/ Move \/ SocketOpens \/ Effects \/ Accept
        => UNCHANGED <<view, requestedTrip, tripStatus, answers>>
    BY DEF Choose, Move, SocketOpens, Effects, Accept
  <2>2. Handler => UNCHANGED <<view, requestedTrip, tripStatus, answers>>
    BY DEF Handler, Register, RegisterFails, Greet, Serve, PublishFails, HandlerEnds,
           UnregisterFails
  <2>3. (\E t \in Trips : RequestTrip(t) \/ Deliver(t))
        => UNCHANGED <<view, requestedTrip, tripStatus, answers>>
    BY DEF RequestTrip, Deliver
  <2>4. UNCHANGED vars => UNCHANGED <<view, requestedTrip, tripStatus, answers>>
    BY DEF vars
  <2> QED BY <2>1, <2>2, <2>3, <2>4
<1>6. UNCHANGED <<view, requestedTrip, tripStatus>> => Screen' = Screen
  BY DEF Screen
<1> QED BY <1>1, <1>2, <1>3, <1>4, <1>5, <1>6 DEF Next

LEMMA AnswersStayUnderWay ==
  ASSUME Inv, Orderly, AnswersAreUnderWay, [Next]_vars
  PROVE  AnswersAreUnderWay'
PROOF
<1> SUFFICES ASSUME faults' = 0, NEW t \in Trips
             PROVE  /\ answers'[t] > 0 =>
                         \E type \in AnswerTypes : UnderWay(Answer(type, t))'
                    /\ Screen' = "active" /\ requestedTrip' = t =>
                         UnderWay(Answer(DriverTripAccept, t))'
  BY DEF AnswersAreUnderWay, Answer
<1>1. faults = 0
  BY FaultlessBefore
<1>2. /\ answers[t] > 0 => \E type \in AnswerTypes : UnderWay(Answer(type, t))
      /\ Screen = "active" /\ requestedTrip = t => UnderWay(Answer(DriverTripAccept, t))
  BY <1>1 DEF AnswersAreUnderWay, Answer
<1>3. \A type \in AnswerTypes : UnderWay(Answer(type, t)) => UnderWay(Answer(type, t))'
  BY UnderWayStays, AnswerIsOne DEF Answer
<1>4. DriverTripAccept \in AnswerTypes
  BY DEF AnswerTypes
<1>5. CASE ~AcceptTrip /\ ~DeclineTrip
  BY <1>2, <1>3, <1>4, <1>5, AnswersMove
<1>6. CASE AcceptTrip \/ DeclineTrip
  <2>1. PICK type \in AnswerTypes :
          /\ SendAnswer(type)
          /\ \/ type = DriverTripAccept /\ requestedTrip' = requestedTrip
             \/ requestedTrip' = None
    BY <1>6 DEF AcceptTrip, DeclineTrip, AnswerTypes
  <2>2. /\ requestedTrip \in Trips
        /\ up' = Append(up, Answer(type, requestedTrip))
        /\ answers' = [answers EXCEPT ![requestedTrip] = @ + 1]
    BY <1>1, <2>1, AnswersAreSent
  <2>3. up \in Seq(UpMessages) /\ answers \in [Trips -> Nat]
    BY DEF Inv, TypeOK, RequestTypeOK
  <2>4. requestedTrip = t => UnderWay(Answer(type, t))'
    <3>1. Len(up) + 1 \in DOMAIN up' /\ up'[Len(up) + 1] = Answer(type, requestedTrip)
      BY <2>2, <2>3
    <3> QED BY <3>1 DEF UnderWay, Answer
  <2>5. CASE requestedTrip = t
    BY <2>1, <2>4, <2>5, DriverPageAssumption
  <2>6. CASE requestedTrip # t
    <3>1. answers'[t] = answers[t] /\ requestedTrip' # t
      BY <2>1, <2>2, <2>3, <2>6, DriverPageAssumption
    <3> QED BY <1>2, <1>3, <3>1
  <2> QED BY <2>5, <2>6
<1> QED BY <1>5, <1>6

\* While nothing fails, no answer of the driver is lost, at whatever point the page
\* was left: it is on its way, or the gateway has published it.
THEOREM AnswersArePursued == Spec => []AnswersAreUnderWay
PROOF
<1>1. Init => Orderly /\ AnswersAreUnderWay
  <2> SUFFICES ASSUME Init PROVE Orderly /\ AnswersAreUnderWay
    OBVIOUS
  <2>1. Orderly
    BY DEF Init, Orderly, OneSocket, EndsInOrder, NothingToAnswer
  <2>2. AnswersAreUnderWay
    BY DEF Init, AnswersAreUnderWay, Screen
  <2> QED BY <2>1, <2>2
<1>2. Inv /\ Orderly /\ AnswersAreUnderWay /\ [Next]_vars => (Orderly /\ AnswersAreUnderWay)'
  BY SocketMoves, OrderStays, NothingToAnswerStays, AnswersStayUnderWay DEF Orderly
<1> QED BY <1>1, <1>2, Invariance, PTL DEF Spec

=============================================================================

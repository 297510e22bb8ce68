----------------------------- MODULE TripLedger -----------------------------
(***************************************************************************)
(* What is on record of a trip, wherever it is kept: the document in       *)
(* MongoDB, the drivers who have accepted, the Stripe sessions, the        *)
(* payment.  Each record rests on one that was made before: a driver is    *)
(* stored who has accepted, a session is opened for such a driver once the *)
(* trip is taken, a payment is of an open session, and only a payment that *)
(* Stripe has reported makes the trip payed.                               *)
(*                                                                         *)
(* The ledger does not say how often: that a trip may be accepted, stored  *)
(* and charged for again, and even be put back from payed to accepted, is  *)
(* what the code does after a crash or a failure.  TripFlow implements     *)
(* this module whatever fails, and TripLifecycle as long as nothing does.  *)
(***************************************************************************)
EXTENDS Naturals

CONSTANTS
  Trips,
  Drivers,
  None,           \* no driver
  TripPackage,    \* the package of a trip
  DriverPackage   \* the package of a driver

VARIABLES
  trips,       \* trips[t]: the status and the driver of trip t
  accepters,   \* accepters[t]: the drivers who have accepted t
  sessions,    \* sessions[t][d]: the Stripe sessions opened for t that name d
  payment      \* payment[t]: none, paid, or reported by Stripe

ledger == <<trips, accepters, sessions, payment>>

Init ==
  /\ trips = [t \in Trips |-> [status |-> "none", driver |-> None]]
  /\ accepters = [t \in Trips |-> {}]
  /\ sessions = [t \in Trips |-> [d \in Drivers |-> 0]]
  /\ payment = [t \in Trips |-> "none"]

Request(t) ==
  /\ trips[t].status = "none"
  /\ trips' = [trips EXCEPT ![t].status = "Pending"]
  /\ UNCHANGED <<accepters, sessions, payment>>

\* A driver of the package accepts a trip that was requested.
Accept(t, d) ==
  /\ trips[t].status # "none"
  /\ DriverPackage[d] = TripPackage[t]
  /\ accepters' = [accepters EXCEPT ![t] = @ \cup {d}]
  /\ UNCHANGED <<trips, sessions, payment>>

\* One who has accepted is stored, over whoever was.
Assign(t, d) ==
  /\ d \in accepters[t]
  /\ trips' = [trips EXCEPT ![t] = [status |-> "accepted", driver |-> d]]
  /\ UNCHANGED <<accepters, sessions, payment>>

OpenSession(t, d) ==
  /\ d \in accepters[t]
  /\ trips[t].status \in {"accepted", "payed"}
  /\ sessions' = [sessions EXCEPT ![t][d] = @ + 1]
  /\ UNCHANGED <<trips, accepters, payment>>

\* The rider pays one of the sessions, once.
Pay(t) ==
  /\ payment[t] = "none"
  /\ \E d \in Drivers : sessions[t][d] > 0
  /\ payment' = [payment EXCEPT ![t] = "paid"]
  /\ UNCHANGED <<trips, accepters, sessions>>

Report(t) ==
  /\ payment[t] = "paid"
  /\ payment' = [payment EXCEPT ![t] = "reported"]
  /\ UNCHANGED <<trips, accepters, sessions>>

\* The driver who is stored stays.
Settle(t) ==
  /\ payment[t] = "reported"
  /\ trips' = [trips EXCEPT ![t].status = "payed"]
  /\ UNCHANGED <<accepters, sessions, payment>>

Next == \E t \in Trips :
  \/ Request(t)
  \/ \E d \in Drivers : Accept(t, d) \/ Assign(t, d) \/ OpenSession(t, d)
  \/ Pay(t)
  \/ Report(t)
  \/ Settle(t)

Spec == Init /\ [][Next]_ledger

=============================================================================

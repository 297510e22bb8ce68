---------------------------- MODULE TripLifecycle ----------------------------
(***************************************************************************)
(* What a trip is to its rider: it is requested, one driver of the package *)
(* asked for takes it for good, it is paid for.  No queue, no service, no  *)
(* retry.                                                                  *)
(*                                                                         *)
(* TripFlow implements this module as long as nothing fails; the runs show *)
(* that a single failure is enough to break it.                            *)
(***************************************************************************)

CONSTANTS
  Trips,
  Drivers,
  None,           \* no driver
  TripPackage,    \* the package of a trip
  DriverPackage   \* the package of a driver

VARIABLE trips \* trips[t]: the status and the driver of trip t

Init == trips = [t \in Trips |-> [status |-> "none", driver |-> None]]

Request(t) ==
  /\ trips[t].status = "none"
  /\ trips' = [trips EXCEPT ![t].status = "Pending"]

Assign(t, d) ==
  /\ trips[t].status = "Pending"
  /\ DriverPackage[d] = TripPackage[t]
  /\ trips' = [trips EXCEPT ![t] = [status |-> "accepted", driver |-> d]]

Pay(t) ==
  /\ trips[t].status = "accepted"
  /\ trips' = [trips EXCEPT ![t].status = "payed"]

Next == \E t \in Trips :
  \/ Request(t)
  \/ \E d \in Drivers : Assign(t, d)
  \/ Pay(t)

Spec == Init /\ [][Next]_trips

=============================================================================

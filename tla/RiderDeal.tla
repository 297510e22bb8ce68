------------------------------ MODULE RiderDeal ------------------------------
(***************************************************************************)
(* What the page of a rider promises about bookings: one at a time.  The   *)
(* rider books only while the deal is free, waits, and is told what has    *)
(* become of the booking.  Only cancelling and a booking that has failed   *)
(* make the deal free again; the trips the rider may have are one more     *)
(* than the bookings the rider has cancelled.                              *)
(*                                                                         *)
(* A rider who has cancelled may be told of the cancelled booking, and a   *)
(* call that belongs to it may still fail: the promise does not tell one   *)
(* booking from another, because the page does not.                        *)
(***************************************************************************)
EXTENDS Naturals

VARIABLES
  deal,     \* "free", "waiting", "told" or "gone"
  trips,    \* the bookings that have not failed
  chances   \* the bookings the rider has cancelled

vars == <<deal, trips, chances>>

Init ==
  /\ deal = "free"
  /\ trips = 0
  /\ chances = 0

\* The rider books a trip, the first or one for a cancelled one.
Book ==
  /\ deal = "free"
  /\ trips <= chances
  /\ deal' = "waiting"
  /\ trips' = trips + 1
  /\ UNCHANGED chances

\* The rider is told of a driver, that there is none, or of a payment session.
Tell ==
  /\ deal \in {"free", "waiting"}
  /\ deal' = "told"
  /\ UNCHANGED <<trips, chances>>

\* A booking fails: nobody waits any more.
Fail ==
  /\ trips > 0
  /\ deal' = IF deal = "waiting" THEN "free" ELSE deal
  /\ trips' = trips - 1
  /\ UNCHANGED chances

Cancel ==
  /\ deal # "gone"
  /\ deal' = "free"
  /\ chances' = chances + 1
  /\ UNCHANGED trips

\* The rider leaves the page or the page stops working; there is no way back.
Leave ==
  /\ deal' = "gone"
  /\ UNCHANGED <<trips, chances>>

Next == Book \/ Tell \/ Fail \/ Cancel \/ Leave

Spec == Init /\ [][Next]_vars

=============================================================================

------------------------------- MODULE Booking -------------------------------
(***************************************************************************)
(* The two HTTP calls of a rider's page, /trip/preview and /trip/start, as *)
(* the gateway passes them on to trip-service: PreviewTrip asks OSRM for a *)
(* route and stores one fare per package, one insert after the other;      *)
(* CreateTrip looks the chosen fare up, inserts a trip and announces it.   *)
(*                                                                         *)
(* A call is known by its number.  Its state says how far trip-service has *)
(* come with it and, once it is answered, whether the answer has reached   *)
(* the page.  Nothing orders the calls of a page: their steps interleave   *)
(* and their answers come back in any order.                               *)
(*                                                                         *)
(* trip-service ends when OSRM has no route for a preview                  *)
(* (estimateFareRoute indexes the empty list of routes, and the gRPC       *)
(* server does not recover a panic), and every call it was working on      *)
(* fails with it.                                                          *)
(***************************************************************************)
EXTENDS Naturals, FiniteSets

CONSTANTS
  MaxPreviews,  \* bound: calls of /trip/preview
  MaxStarts,    \* bound: calls of /trip/start
  NumPackages,  \* length of getBaseFares: a fare is stored for each
  MaxFaults     \* bound: failing calls and crashes

ASSUME BookingAssumption ==
  /\ MaxPreviews \in Nat /\ MaxStarts \in Nat /\ MaxFaults \in Nat
  /\ NumPackages \in Nat \ {0}

Previews == 1 .. MaxPreviews
Starts == 1 .. MaxStarts
VARIABLES
  preview,    \* preview[p]: how far the preview call p has come
  saved,      \* MongoDB: saved[p], how many fares of p are stored
  start,      \* start[s]: how far the start call s has come
  fareOf,     \* fareOf[s]: the preview whose fare call s wants a trip for
  inserted,   \* MongoDB: the trips stored; a trip has the number of its call
  announced,  \* the trips whose trip.event.created was published
  faults      \* faults so far

bookingVars == <<preview, saved, start, fareOf, inserted, announced, faults>>

BookingInit ==
  /\ preview = [p \in Previews |-> "unused"]
  /\ saved = [p \in Previews |-> 0]
  /\ start = [s \in Starts |-> "unused"]
  /\ fareOf = [s \in Starts |-> 0]
  /\ inserted = {}
  /\ announced = {}
  /\ faults = 0

Fault ==
  /\ faults < MaxFaults
  /\ faults' = faults + 1

\* The calls trip-service is working on.
PreviewsAtWork == {p \in Previews : preview[p] \in {"sent", "saving"}}
StartsAtWork == {s \in Starts : start[s] \in {"sent", "inserted", "announced"}}

-----------------------------------------------------------------------------
(* PreviewTrip *)

\* GetRoute has returned a route; EstimatePackagesPriceWithRoute only computes.
GetRoute(p) ==
  /\ preview[p] = "sent"
  /\ preview' = [preview EXCEPT ![p] = "saving"]
  /\ UNCHANGED <<saved, start, fareOf, inserted, announced, faults>>

\* BUG variant: one iteration too many.
SaveRideFare_OneMore(p) ==
  /\ preview[p] = "saving"
  /\ saved[p] <= NumPackages
  /\ saved' = [saved EXCEPT ![p] = @ + 1]
  /\ UNCHANGED <<preview, start, fareOf, inserted, announced, faults>>

\* The loop of GenerateTripFares: one insert per package.
SaveRideFare(p) ==
  /\ preview[p] = "saving"
  /\ saved[p] < NumPackages
  /\ saved' = [saved EXCEPT ![p] = @ + 1]
  /\ UNCHANGED <<preview, start, fareOf, inserted, announced, faults>>

\* BUG variant: the answer is sent while fares are still being stored.
AnswerPreview_Early(p) ==
  /\ preview[p] = "saving"
  /\ preview' = [preview EXCEPT ![p] = "answered"]
  /\ UNCHANGED <<saved, start, fareOf, inserted, announced, faults>>

\* All fares are stored: the route and the fares go back to the page.
AnswerPreview(p) ==
  /\ preview[p] = "saving"
  /\ saved[p] = NumPackages
  /\ preview' = [preview EXCEPT ![p] = "answered"]
  /\ UNCHANGED <<saved, start, fareOf, inserted, announced, faults>>

\* OSRM or an insert fails, or the answer is lost on its way: the page gets an
\* error, and the fares that are stored stay.
PreviewFails(p) ==
  /\ preview[p] \in {"sent", "saving", "answered"}
  /\ Fault
  /\ preview' = [preview EXCEPT ![p] = "refused"]
  /\ UNCHANGED <<saved, start, fareOf, inserted, announced>>

-----------------------------------------------------------------------------
(* CreateTrip *)

\* GetAndValidateFare and the insert.  The page sends its own fares only, and
\* FaresShownAreStored says that those are found, whichever package is chosen.
InsertTrip(s) ==
  /\ start[s] = "sent"
  /\ saved[fareOf[s]] = NumPackages
  /\ start' = [start EXCEPT ![s] = "inserted"]
  /\ inserted' = inserted \cup {s}
  /\ UNCHANGED <<preview, saved, fareOf, announced, faults>>

\* BUG variant: a publication that fails is logged only.
PublishTripCreated_ErrorLogged(s) ==
  /\ start[s] = "inserted"
  /\ start' = [start EXCEPT ![s] = "announced"]
  /\ UNCHANGED <<preview, saved, fareOf, inserted, announced, faults>>

\* The event that starts the matching is published.
PublishTripCreated(s) ==
  /\ start[s] = "inserted"
  /\ start' = [start EXCEPT ![s] = "announced"]
  /\ announced' = announced \cup {s}
  /\ UNCHANGED <<preview, saved, fareOf, inserted, faults>>

\* The answer goes back to the page.
AnswerStart(s) ==
  /\ start[s] = "announced"
  /\ start' = [start EXCEPT ![s] = "answered"]
  /\ UNCHANGED <<preview, saved, fareOf, inserted, announced, faults>>

\* A database call or the publication fails, or the answer is lost: the page
\* gets an error, and what has been stored and announced stays.
StartFails(s) ==
  /\ start[s] \in {"sent", "inserted", "announced", "answered"}
  /\ Fault
  /\ start' = [start EXCEPT ![s] = "refused"]
  /\ UNCHANGED <<preview, saved, fareOf, inserted, announced>>

-----------------------------------------------------------------------------
(* The end of trip-service *)

\* Every call trip-service was working on gets an error from the gateway.
TripServiceEnds ==
  /\ preview' = [p \in Previews |->
                   IF p \in PreviewsAtWork THEN "refused" ELSE preview[p]]
  /\ start' = [s \in Starts |->
                 IF s \in StartsAtWork THEN "refused" ELSE start[s]]
  /\ UNCHANGED <<saved, fareOf, inserted, announced>>

Crash ==
  /\ PreviewsAtWork # {} \/ StartsAtWork # {}
  /\ Fault
  /\ TripServiceEnds

\* estimateFareRoute on an answer of OSRM that holds no route.
NoRoute(p) ==
  /\ preview[p] = "sent"
  /\ TripServiceEnds
  /\ UNCHANGED faults

-----------------------------------------------------------------------------

PreviewCall(p) ==
  \/ GetRoute(p) \/ SaveRideFare(p) \/ AnswerPreview(p) \/ PreviewFails(p) \/ NoRoute(p)

StartCall(s) ==
  \/ InsertTrip(s) \/ PublishTripCreated(s) \/ AnswerStart(s) \/ StartFails(s)

TripService ==
  \/ \E p \in Previews : PreviewCall(p)
  \/ \E s \in Starts : StartCall(s)
  \/ Crash

BookingTypeOK ==
  /\ preview \in [Previews -> {"unused", "sent", "saving", "answered", "refused",
                               "done"}]
  /\ saved \in [Previews -> 0 .. NumPackages]
  /\ start \in [Starts -> {"unused", "sent", "inserted", "announced", "answered",
                           "refused", "booked", "failed"}]
  /\ fareOf \in [Starts -> Previews \cup {0}]
  /\ inserted \in SUBSET Starts
  /\ announced \in SUBSET Starts
  /\ faults \in 0 .. MaxFaults

=============================================================================

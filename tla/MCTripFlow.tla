----------------------------- MODULE MCTripFlow -----------------------------
(***************************************************************************)
(* Instances of TripFlow for TLC.                                          *)
(***************************************************************************)
EXTENDS TripFlow, TLC

CONSTANTS t1, t2, d1, d2, d3, g1, g2, suv, van

\* Every trip asks for the package of every driver but d3.
OnePackageTrips == [t \in Trips |-> suv]
OnePackageDrivers == [d \in Drivers |-> IF d = d3 THEN van ELSE suv]

AllSteps == HandlerSteps \cup OtherSteps
AllServices == Services \cup {"api-gateway"}

\* The drivers and trips that no constant tells apart may be permuted.
Symmetry == Permutations({d1, d2} \cap Drivers) \cup Permutations(Goroutines)
            \cup Permutations(Trips)

=============================================================================

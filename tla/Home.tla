-------------------------------- MODULE Home --------------------------------
(***************************************************************************)
(* The one page of the web application: whoever opens it chooses to ride   *)
(* or to drive, a driver also chooses a package, and the map of the choice *)
(* is mounted.  The Back button takes the choice back, which unmounts the  *)
(* map; Stripe leads to a new document, whose address says how the payment *)
(* went.                                                                   *)
(*                                                                         *)
(* The modules of the two maps extend this one.  Their actions say what a  *)
(* mount, an unmount or a new document does to the map.                    *)
(***************************************************************************)
CONSTANTS
  None,        \* null, and the empty trip ID
  CarPackages  \* the packages a driver can select

UserTypes == {"rider", "driver"}

\* The values of the query parameter payment in the addresses Stripe returns to.
Outcomes == {"success", "cancel"}

ASSUME HomeAssumption == None \notin UserTypes \cup Outcomes \cup CarPackages

VARIABLES
  userType,     \* what the user has chosen to be, or None
  packageSlug,  \* the package a driver has selected, or None
  payment       \* query parameter of the document's address, or None

homeVars == <<userType, packageSlug, payment>>

HomeInit ==
  /\ userType = None
  /\ packageSlug = None
  /\ payment = None

\* What HomeContent renders.
Shown ==
  CASE payment = "success" -> "paid"
    [] payment # "success" /\ userType = None -> "choice"
    [] payment # "success" /\ userType = "rider" -> "rider map"
    [] payment # "success" /\ userType = "driver" ->
         IF packageSlug = None THEN "packages" ELSE "driver map"

-----------------------------------------------------------------------------

\* "I Need a Ride".
ChooseRider ==
  /\ Shown = "choice"
  /\ userType' = "rider"
  /\ UNCHANGED <<packageSlug, payment>>

\* "I Want to Drive".
ChooseDriver ==
  /\ Shown = "choice"
  /\ userType' = "driver"
  /\ UNCHANGED <<packageSlug, payment>>

\* A button of DriverPackageSelector.
SelectPackage(p) ==
  /\ Shown = "packages"
  /\ packageSlug' = p
  /\ UNCHANGED <<userType, payment>>

\* "Back", over everything a user type shows.
GoBack ==
  /\ Shown \in {"rider map", "driver map", "packages"}
  /\ userType' = None
  /\ packageSlug' = None
  /\ UNCHANGED payment

\* Stripe sends the browser to the address of the outcome: the state of the
\* former document is gone.
StripeReturns(outcome) ==
  /\ userType' = None
  /\ packageSlug' = None
  /\ payment' = outcome

\* "Return Home": the router drops the query.
ReturnHome ==
  /\ Shown = "paid"
  /\ payment' = None
  /\ UNCHANGED <<userType, packageSlug>>

HomeTypeOK ==
  /\ userType \in UserTypes \cup {None}
  /\ packageSlug \in CarPackages \cup {None}
  /\ payment \in Outcomes \cup {None}

=============================================================================

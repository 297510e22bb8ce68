------------------------ MODULE TripFlowFaultsProofs ------------------------
(***************************************************************************)
(* What faults can add to a trip, for any trips, drivers, goroutines and   *)
(* faults: after f of them at most 1 + f * Cardinality(Goroutines) drivers *)
(* have accepted the trip, and no more Stripe sessions are open for it.    *)
(*                                                                         *)
(* The argument counts what may still lead to an acceptance, or to a       *)
(* session, together with those there are.  A step hands one lead on, or   *)
(* drops it; no step makes two of one, since a handler publishes one       *)
(* message and is then done.  Only a failing step brings back what was     *)
(* done, once, and a crash what each goroutine had in hand.  The leads are *)
(* kept as a set of places, told apart by number where there may be        *)
(* several, so that counting is a matter of injections.                    *)
(***************************************************************************)
EXTENDS TripFlowProofs

-----------------------------------------------------------------------------
(* What leads to a driver, and to a session *)

\* What a trip is after: a driver who accepts it, a session its rider can pay.
Goals == {"driver", "session"}

\* The messages, and the steps of the handlers, that may still lead to a goal.
KeysFor(goal) ==
  {TripEventCreated, TripEventDriverNotInterested, DriverCmdTripRequest, DriverCmdTripDecline}
  \cup (IF goal = "session" THEN {DriverCmdTripAccept, PaymentCmdCreateSession} ELSE {})

StepsFor(goal) ==
  {"match", "reoffer"}
  \cup (IF goal = "session"
        THEN {"assign", "reread", "announce", "charge", "open session"} ELSE {})

\* Where such a lead can be: with the creation of the trip, in a queue, with a
\* goroutine, on a driver's page; and at last with an accepter, or in a session.
\* The copies of a message, and the sessions of a driver, are numbered.
Places ==
  {<<"source", t, 1>> : t \in Trips}
  \cup {<<"queue", m, k>> : m \in Message, k \in Nat \ {0}}
  \cup {<<"work", g, 1>> : g \in Goroutines}
  \cup {<<"page", d, 1>> : d \in Drivers}
  \cup {<<"accepter", d, 1>> : d \in Drivers}
  \cup {<<"session", d, k>> : d \in Drivers, k \in Nat \ {0}}

\* Place p leads trip t to the goal, or is where it has been reached.
Leads(goal, t, p) ==
  \/ p[1] = "source" /\ p[2] = t /\ creation[t] \in {"none", "inserted"}
  \/ /\ p[1] = "queue"
     /\ p[2].trip = t /\ p[2].key \in KeysFor(goal) /\ p[3] <= queue[p[2]]
  \/ /\ p[1] = "work"
     /\ work[p[2]].step \in StepsFor(goal) /\ work[p[2]].msg.trip = t
  \/ p[1] = "page" /\ offer[p[2]] = t
  \/ goal = "driver" /\ p[1] = "accepter" /\ p[2] \in accepters[t]
  \/ goal = "session" /\ p[1] = "session" /\ p[3] <= sessions[t][p[2]]

LeadsOf(goal, t) == {p \in Places : Leads(goal, t, p)}

\* The bound of FaultsAddWhatTheyInterrupt.
Most == 1 + faults * Cardinality(Goroutines)

\* A trip has no more leads, to either goal, than the first one and those that the
\* faults have added.
FewLeads == \A goal \in Goals, t \in Trips :
  IsFiniteSet(LeadsOf(goal, t)) /\ Cardinality(LeadsOf(goal, t)) <= Most

USE DEF TripEventCreated, TripEventDriverNotInterested, TripEventDriverAssigned,
        TripEventNoDriversFound, DriverCmdTripRequest, DriverCmdTripAccept,
        DriverCmdTripDecline, PaymentCmdCreateSession, PaymentEventSessionCreated,
        PaymentEventSuccess

-----------------------------------------------------------------------------
(* Counting *)

\* One member is replaced, and others may be dropped.
LEMMA ReplaceOne ==
  ASSUME NEW S, IsFiniteSet(S), NEW p \in S, NEW q, NEW T, T \subseteq (S \ {p}) \cup {q}
  PROVE  IsFiniteSet(T) /\ Cardinality(T) <= Cardinality(S)
PROOF
<1> DEFINE U == (S \ {p}) \cup {q}
<1>1. Cardinality(S) \in Nat
  BY FS_CardinalityType
<1>2. IsFiniteSet(S \ {p}) /\ Cardinality(S \ {p}) = Cardinality(S) - 1
  BY FS_RemoveElement
<1>3. IsFiniteSet(U) /\ Cardinality(U) <= Cardinality(S)
  <2> DEFINE R == S \ {p}
  <2>1. IsFiniteSet(R) /\ Cardinality(R) = Cardinality(S) - 1
    BY <1>2
  <2> HIDE DEF R
  <2>2. /\ IsFiniteSet(R \cup {q})
        /\ Cardinality(R \cup {q}) = IF q \in R THEN Cardinality(R) ELSE Cardinality(R) + 1
    BY <2>1, FS_AddElement
  <2>3. IsFiniteSet(R \cup {q}) /\ Cardinality(R \cup {q}) <= Cardinality(S)
    BY <1>1, <2>1, <2>2
  <2> QED BY <2>3 DEF R
<1>4. IsFiniteSet(T) /\ Cardinality(T) <= Cardinality(U)
  BY <1>3, FS_Subset
<1>5. Cardinality(T) \in Nat /\ Cardinality(U) \in Nat
  BY <1>3, <1>4, FS_CardinalityType
<1> QED BY <1>1, <1>3, <1>4, <1>5

\* Some are added, and others may be dropped.
LEMMA AddSome ==
  ASSUME NEW S, IsFiniteSet(S), NEW N, IsFiniteSet(N), NEW T, T \subseteq S \cup N
  PROVE  IsFiniteSet(T) /\ Cardinality(T) <= Cardinality(S) + Cardinality(N)
PROOF
<1>1. IsFiniteSet(S \cup N)
      /\ Cardinality(S \cup N) = Cardinality(S) + Cardinality(N) - Cardinality(S \cap N)
  BY FS_Union
<1>2. IsFiniteSet(S \cap N)
  BY FS_Subset
<1>3. IsFiniteSet(T) /\ Cardinality(T) <= Cardinality(S \cup N)
  BY <1>1, FS_Subset
<1>4. /\ Cardinality(S) \in Nat /\ Cardinality(N) \in Nat /\ Cardinality(T) \in Nat
      /\ Cardinality(S \cap N) \in Nat
  BY <1>2, <1>3, FS_CardinalityType
<1> QED BY <1>1, <1>3, <1>4

\* There is a goroutine, and there are finitely many.
LEMMA GoroutinesCount == Cardinality(Goroutines) \in Nat /\ Cardinality(Goroutines) >= 1
PROOF
<1>1. IsFiniteSet(Goroutines) /\ Goroutines # {}
  BY TripFlowAssumption
<1>2. Cardinality(Goroutines) \in Nat
  BY <1>1, FS_CardinalityType
<1>3. Cardinality(Goroutines) # 0
  BY <1>1, FS_EmptySet
<1> QED BY <1>2, <1>3

\* A fault raises the bound by the number of goroutines.
LEMMA MostGrows ==
  ASSUME Inv
  PROVE  /\ Most \in Nat
         /\ faults' = faults => Most' = Most
         /\ faults' = faults + 1 => Most' = Most + Cardinality(Goroutines)
PROOF
<1>1. faults \in Nat
  BY TripFlowAssumption DEF Inv, TypeOK
<1>2. ASSUME NEW n \in Nat, NEW k \in Nat
      PROVE  1 + n * k \in Nat /\ 1 + (n + 1) * k = (1 + n * k) + k
  <2>1. (n + 1) * k = n * k + k /\ n * k \in Nat
    OBVIOUS
  <2> QED BY <2>1
<1>3. /\ 1 + faults * Cardinality(Goroutines) \in Nat
      /\ 1 + (faults + 1) * Cardinality(Goroutines)
           = (1 + faults * Cardinality(Goroutines)) + Cardinality(Goroutines)
  BY <1>1, <1>2, GoroutinesCount
<1> QED BY <1>3 DEF Most

-----------------------------------------------------------------------------
(* Places *)

\* What a place is of.
LEMMA PlaceKinds ==
  ASSUME NEW p \in Places
  PROVE  \/ p[1] = "source" /\ p[2] \in Trips /\ p[3] = 1
         \/ p[1] = "queue" /\ p[2] \in Message /\ p[3] \in Nat \ {0}
         \/ p[1] = "work" /\ p[2] \in Goroutines /\ p[3] = 1
         \/ p[1] = "page" /\ p[2] \in Drivers /\ p[3] = 1
         \/ p[1] = "accepter" /\ p[2] \in Drivers /\ p[3] = 1
         \/ p[1] = "session" /\ p[2] \in Drivers /\ p[3] \in Nat \ {0}
PROOF
<1> QED BY DEF Places

\* The places there are.
LEMMA PlacesMade ==
  /\ \A t \in Trips : <<"source", t, 1>> \in Places
  /\ \A m \in Message, k \in Nat \ {0} : <<"queue", m, k>> \in Places
  /\ \A g \in Goroutines : <<"work", g, 1>> \in Places
  /\ \A d \in Drivers : <<"page", d, 1>> \in Places /\ <<"accepter", d, 1>> \in Places
  /\ \A d \in Drivers, k \in Nat \ {0} : <<"session", d, k>> \in Places
PROOF
<1> QED BY DEF Places

\* A place is told by what it is of.
LEMMA SamePlace ==
  ASSUME NEW p \in Places, NEW q \in Places, p[1] = q[1], p[2] = q[2], p[3] = q[3]
  PROVE  p = q
PROOF
<1> QED BY DEF Places

\* A handler begins with a step of the goal its message is for.
LEMMA FirstStepLeads ==
  ASSUME NEW goal \in Goals, NEW key \in WorkKeys, FirstStep(key) \in StepsFor(goal)
  PROVE  key \in KeysFor(goal)
PROOF
<1> QED BY DEF Goals, WorkKeys, FirstStep, StepsFor, KeysFor

-----------------------------------------------------------------------------
(* Steps that hand a lead on, and steps that add some *)

\* Of the leads to the goal, the step hands on the one at p, to q, or drops some.
HandsOn(goal, p, q) == \A t \in Trips : \A r \in Places : Leads(goal, t, r)' =>
  \/ Leads(goal, t, r)
  \/ r = q /\ Leads(goal, t, p) /\ ~Leads(goal, t, p)'

\* A step that hands one lead on, to each goal, adds none.
LEMMA HandsOnFew ==
  ASSUME Inv, FewLeads, faults' \in {faults, faults + 1},
         \A goal \in Goals : \E p \in Places : \E q : HandsOn(goal, p, q)
  PROVE  FewLeads'
PROOF
<1>1. Most \in Nat /\ Most' \in Nat /\ Most <= Most'
  BY MostGrows, GoroutinesCount
<1> SUFFICES ASSUME NEW goal \in Goals, NEW t \in Trips
             PROVE  /\ IsFiniteSet(LeadsOf(goal, t)')
                    /\ Cardinality(LeadsOf(goal, t)') <= Most'
  BY DEF FewLeads
<1> DEFINE S == LeadsOf(goal, t)
           T == LeadsOf(goal, t)'
<1>2. IsFiniteSet(S) /\ Cardinality(S) <= Most /\ Cardinality(S) \in Nat
  BY FS_CardinalityType DEF FewLeads
<1>3. PICK p \in Places : \E q : HandsOn(goal, p, q)
  OBVIOUS
<1>4. PICK q : HandsOn(goal, p, q)
  BY <1>3
<1>5. IsFiniteSet(T) /\ Cardinality(T) <= Cardinality(S)
  <2>1. CASE p \in S /\ p \notin T
    <3>1. T \subseteq (S \ {p}) \cup {q}
      BY <1>4, <2>1 DEF HandsOn, LeadsOf
    <3> HIDE DEF S, T
    <3> QED BY <1>2, <2>1, <3>1, ReplaceOne
  <2>2. CASE ~(p \in S /\ p \notin T)
    <3>1. T \subseteq S
      BY <1>4, <2>2 DEF HandsOn, LeadsOf
    <3> HIDE DEF S, T
    <3> QED BY <1>2, <3>1, FS_Subset
  <2> QED BY <2>1, <2>2
<1>6. Cardinality(T) \in Nat
  BY <1>5, FS_CardinalityType
<1> HIDE DEF S, T
<1>7. IsFiniteSet(T) /\ Cardinality(T) <= Most'
  BY <1>1, <1>2, <1>5, <1>6
<1> QED BY <1>7 DEF T

\* A step that drops leads, or none, adds none.
LEMMA DropsFew ==
  ASSUME Inv, FewLeads, faults' \in {faults, faults + 1},
         \A goal \in Goals, t \in Trips : \A r \in Places : Leads(goal, t, r)' => Leads(goal, t, r)
  PROVE  FewLeads'
PROOF
<1>1. PICK p : p \in Places
  BY TripFlowAssumption, PlacesMade
<1>2. \A goal \in Goals : HandsOn(goal, p, p)
  BY DEF HandsOn
<1> QED BY <1>1, <1>2, HandsOnFew

\* A fault adds no more leads than there are goroutines.
LEMMA FaultFew ==
  ASSUME Inv, FewLeads, faults' = faults + 1,
         NEW N, IsFiniteSet(N), Cardinality(N) <= Cardinality(Goroutines),
         \A goal \in Goals, t \in Trips : \A r \in Places :
           Leads(goal, t, r)' => Leads(goal, t, r) \/ r \in N
  PROVE  FewLeads'
PROOF
<1>1. Most \in Nat /\ Most' = Most + Cardinality(Goroutines)
  BY MostGrows
<1> SUFFICES ASSUME NEW goal \in Goals, NEW t \in Trips
             PROVE  /\ IsFiniteSet(LeadsOf(goal, t)')
                    /\ Cardinality(LeadsOf(goal, t)') <= Most'
  BY DEF FewLeads
<1> DEFINE S == LeadsOf(goal, t)
           T == LeadsOf(goal, t)'
<1>2. IsFiniteSet(S) /\ Cardinality(S) <= Most /\ Cardinality(S) \in Nat
  BY FS_CardinalityType DEF FewLeads
<1>3. T \subseteq S \cup N
  BY DEF LeadsOf
<1>4. Cardinality(N) \in Nat
  BY FS_CardinalityType
<1> HIDE DEF S, T
<1>5. IsFiniteSet(T) /\ Cardinality(T) <= Cardinality(S) + Cardinality(N)
  BY <1>2, <1>3, AddSome
<1>6. Cardinality(T) \in Nat
  BY <1>5, FS_CardinalityType
<1>7. IsFiniteSet(T) /\ Cardinality(T) <= Most'
  BY <1>1, <1>2, <1>4, <1>5, <1>6, GoroutinesCount
<1> QED BY <1>7 DEF T

-----------------------------------------------------------------------------
(* What a step leaves alone *)

\* The goroutine g leads to the goal after the step only with the message it led to
\* it with before.
Keeps(goal, g) == work'[g].step \in StepsFor(goal) =>
  work[g].step \in StepsFor(goal) /\ work'[g].msg = work[g].msg

\* A lead at a place the step adds nothing to was there before.
LEMMA LedBefore ==
  ASSUME Inv, NEW goal \in Goals, NEW t \in Trips, NEW r \in Places, Leads(goal, t, r)',
         creation'[t] \in {"none", "inserted"} => creation[t] \in {"none", "inserted"},
         r[1] = "queue" => queue'[r[2]] \in Nat /\ queue'[r[2]] <= queue[r[2]],
         r[1] = "work" => Keeps(goal, r[2]),
         r[1] = "page" => offer'[r[2]] = offer[r[2]],
         r[1] = "accepter" => accepters'[t] = accepters[t],
         r[1] = "session" => sessions'[t][r[2]] = sessions[t][r[2]]
  PROVE  Leads(goal, t, r)
PROOF
<1>1. CASE r[1] = "queue"
  <2>1. r[2] \in Message /\ r[3] \in Nat
    BY <1>1, PlaceKinds
  <2>2. queue[r[2]] \in Nat /\ queue'[r[2]] \in Nat /\ queue'[r[2]] <= queue[r[2]]
    BY <1>1, <2>1 DEF Inv, TypeOK
  <2>3. r[3] <= queue'[r[2]] => r[3] <= queue[r[2]]
    BY <2>1, <2>2
  <2> QED BY <1>1, <2>3 DEF Leads
<1>2. CASE r[1] = "work"
  BY <1>2 DEF Leads, Keeps
<1>3. CASE r[1] \notin {"queue", "work"}
  BY <1>3 DEF Leads
<1> QED BY <1>1, <1>2, <1>3

\* A step after which nothing waits in a queue, is worked on or is asked that was
\* not before.
LEMMA QuietFew ==
  ASSUME Inv, FewLeads, faults' \in {faults, faults + 1},
         UNCHANGED <<sessions, accepters>>,
         \A t \in Trips :
           creation'[t] \in {"none", "inserted"} => creation[t] \in {"none", "inserted"},
         \A m \in Message : queue'[m] \in Nat /\ queue'[m] <= queue[m],
         \A g \in Goroutines : \A goal \in Goals : Keeps(goal, g),
         \A d \in Drivers : offer'[d] \in {offer[d], None}
  PROVE  FewLeads'
PROOF
<1> SUFFICES ASSUME NEW goal \in Goals, NEW t \in Trips, NEW r \in Places, Leads(goal, t, r)'
             PROVE  Leads(goal, t, r)
  BY DropsFew
<1>1. r[1] = "queue" => queue'[r[2]] \in Nat /\ queue'[r[2]] <= queue[r[2]]
  BY PlaceKinds
<1>2. r[1] = "work" => Keeps(goal, r[2])
  BY PlaceKinds
<1>3. r[1] = "page" => offer'[r[2]] = offer[r[2]]
  <2>1. r[1] = "page" => r[2] \in Drivers /\ offer'[r[2]] = t
    BY PlaceKinds DEF Leads
  <2> QED BY <2>1, TripFlowAssumption
<1> QED BY <1>1, <1>2, <1>3, LedBefore

\* A message takes on the lead that was at p, if it is on the way to the goal.
LEMMA PublishHandsOn ==
  ASSUME Inv, NEW goal \in Goals, NEW m \in Message, Publish(m), NEW p \in Places,
         m.key \in KeysFor(goal) => Leads(goal, m.trip, p) /\ ~Leads(goal, m.trip, p)',
         \A t \in Trips : \A r \in Places :
           r[1] # "queue" /\ Leads(goal, t, r)' => Leads(goal, t, r)
  PROVE  \E q : HandsOn(goal, p, q)
PROOF
<1> DEFINE q == <<"queue", m, queue[m] + 1>>
<1>1. queue \in [Message -> Nat]
  BY DEF Inv, TypeOK
<1>2. q \in Places
  BY <1>1, PlacesMade
<1>3. \A n \in Message : queue'[n] = IF n = m THEN queue[m] + 1 ELSE queue[n]
  BY <1>1 DEF Publish
<1>4. ASSUME NEW t \in Trips, NEW r \in Places, Leads(goal, t, r)', r[1] = "queue"
      PROVE  \/ Leads(goal, t, r)
             \/ r = q /\ Leads(goal, t, p) /\ ~Leads(goal, t, p)'
  <2>1. r[2] \in Message /\ r[3] \in Nat \ {0}
    BY <1>4, PlaceKinds
  <2>2. r[2].trip = t /\ r[2].key \in KeysFor(goal) /\ r[3] <= queue'[r[2]]
    BY <1>4 DEF Leads
  <2>3. CASE r[2] = m /\ r[3] = queue[m] + 1
    <3>1. r = q
      BY <1>2, <1>4, <2>3, SamePlace
    <3>2. Leads(goal, t, p) /\ ~Leads(goal, t, p)'
      BY <2>2, <2>3
    <3> QED BY <3>1, <3>2
  <2>4. CASE ~(r[2] = m /\ r[3] = queue[m] + 1)
    <3>1. r[3] <= queue[r[2]]
      BY <1>1, <1>3, <2>1, <2>2, <2>4
    <3> QED BY <1>4, <2>2, <3>1 DEF Leads
  <2> QED BY <2>3, <2>4
<1> HIDE DEF q
<1>5. HandsOn(goal, p, q)
  BY <1>4 DEF HandsOn
<1> QED BY <1>5

\* A step that takes a message drops the lead that was its last copy.
LEMMA LastCopy ==
  ASSUME Inv, NEW goal \in Goals, NEW m \in Message, NEW n, n = queue[m], n > 0,
         queue' = [queue EXCEPT ![m] = @ - 1], m.key \in KeysFor(goal)
  PROVE  /\ Leads(goal, m.trip, <<"queue", m, n>>)
         /\ ~Leads(goal, m.trip, <<"queue", m, n>>)'
PROOF
<1>1. queue \in [Message -> Nat]
  BY DEF Inv, TypeOK
<1>2. n \in Nat /\ queue'[m] = n - 1 /\ ~(n <= queue'[m])
  BY <1>1
<1>3. Leads(goal, m.trip, <<"queue", m, n>>)
  BY <1>2 DEF Leads
<1>4. ~Leads(goal, m.trip, <<"queue", m, n>>)'
  BY <1>2 DEF Leads
<1> QED BY <1>3, <1>4

-----------------------------------------------------------------------------
(* The steps of a goroutine *)

\* The goroutines other than g keep what they have.
LEMMA OthersKeep ==
  ASSUME NEW g \in Goroutines, \A h \in Goroutines : h # g => work'[h] = work[h],
         NEW goal \in Goals, NEW r \in Places, r[1] = "work", r # <<"work", g, 1>>
  PROVE  Keeps(goal, r[2])
PROOF
<1>1. r[2] \in Goroutines /\ r[2] # g
  BY PlaceKinds, PlacesMade, SamePlace
<1> QED BY <1>1 DEF Keeps

\* The goroutine of a step that is of the goal leads its trip there.
LEMMA WorkLeads ==
  ASSUME NEW g \in Goroutines, NEW goal \in Goals, NEW t, work[g].msg.trip = t
  PROVE  Leads(goal, t, <<"work", g, 1>>) <=> work[g].step \in StepsFor(goal)
PROOF
<1> QED BY DEF Leads

\* A goroutine takes a message, and the lead with it.
LEMMA TakeFew ==
  ASSUME Inv, FewLeads, NEW g \in Goroutines, NEW m \in Message, Take(g, m)
  PROVE  FewLeads'
PROOF
<1>1. /\ m.key \in WorkKeys /\ queue[m] > 0
      /\ queue' = [queue EXCEPT ![m] = @ - 1]
      /\ UNCHANGED <<creation, offer, sessions, accepters, faults>>
  BY DEF Take, pages, stripe
<1>2. /\ work'[g].step = FirstStep(m.key) /\ work'[g].msg = m
      /\ \A h \in Goroutines : h # g => work'[h] = work[h]
  BY DEF Take, Inv, TypeOK
<1>3. queue \in [Message -> Nat]
  BY DEF Inv, TypeOK
<1>4. PICK n \in Nat \ {0} : n = queue[m]
  BY <1>1, <1>3
<1> DEFINE p == <<"queue", m, n>>
           q == <<"work", g, 1>>
<1>5. p \in Places /\ q \in Places
  BY PlacesMade
<1>6. ASSUME NEW goal \in Goals, NEW t \in Trips, NEW r \in Places, Leads(goal, t, r)'
      PROVE  Leads(goal, t, r) \/ (r = q /\ Leads(goal, t, p) /\ ~Leads(goal, t, p)')
  <2>1. CASE r = q
    <3>1. FirstStep(m.key) \in StepsFor(goal) /\ m.trip = t
      BY <1>2, <1>6, <2>1 DEF Leads
    <3>2. m.key \in KeysFor(goal)
      BY <1>1, <3>1, FirstStepLeads
    <3>3. Leads(goal, t, p) /\ ~Leads(goal, t, p)'
      BY <1>1, <1>4, <3>1, <3>2, LastCopy
    <3> QED BY <2>1, <3>3
  <2>2. CASE r # q
    <3>1. r[1] = "queue" => queue'[r[2]] \in Nat /\ queue'[r[2]] <= queue[r[2]]
      BY <1>1, <1>3, PlaceKinds
    <3>2. r[1] = "work" => Keeps(goal, r[2])
      BY <1>2, <2>2, OthersKeep
    <3> QED BY <1>1, <1>6, <3>1, <3>2, LedBefore
  <2> QED BY <2>1, <2>2
<1> HIDE DEF p, q
<1>7. \A goal \in Goals : HandsOn(goal, p, q)
  BY <1>6 DEF HandsOn
<1> QED BY <1>1, <1>5, <1>7, HandsOnFew

\* A handler publishes a message, and passes on the lead it is at if the message
\* takes it over.
LEMMA PublishFew ==
  ASSUME Inv, FewLeads, NEW g \in Goroutines, NEW m \in Message, Publish(m),
         m.trip = work[g].msg.trip,
         \A h \in Goroutines : h # g => work'[h] = work[h],
         \A goal \in Goals :
           /\ Keeps(goal, g)
           /\ m.key \in KeysFor(goal) =>
                work[g].step \in StepsFor(goal) /\ work'[g].step \notin StepsFor(goal),
         UNCHANGED <<creation, offer, sessions, accepters, faults>>
  PROVE  FewLeads'
PROOF
<1> DEFINE p == <<"work", g, 1>>
<1>1. p \in Places
  BY PlacesMade
<1>2. ASSUME NEW goal \in Goals PROVE \E q : HandsOn(goal, p, q)
  <2>1. m.key \in KeysFor(goal) => Leads(goal, m.trip, p) /\ ~Leads(goal, m.trip, p)'
    BY DEF Leads
  <2>2. ASSUME NEW t \in Trips, NEW r \in Places, r[1] # "queue", Leads(goal, t, r)'
        PROVE  Leads(goal, t, r)
    <3>1. r[1] = "work" => Keeps(goal, r[2])
      BY OthersKeep
    <3> QED BY <2>2, <3>1, LedBefore
  <2> HIDE DEF p
  <2> QED BY <1>1, <2>1, <2>2, PublishHandsOn
<1> HIDE DEF p
<1> QED BY <1>1, <1>2, HandsOnFew

\* Match, Charge, Reoffer and Notify pass on what they have and are done; Announce
\* publishes what no goal waits for.
LEMMA PublisherFew ==
  ASSUME Inv, FewLeads, NEW g \in Goroutines,
         Match(g) \/ Charge(g) \/ Reoffer(g) \/ Notify(g) \/ Announce(g)
  PROVE  FewLeads'
PROOF
<1>1. /\ work[g].step # "idle"
      /\ UNCHANGED <<creation, offer, sessions, accepters, faults>>
  BY DEF Match, Charge, Reoffer, Notify, Announce, At, pages, stripe
<1>2. PICK t \in Trips : t = work[g].msg.trip
  BY <1>1, AtWork
<1>3. work[g] \in Work /\ work \in [Goroutines -> Work \cup {Idle}]
  BY <1>1, AtWork DEF Inv, TypeOK
<1>4. CASE Match(g) \/ Charge(g) \/ Reoffer(g) \/ Notify(g)
  <2>1. /\ work'[g].step = "ack"
        /\ \A h \in Goroutines : h # g => work'[h] = work[h]
    BY <1>3, <1>4 DEF Match, Charge, Reoffer, Notify, Goto, Work
  <2>2. \A goal \in Goals : work'[g].step \notin StepsFor(goal)
    BY <2>1 DEF StepsFor
  <2>3. \A goal \in Goals : Keeps(goal, g)
    BY <2>2 DEF Keeps
  <2>4. ASSUME NEW m \in Message, Publish(m), m.trip = t,
               \A goal \in Goals : m.key \in KeysFor(goal) => work[g].step \in StepsFor(goal)
        PROVE  FewLeads'
    BY <1>1, <1>2, <2>1, <2>2, <2>3, <2>4, PublishFew
  <2>5. CASE Match(g)
    <3>1. work[g].step = "match"
      BY <2>5 DEF Match, At
    <3>2. CASE Publish(Msg(TripEventNoDriversFound, t, None))
      <4>1. PICK m \in Message : m = Msg(TripEventNoDriversFound, t, None)
                                 /\ m.trip = t /\ m.key = TripEventNoDriversFound
        BY MsgIsMessage
      <4> QED BY <2>4, <3>2, <4>1 DEF KeysFor
    <3>3. ASSUME NEW d \in Drivers, Publish(Msg(DriverCmdTripRequest, t, d))
          PROVE  FewLeads'
      <4>1. PICK m \in Message : m = Msg(DriverCmdTripRequest, t, d)
                                 /\ m.trip = t /\ m.key = DriverCmdTripRequest
        BY MsgIsMessage
      <4> QED BY <2>4, <3>1, <3>3, <4>1 DEF StepsFor
    <3> QED BY <1>2, <2>5, <3>2, <3>3 DEF Match, FindAvailableDrivers, Inv, TypeOK
  <2>6. CASE Charge(g)
    <3>1. work[g].step = "charge"
          /\ Publish(Msg(PaymentCmdCreateSession, t, work[g].msg.driver))
      BY <1>2, <2>6 DEF Charge, At
    <3>2. PICK d \in Drivers : d = work[g].msg.driver
      BY <1>1, <3>1, AtWork, MessageFields DEF SoundWork
    <3>3. PICK m \in Message : m = Msg(PaymentCmdCreateSession, t, d)
                               /\ m.trip = t /\ m.key = PaymentCmdCreateSession
      BY MsgIsMessage
    <3> QED BY <2>4, <3>1, <3>2, <3>3 DEF StepsFor, KeysFor, Goals
  <2>7. CASE Reoffer(g)
    <3>1. work[g].step = "reoffer" /\ Publish(Msg(TripEventDriverNotInterested, t, None))
      BY <1>2, <2>7 DEF Reoffer, At
    <3>2. PICK m \in Message : m = Msg(TripEventDriverNotInterested, t, None)
                               /\ m.trip = t /\ m.key = TripEventDriverNotInterested
      BY MsgIsMessage
    <3> QED BY <2>4, <3>1, <3>2 DEF StepsFor
  <2>8. CASE Notify(g)
    <3>1. Publish(Msg(PaymentEventSessionCreated, t, None))
      BY <1>2, <2>8 DEF Notify
    <3>2. PICK m \in Message : m = Msg(PaymentEventSessionCreated, t, None)
                               /\ m.trip = t /\ m.key = PaymentEventSessionCreated
      BY MsgIsMessage
    <3> QED BY <2>4, <3>1, <3>2 DEF KeysFor
  <2> QED BY <1>4, <2>5, <2>6, <2>7, <2>8
<1>5. CASE Announce(g)
  <2>1. /\ work[g].step = "announce"
        /\ Publish(Msg(TripEventDriverAssigned, t, work[g].read))
    BY <1>2, <1>5 DEF Announce, At
  <2>2. PICK d \in Drivers : d = work[g].read
    <3>1. work[g].read \in accepters[t]
      BY <1>1, <1>2, <2>1, AtWork DEF SoundWork
    <3> QED BY <3>1 DEF Inv, TypeOK
  <2>3. PICK m \in Message : m = Msg(TripEventDriverAssigned, t, d)
                             /\ m.trip = t /\ m.key = TripEventDriverAssigned
    BY MsgIsMessage
  <2>4. /\ work'[g].step = "charge" /\ work'[g].msg = work[g].msg
        /\ \A h \in Goroutines : h # g => work'[h] = work[h]
    BY <1>3, <1>5 DEF Announce, Work
  <2>5. \A goal \in Goals : Keeps(goal, g) /\ m.key \notin KeysFor(goal)
    BY <2>1, <2>3, <2>4 DEF Keeps, StepsFor, KeysFor
  <2>6. Publish(m)
    BY <2>1, <2>2, <2>3
  <2> QED BY <1>1, <1>2, <2>3, <2>4, <2>5, <2>6, PublishFew
<1> QED BY <1>4, <1>5

\* A handler that goes on, or is done, or begins anew with the step it is at.
LEMMA GoOnFew ==
  ASSUME Inv, FewLeads, NEW g \in Goroutines,
         \/ Assign(g) \/ Reread(g) \/ Settle(g) \/ Ack(g) \/ Reject(g)
  PROVE  FewLeads'
PROOF
<1>1. UNCHANGED <<creation, queue, offer, sessions, accepters, faults>>
  BY DEF Assign, Reread, Settle, Ack, Reject, pages, stripe
<1>2. work[g] \in Work /\ work \in [Goroutines -> Work \cup {Idle}] /\ SoundWork(work[g])
  <2>1. work[g].step # "idle"
    BY DEF Assign, Reread, Settle, Ack, Reject, At
  <2> QED BY <2>1, AtWork DEF Inv, TypeOK
<1>3. \A h \in Goroutines : h # g => work'[h] = work[h]
  BY <1>2 DEF Assign, Reread, Settle, Ack, Reject, UpdateTrip, HandlerError, Goto
<1>4. ASSUME NEW goal \in Goals PROVE Keeps(goal, g)
  <2>1. CASE Assign(g)
    <3>1. work[g].step = "assign" /\ FirstStep(work[g].msg.key) = "assign"
      BY <1>2, <2>1 DEF Assign, At, SoundWork, FirstStep
    <3>2. work'[g].msg = work[g].msg /\ work'[g].step \in {"reread", "assign", "reject"}
      BY <1>2, <2>1, <3>1 DEF Assign, UpdateTrip, HandlerError, Goto, Work
    <3> QED BY <3>1, <3>2 DEF Keeps, StepsFor
  <2>2. CASE Reread(g)
    <3>1. work'[g].msg = work[g].msg /\ work'[g].step = "announce" /\ work[g].step = "reread"
      BY <1>2, <2>2 DEF Reread, At, Work
    <3> QED BY <3>1 DEF Keeps, StepsFor
  <2>3. CASE Settle(g)
    <3>1. work[g].step = "settle" /\ FirstStep(work[g].msg.key) = "settle"
      BY <1>2, <2>3 DEF Settle, At, SoundWork, FirstStep
    <3>2. work'[g].step \in {"ack", "settle", "reject"}
      BY <1>2, <2>3, <3>1 DEF Settle, UpdateTrip, HandlerError, Goto, Work
    <3> QED BY <3>2 DEF Keeps, StepsFor
  <2>4. CASE Ack(g) \/ Reject(g)
    <3>1. work'[g].step = "idle"
      BY <1>2, <2>4 DEF Ack, Reject, Idle
    <3> QED BY <3>1 DEF Keeps, StepsFor
  <2> QED BY <2>1, <2>2, <2>3, <2>4
<1>5. \A h \in Goroutines : \A goal \in Goals : Keeps(goal, h)
  BY <1>3, <1>4 DEF Keeps
<1>6. \A m \in Message : queue'[m] \in Nat /\ queue'[m] <= queue[m]
  BY <1>1 DEF Inv, TypeOK
<1> QED BY <1>1, <1>5, <1>6, QuietFew

\* A session is where the lead to it ends.
LEMMA OpenSessionFew ==
  ASSUME Inv, FewLeads, NEW g \in Goroutines, OpenSession(g)
  PROVE  FewLeads'
PROOF
<1>1. /\ work[g].step = "open session"
      /\ UNCHANGED <<creation, queue, offer, accepters, faults>>
  BY DEF OpenSession, At, pages
<1>2. /\ work[g].msg \in Message /\ work[g].msg.trip \in Trips /\ work[g].msg.driver \in Drivers
      /\ work[g] \in Work /\ work \in [Goroutines -> Work \cup {Idle}]
  BY <1>1, AtWork, MessageFields DEF SoundWork, Inv, TypeOK
<1>3. PICK u \in Trips, d \in Drivers : u = work[g].msg.trip /\ d = work[g].msg.driver
  BY <1>2
<1>4. sessions \in [Trips -> [Drivers -> Nat]] /\ queue \in [Message -> Nat]
  BY DEF Inv, TypeOK
<1>5. PICK n \in Nat : n = sessions[u][d]
  BY <1>4
<1>6. /\ sessions'[u][d] = n + 1
      /\ \A t \in Trips, e \in Drivers : t # u \/ e # d => sessions'[t][e] = sessions[t][e]
  BY <1>3, <1>4, <1>5 DEF OpenSession
<1>7. work'[g].step = "notify" /\ \A h \in Goroutines : h # g => work'[h] = work[h]
  BY <1>2 DEF OpenSession, Goto, Work
<1>8. \A m \in Message : queue'[m] \in Nat /\ queue'[m] <= queue[m]
  <2>1. queue' = queue
    BY <1>1
  <2> QED BY <1>4, <2>1
<1> DEFINE p == <<"work", g, 1>>
           q == <<"session", d, n + 1>>
<1>9. p \in Places /\ q \in Places
  BY PlacesMade
<1>10. ASSUME NEW goal \in Goals, NEW t \in Trips, NEW r \in Places, Leads(goal, t, r)'
      PROVE  Leads(goal, t, r) \/ (r = q /\ Leads(goal, t, p) /\ ~Leads(goal, t, p)')
  <2>1. CASE r[1] = "session" /\ r[2] = d /\ t = u
    <3>1. goal = "session" /\ r[3] <= n + 1 /\ r[3] \in Nat \ {0}
      BY <1>6, <1>10, <2>1, PlaceKinds DEF Leads
    <3>2. CASE r[3] <= n
      BY <1>5, <2>1, <3>1, <3>2 DEF Leads
    <3>3. CASE r[3] = n + 1
      <4>1. r = q
        BY <1>9, <2>1, <3>3, SamePlace
      <4>2. Leads(goal, t, p) /\ ~Leads(goal, t, p)'
        BY <1>1, <1>3, <1>7, <2>1, <3>1 DEF Leads, StepsFor
      <4> QED BY <4>1, <4>2
    <3> QED BY <3>1, <3>2, <3>3
  <2>2. CASE ~(r[1] = "session" /\ r[2] = d /\ t = u)
    <3>1. r[1] = "session" => sessions'[t][r[2]] = sessions[t][r[2]]
      BY <1>6, <2>2, PlaceKinds
    <3>2. r[1] = "work" => Keeps(goal, r[2])
      <4>1. \A h \in Goroutines : Keeps(goal, h)
        BY <1>7 DEF Keeps, StepsFor
      <4> QED BY <4>1, PlaceKinds
    <3>3. r[1] = "queue" => queue'[r[2]] \in Nat /\ queue'[r[2]] <= queue[r[2]]
      BY <1>8, PlaceKinds
    <3> QED BY <1>1, <1>10, <3>1, <3>2, <3>3, LedBefore
  <2> QED BY <2>1, <2>2
<1> HIDE DEF p, q
<1>11. \A goal \in Goals : HandsOn(goal, p, q)
  BY <1>10 DEF HandsOn
<1> QED BY <1>1, <1>9, <1>11, HandsOnFew

\* A handler that fails brings back what it has done: one lead.
LEMMA StepFailsFew ==
  ASSUME Inv, FewLeads, NEW g \in Goroutines, StepFails(g)
  PROVE  FewLeads'
PROOF
<1> DEFINE p == <<"work", g, 1>>
<1>1. /\ faults' = faults + 1 /\ HandlerError(g)
      /\ UNCHANGED <<creation, queue, offer, sessions, accepters>>
  BY DEF StepFails, Faulty, pages, stripe
<1>2. \A h \in Goroutines : h # g => work'[h] = work[h]
  BY <1>1 DEF HandlerError, Inv, TypeOK
<1>3. IsFiniteSet({p}) /\ Cardinality({p}) <= Cardinality(Goroutines)
  BY FS_Singleton, GoroutinesCount
<1>4. ASSUME NEW goal \in Goals, NEW t \in Trips, NEW r \in Places, Leads(goal, t, r)', r # p
      PROVE  Leads(goal, t, r)
  <2>1. r[1] = "work" => Keeps(goal, r[2])
    BY <1>2, <1>4, OthersKeep
  <2>2. r[1] = "queue" => queue'[r[2]] \in Nat /\ queue'[r[2]] <= queue[r[2]]
    <3>1. queue' = queue /\ queue \in [Message -> Nat]
      BY <1>1 DEF Inv, TypeOK
    <3> QED BY <3>1, PlaceKinds
  <2> QED BY <1>1, <1>4, <2>1, <2>2, LedBefore
<1> HIDE DEF p
<1>5. \A goal \in Goals, t \in Trips : \A r \in Places :
        Leads(goal, t, r)' => Leads(goal, t, r) \/ r \in {p}
  BY <1>4
<1> QED BY <1>1, <1>3, <1>5, FaultFew

\* Every step of a goroutine.
LEMMA GoroutineFew ==
  ASSUME Inv, FewLeads, NEW g \in Goroutines, Goroutine(g)
  PROVE  FewLeads'
PROOF
<1> QED BY TakeFew, PublisherFew, GoOnFew, OpenSessionFew, StepFailsFew DEF Goroutine, Handle

-----------------------------------------------------------------------------
(* The creation of a trip, the pages and the rider *)

\* The creation of a trip is told by a message, or by none.
LEMMA CreationFew ==
  ASSUME Inv, FewLeads, NEW t \in Trips, Creation(t)
  PROVE  FewLeads'
PROOF
<1>1. /\ UNCHANGED <<work, offer, sessions, accepters>> /\ faults' \in {faults, faults + 1}
      /\ creation[t] \in {"none", "inserted"}
      /\ creation \in [Trips -> {"none", "inserted", "announced", "orphaned"}]
  BY DEF Creation, InsertTrip, PublishTripCreated, PublishTripCreatedFails, Faulty, pages,
     stripe, Inv, TypeOK
<1>2. \A g \in Goroutines : \A goal \in Goals : Keeps(goal, g)
  BY <1>1 DEF Keeps
<1>3. CASE InsertTrip(t) \/ PublishTripCreatedFails(t)
  <2>1. \A u \in Trips : creation'[u] \in {"none", "inserted"} => creation[u] \in {"none", "inserted"}
    BY <1>1, <1>3 DEF InsertTrip, PublishTripCreatedFails
  <2>2. \A m \in Message : queue'[m] \in Nat /\ queue'[m] <= queue[m]
    BY <1>3 DEF InsertTrip, PublishTripCreatedFails, Inv, TypeOK
  <2> QED BY <1>1, <1>2, <2>1, <2>2, QuietFew
<1>4. CASE PublishTripCreated(t)
  <2> DEFINE p == <<"source", t, 1>>
  <2>1. PICK m \in Message : m = Msg(TripEventCreated, t, None) /\ m.trip = t
    BY MsgIsMessage
  <2>2. /\ Publish(m) /\ faults' = faults /\ creation[t] = "inserted" /\ creation'[t] = "announced"
        /\ \A u \in Trips : u # t => creation'[u] = creation[u]
    BY <1>1, <1>4, <2>1 DEF PublishTripCreated
  <2>3. p \in Places
    BY PlacesMade
  <2>4. ASSUME NEW goal \in Goals PROVE \E q : HandsOn(goal, p, q)
    <3>1. Leads(goal, t, p) /\ ~Leads(goal, t, p)'
      BY <2>2 DEF Leads
    <3>2. ASSUME NEW u \in Trips, NEW r \in Places, r[1] # "queue", Leads(goal, u, r)'
          PROVE  Leads(goal, u, r)
      <4>1. creation'[u] \in {"none", "inserted"} => creation[u] \in {"none", "inserted"}
        BY <2>2
      <4>2. r[1] = "work" => Keeps(goal, r[2])
        BY <1>2, PlaceKinds
      <4> QED BY <1>1, <3>2, <4>1, <4>2, LedBefore
    <3> HIDE DEF p
    <3> QED BY <2>1, <2>2, <2>3, <3>1, <3>2, PublishHandsOn
  <2> HIDE DEF p
  <2> QED BY <2>2, <2>3, <2>4, HandsOnFew
<1> QED BY <1>3, <1>4 DEF Creation

\* A driver's answer takes the place of the request on the page: an acceptance is
\* where the search for a driver ends, and a message on the way to the session.
LEMMA AnswerFew ==
  ASSUME Inv, FewLeads, NEW d \in Drivers, Accept(d) \/ Decline(d)
  PROVE  FewLeads'
PROOF
<1> DEFINE p == <<"page", d, 1>>
           a == <<"accepter", d, 1>>
<1>1. PICK t \in Trips, key \in {DriverCmdTripAccept, DriverCmdTripDecline} :
        /\ offer[d] = t /\ Publish(Msg(key, t, d))
        /\ offer' = [offer EXCEPT ![d] = None]
        /\ UNCHANGED <<creation, work, sessions, faults>>
        /\ \/ key = DriverCmdTripAccept /\ accepters' = [accepters EXCEPT ![t] = @ \cup {d}]
           \/ key = DriverCmdTripDecline /\ accepters' = accepters
  <2>1. offer[d] \in Trips
    BY DEF Accept, Decline, Answer, Inv, TypeOK
  <2> QED BY <2>1 DEF Accept, Decline, Answer, stripe
<1>2. PICK m \in Message : m = Msg(key, t, d) /\ m.key = key /\ m.trip = t
  BY MsgIsMessage
<1>3. Publish(m)
  BY <1>1, <1>2
<1>4. p \in Places /\ a \in Places
  BY PlacesMade
<1>5. offer'[d] = None /\ \A e \in Drivers : e # d => offer'[e] = offer[e]
  BY <1>1 DEF Inv, TypeOK
<1>6. \A goal \in Goals : Leads(goal, t, p) /\ ~Leads(goal, t, p)'
  BY <1>1, <1>5, TripFlowAssumption DEF Leads
<1>7. ASSUME NEW goal \in Goals, NEW u \in Trips, NEW r \in Places, Leads(goal, u, r)',
             r[1] # "queue", r[1] = "accepter" => accepters'[u] = accepters[u]
      PROVE  Leads(goal, u, r)
  <2>1. r[1] = "page" => offer'[r[2]] = offer[r[2]]
    <3>1. r[1] = "page" => r[2] \in Drivers /\ offer'[r[2]] = u
      BY <1>7, PlaceKinds DEF Leads
    <3> QED BY <1>5, <3>1, TripFlowAssumption
  <2>2. r[1] = "work" => Keeps(goal, r[2])
    BY <1>1 DEF Keeps
  <2> QED BY <1>1, <1>7, <2>1, <2>2, LedBefore
<1>8. CASE key = DriverCmdTripDecline
  <2>1. accepters' = accepters
    BY <1>1, <1>8
  <2>2. \A goal \in Goals : \A u \in Trips : \A r \in Places :
          r[1] # "queue" /\ Leads(goal, u, r)' => Leads(goal, u, r)
    BY <1>7, <2>1
  <2> HIDE DEF p
  <2>3. \A goal \in Goals : \E q : HandsOn(goal, p, q)
    BY <1>2, <1>3, <1>4, <1>6, <2>2, PublishHandsOn
  <2> QED BY <1>1, <1>4, <2>3, HandsOnFew
<1>9. CASE key = DriverCmdTripAccept
  <2>1. \A u \in Trips : accepters'[u] = IF u = t THEN accepters[t] \cup {d} ELSE accepters[u]
    BY <1>1, <1>9 DEF Inv, TypeOK
  <2>2. \E q : HandsOn("session", p, q)
    <3>1. "session" \in Goals
      BY DEF Goals
    <3>2. ASSUME NEW u \in Trips, NEW r \in Places, r[1] # "queue", Leads("session", u, r)'
          PROVE  Leads("session", u, r)
      <4>1. r[1] # "accepter"
        BY <3>2 DEF Leads
      <4> QED BY <1>7, <3>1, <3>2, <4>1
    <3> HIDE DEF p
    <3> QED BY <1>2, <1>3, <1>4, <1>6, <3>1, <3>2, PublishHandsOn
  <2>3. HandsOn("driver", p, a)
    <3>1. "driver" \in Goals
      BY DEF Goals
    <3>2. queue \in [Message -> Nat] /\ \A n \in Message : n # m => queue'[n] = queue[n]
      BY <1>3 DEF Publish, Inv, TypeOK
    <3>3. ASSUME NEW u \in Trips, NEW r \in Places, Leads("driver", u, r)'
          PROVE  \/ Leads("driver", u, r)
                 \/ r = a /\ Leads("driver", u, p) /\ ~Leads("driver", u, p)'
      <4>1. CASE r[1] = "queue"
        <5>1. r[2] \in Message /\ r[2].key \in KeysFor("driver")
          BY <3>3, <4>1, PlaceKinds DEF Leads
        <5>2. r[2] # m
          BY <1>2, <1>9, <5>1 DEF KeysFor
        <5> QED BY <3>2, <3>3, <4>1, <5>1, <5>2 DEF Leads
      <4>2. CASE r[1] = "accepter" /\ u = t
        <5>1. r[2] \in accepters[t] \cup {d} /\ r[2] \in Drivers /\ r[3] = 1
          BY <2>1, <3>3, <4>2, PlaceKinds DEF Leads
        <5>2. CASE r[2] \in accepters[t]
          BY <4>2, <5>2 DEF Leads
        <5>3. CASE r[2] = d
          <6>1. r = a
            BY <1>4, <4>2, <5>1, <5>3, SamePlace
          <6> QED BY <1>6, <3>1, <4>2, <6>1
        <5> QED BY <5>1, <5>2, <5>3
      <4>3. CASE r[1] # "queue" /\ ~(r[1] = "accepter" /\ u = t)
        BY <1>7, <2>1, <3>1, <3>3, <4>3
      <4> QED BY <4>1, <4>2, <4>3
    <3> HIDE DEF p, a
    <3> QED BY <3>3 DEF HandsOn
  <2> HIDE DEF p, a
  <2>4. \A goal \in Goals : \E q : HandsOn(goal, p, q)
    BY <2>2, <2>3 DEF Goals
  <2> QED BY <1>1, <1>4, <2>4, HandsOnFew
<1> QED BY <1>8, <1>9

\* The other steps of a driver only take a request off the page.
LEMMA DriverFew ==
  ASSUME Inv, FewLeads, NEW d \in Drivers, Driver(d)
  PROVE  FewLeads'
PROOF
<1>1. CASE ~(Accept(d) \/ Decline(d))
  <2>1. /\ UNCHANGED <<creation, queue, work, sessions, accepters>>
        /\ faults' \in {faults, faults + 1}
        /\ offer' = offer \/ offer' = [offer EXCEPT ![d] = None]
    BY <1>1 DEF Driver, Connect, Register, Disconnect, Unregister, UnregisterFails,
       AnswerLost, Faulty, stripe
  <2>2. \A e \in Drivers : offer'[e] \in {offer[e], None}
    BY <2>1 DEF Inv, TypeOK
  <2>3. \A m \in Message : queue'[m] \in Nat /\ queue'[m] <= queue[m]
    BY <2>1 DEF Inv, TypeOK
  <2>4. \A g \in Goroutines : \A goal \in Goals : Keeps(goal, g)
    BY <2>1 DEF Keeps
  <2> QED BY <2>1, <2>2, <2>3, <2>4, QuietFew
<1> QED BY <1>1, AnswerFew DEF Driver

\* A payment and its report lead to no driver and to no session.
LEMMA RiderFew ==
  ASSUME Inv, FewLeads, NEW t \in Trips, Rider(t)
  PROVE  FewLeads'
PROOF
<1>1. /\ UNCHANGED <<creation, work, offer, sessions, accepters>>
      /\ faults' \in {faults, faults + 1}
  BY DEF Rider, RiderLeaves, RiderPays, Webhook, WebhookRepeated, Faulty, pages, stripe
<1>2. \A g \in Goroutines : \A goal \in Goals : Keeps(goal, g)
  BY <1>1 DEF Keeps
<1>3. CASE RiderLeaves(t) \/ RiderPays(t) \/ queue' = queue
  <2>1. \A m \in Message : queue'[m] \in Nat /\ queue'[m] <= queue[m]
    BY <1>3 DEF RiderLeaves, RiderPays, Inv, TypeOK
  <2> QED BY <1>1, <1>2, <2>1, QuietFew
<1>4. CASE (Webhook(t) \/ WebhookRepeated(t)) /\ queue' # queue
  <2>1. PICK m \in Message : /\ m = Msg(PaymentEventSuccess, t, None)
                             /\ m.key = PaymentEventSuccess
    BY MsgIsMessage
  <2>2. Publish(m)
    BY <1>4, <2>1 DEF Webhook, WebhookRepeated
  <2>3. \A n \in Message : n # m => queue'[n] = queue[n]
    BY <2>2 DEF Publish, Inv, TypeOK
  <2>4. ASSUME NEW goal \in Goals, NEW u \in Trips, NEW r \in Places, Leads(goal, u, r)'
        PROVE  Leads(goal, u, r)
    <3>1. CASE r[1] = "queue"
      <4>1. r[2] \in Message /\ r[2].key \in KeysFor(goal)
        BY <2>4, <3>1, PlaceKinds DEF Leads
      <4>2. r[2] # m
        BY <2>1, <4>1 DEF KeysFor
      <4> QED BY <2>3, <2>4, <3>1, <4>1, <4>2 DEF Leads
    <3>2. CASE r[1] # "queue"
      <4>1. r[1] = "work" => Keeps(goal, r[2])
        BY <1>2, PlaceKinds
      <4> QED BY <1>1, <2>4, <3>2, <4>1, LedBefore
    <3> QED BY <3>1, <3>2
  <2> QED BY <1>1, <2>4, DropsFew
<1> QED BY <1>3, <1>4 DEF Rider

\* A request takes its lead to the page that shows it, or is lost; an event for the
\* rider is on the way to no goal; a publication may be lost.
LEMMA GatewayFew ==
  ASSUME Inv, FewLeads, NEW m \in Message, Gateway(m) \/ PublicationLost(m)
  PROVE  FewLeads'
PROOF
<1>1. /\ queue[m] > 0 /\ queue' = [queue EXCEPT ![m] = @ - 1]
      /\ UNCHANGED <<creation, work, sessions, accepters>>
      /\ faults' \in {faults, faults + 1}
  BY DEF Gateway, DeliverRequest, DeliverToRider, PublicationLost, Faulty, stripe
<1>2. \A n \in Message : queue'[n] \in Nat /\ queue'[n] <= queue[n]
  BY <1>1 DEF Inv, TypeOK
<1>3. \A g \in Goroutines : \A goal \in Goals : Keeps(goal, g)
  BY <1>1 DEF Keeps
<1>4. CASE offer' = offer
  BY <1>1, <1>2, <1>3, <1>4, QuietFew
<1>5. CASE m.key = DriverCmdTripRequest /\ offer' = [offer EXCEPT ![m.driver] = m.trip]
  <2>1. PICK n \in Nat \ {0} : n = queue[m]
    BY <1>1 DEF Inv, TypeOK
  <2>2. m.driver \in Drivers /\ m.trip \in Trips
    BY <1>5, MessageFields
  <2>3. PICK d \in Drivers, u \in Trips : d = m.driver /\ u = m.trip
    BY <2>2
  <2> DEFINE p == <<"queue", m, n>>
             q == <<"page", d, 1>>
  <2>4. p \in Places /\ q \in Places
    BY <2>1, PlacesMade
  <2>5. offer'[d] = u /\ \A e \in Drivers : e # d => offer'[e] = offer[e]
    BY <1>5, <2>3 DEF Inv, TypeOK
  <2>6. ASSUME NEW goal \in Goals, NEW t \in Trips, NEW r \in Places, Leads(goal, t, r)'
        PROVE  Leads(goal, t, r) \/ (r = q /\ Leads(goal, t, p) /\ ~Leads(goal, t, p)')
    <3>1. CASE r = q
      <4>1. t = u
        BY <2>5, <2>6, <3>1 DEF Leads
      <4>2. m.key \in KeysFor(goal)
        BY <1>5 DEF KeysFor
      <4>3. Leads(goal, t, p) /\ ~Leads(goal, t, p)'
        BY <1>1, <2>1, <2>3, <4>1, <4>2, LastCopy
      <4> QED BY <3>1, <4>3
    <3>2. CASE r # q
      <4>1. r[1] = "page" => offer'[r[2]] = offer[r[2]]
        BY <2>4, <2>5, <3>2, PlaceKinds, SamePlace
      <4>2. r[1] = "queue" => queue'[r[2]] \in Nat /\ queue'[r[2]] <= queue[r[2]]
        BY <1>2, PlaceKinds
      <4>3. r[1] = "work" => Keeps(goal, r[2])
        BY <1>3, PlaceKinds
      <4> QED BY <1>1, <2>6, <4>1, <4>2, <4>3, LedBefore
    <3> QED BY <3>1, <3>2
  <2> HIDE DEF p, q
  <2>7. \A goal \in Goals : HandsOn(goal, p, q)
    BY <2>6 DEF HandsOn
  <2> QED BY <1>1, <2>4, <2>7, HandsOnFew
<1> QED BY <1>4, <1>5 DEF Gateway, DeliverRequest, DeliverToRider, PublicationLost, pages

-----------------------------------------------------------------------------
(* Crashes *)

\* What the goroutines of a service have in hand goes back to the queues: each
\* message behind the copies that are there, one copy for each goroutine.
LEMMA CrashFew ==
  ASSUME Inv, FewLeads, NEW s \in Services, Crash(s)
  PROVE  FewLeads'
PROOF
<1> DEFINE held == {g \in Goroutines : work[g] # Idle /\ ServiceOf(work[g].msg.key) = s}
           Back(m) == {g \in held : work[g].msg = m}
<1>1. /\ faults' = faults + 1
      /\ queue' = [m \in Message |-> queue[m] + Cardinality(Back(m))]
      /\ work' = [g \in Goroutines |-> IF g \in held THEN Idle ELSE work[g]]
      /\ creation' = [t \in Trips |->
                        IF s = "trip-service" /\ creation[t] = "inserted"
                        THEN "orphaned" ELSE creation[t]]
      /\ UNCHANGED <<offer, sessions, accepters>>
  BY DEF Crash, pages, stripe
<1>2. IsFiniteSet(Goroutines) /\ queue \in [Message -> Nat]
  BY TripFlowAssumption DEF Inv, TypeOK
<1>3. ASSUME NEW m \in Message
      PROVE  /\ IsFiniteSet(Back(m)) /\ Cardinality(Back(m)) \in Nat
             /\ ExistsBijection(1 .. Cardinality(Back(m)), Back(m))
  <2>1. Back(m) \subseteq Goroutines
    OBVIOUS
  <2>2. IsFiniteSet(Back(m))
    BY <1>2, <2>1, FS_Subset
  <2> QED BY <2>2, FS_CardinalityType
<1> DEFINE nth == [m \in Message |->
                     CHOOSE f : f \in Bijection(1 .. Cardinality(Back(m)), Back(m))]
           N == {r \in Places : /\ r[1] = "queue"
                                /\ r[3] > queue[r[2]]
                                /\ r[3] <= queue[r[2]] + Cardinality(Back(r[2]))}
           of == [r \in N |-> nth[r[2]][r[3] - queue[r[2]]]]
<1>4. ASSUME NEW m \in Message
      PROVE  nth[m] \in Bijection(1 .. Cardinality(Back(m)), Back(m))
  BY <1>3 DEF ExistsBijection
<1>5. ASSUME NEW r \in N
      PROVE  /\ r[2] \in Message /\ r[3] \in Nat /\ queue[r[2]] \in Nat
             /\ r[3] - queue[r[2]] \in 1 .. Cardinality(Back(r[2]))
             /\ of[r] = nth[r[2]][r[3] - queue[r[2]]]
             /\ of[r] \in Back(r[2])
  <2>1. r \in Places /\ r[1] = "queue" /\ r[2] \in Message /\ r[3] \in Nat
    BY PlaceKinds
  <2>2. queue[r[2]] \in Nat /\ Cardinality(Back(r[2])) \in Nat
    BY <1>2, <1>3, <2>1
  <2>3. r[3] - queue[r[2]] \in 1 .. Cardinality(Back(r[2]))
    <3>1. r[3] > queue[r[2]] /\ r[3] <= queue[r[2]] + Cardinality(Back(r[2]))
      OBVIOUS
    <3> HIDE DEF Back, N
    <3> QED BY <2>1, <2>2, <3>1
  <2>4. nth[r[2]] \in Bijection(1 .. Cardinality(Back(r[2])), Back(r[2]))
    BY <1>4, <2>1
  <2>5. of[r] = nth[r[2]][r[3] - queue[r[2]]]
    OBVIOUS
  <2> HIDE DEF Back, N, nth, of
  <2>6. nth[r[2]][r[3] - queue[r[2]]] \in Back(r[2])
    BY <2>3, <2>4 DEF Bijection, Injection, Surjection
  <2> QED BY <2>1, <2>2, <2>3, <2>5, <2>6
<1>6. of \in Injection(N, Goroutines)
  <2>1. of \in [N -> Goroutines]
    <3>1. \A r \in N : of[r] \in Goroutines
      BY <1>5
    <3> QED BY <3>1
  <2>2. ASSUME NEW r \in N, NEW q \in N, of[r] = of[q] PROVE r = q
    <3>1. r[2] = q[2]
      <4>1. work[of[r]].msg = r[2] /\ work[of[q]].msg = q[2]
        BY <1>5
      <4> QED BY <2>2, <4>1
    <3>2. nth[r[2]] \in Bijection(1 .. Cardinality(Back(r[2])), Back(r[2]))
      BY <1>4, <1>5
    <3>3. r \in Places /\ q \in Places /\ r[1] = q[1]
      OBVIOUS
    <3> HIDE DEF Back, N, nth, of
    <3>4. r[3] - queue[r[2]] = q[3] - queue[q[2]]
      <4>1. \A i, j \in 1 .. Cardinality(Back(r[2])) : nth[r[2]][i] = nth[r[2]][j] => i = j
        BY <3>2 DEF Bijection, Injection, IsInjective
      <4>2. /\ r[3] - queue[r[2]] \in 1 .. Cardinality(Back(r[2]))
            /\ q[3] - queue[q[2]] \in 1 .. Cardinality(Back(r[2]))
        BY <1>5, <3>1
      <4>3. nth[r[2]][r[3] - queue[r[2]]] = nth[r[2]][q[3] - queue[q[2]]]
        BY <1>5, <2>2, <3>1
      <4> QED BY <4>1, <4>2, <4>3
    <3>5. r[3] = q[3]
      BY <1>5, <3>1, <3>4
    <3> QED BY <3>1, <3>3, <3>5, SamePlace
  <2> HIDE DEF of, N
  <2> QED BY <2>1, <2>2 DEF Injection, IsInjective
<1>7. IsFiniteSet(N) /\ Cardinality(N) <= Cardinality(Goroutines)
  <2> HIDE DEF N, of
  <2> QED BY <1>2, <1>6, FS_Injection
<1>8. ASSUME NEW goal \in Goals, NEW t \in Trips, NEW r \in Places, Leads(goal, t, r)', r \notin N
      PROVE  Leads(goal, t, r)
  <2>1. CASE r[1] = "queue"
    <3>1. r[2] \in Message /\ r[3] \in Nat
      BY <2>1, PlaceKinds
    <3>2. queue'[r[2]] = queue[r[2]] + Cardinality(Back(r[2])) /\ queue[r[2]] \in Nat
      BY <1>1, <1>2, <3>1
    <3>3. r[3] <= queue'[r[2]]
      BY <1>8, <2>1 DEF Leads
    <3>4. r[3] <= queue[r[2]]
      BY <1>8, <2>1, <3>1, <3>2, <3>3
    <3> QED BY <1>8, <2>1, <3>4 DEF Leads
  <2>2. CASE r[1] # "queue"
    <3>1. r[1] = "work" => Keeps(goal, r[2])
      <4>1. \A g \in Goroutines : work'[g] = work[g] \/ work'[g].step = "idle"
        BY <1>1 DEF Idle
      <4>2. \A g \in Goroutines : Keeps(goal, g)
        BY <4>1 DEF Keeps, StepsFor
      <4> QED BY <4>2, PlaceKinds
    <3>2. creation'[t] \in {"none", "inserted"} => creation[t] \in {"none", "inserted"}
      BY <1>1
    <3> QED BY <1>1, <1>8, <2>2, <3>1, <3>2, LedBefore
  <2> QED BY <2>1, <2>2
<1> HIDE DEF N
<1>9. \A goal \in Goals, t \in Trips : \A r \in Places :
        Leads(goal, t, r)' => Leads(goal, t, r) \/ r \in N
  BY <1>8
<1> QED BY <1>1, <1>7, <1>9, FaultFew

\* The gateway takes its pages along.
LEMMA CrashGatewayFew ==
  ASSUME Inv, FewLeads, CrashGateway
  PROVE  FewLeads'
PROOF
<1>1. /\ UNCHANGED <<creation, queue, work, sessions, accepters>>
      /\ faults' = faults + 1 /\ \A d \in Drivers : offer'[d] = None
  BY DEF CrashGateway, stripe
<1>2. \A m \in Message : queue'[m] \in Nat /\ queue'[m] <= queue[m]
  BY <1>1 DEF Inv, TypeOK
<1>3. \A g \in Goroutines : \A goal \in Goals : Keeps(goal, g)
  BY <1>1 DEF Keeps
<1> QED BY <1>1, <1>2, <1>3, QuietFew

-----------------------------------------------------------------------------
(* The theorems *)

\* In the beginning the creation of a trip is its one lead.
LEMMA InitFew == Init => FewLeads
PROOF
<1> SUFFICES ASSUME Init, NEW goal \in Goals, NEW t \in Trips
             PROVE  IsFiniteSet(LeadsOf(goal, t)) /\ Cardinality(LeadsOf(goal, t)) <= Most
  BY DEF FewLeads
<1> DEFINE p == <<"source", t, 1>>
<1>1. p \in Places
  BY PlacesMade
<1>2. ASSUME NEW r \in Places, Leads(goal, t, r) PROVE r = p
  <2>1. CASE r[1] = "source"
    <3>1. r[2] = t /\ r[3] = 1
      BY <1>2, <2>1, PlaceKinds DEF Leads
    <3> QED BY <1>1, <2>1, <3>1, SamePlace
  <2>2. r[1] # "queue"
    <3>1. r[1] = "queue" => queue[r[2]] = 0 /\ r[3] \in Nat \ {0}
      BY PlaceKinds DEF Init
    <3> QED BY <1>2, <3>1 DEF Leads
  <2>3. r[1] # "work"
    <3>1. r[1] = "work" => work[r[2]].step = "idle"
      BY PlaceKinds DEF Init, Idle
    <3> QED BY <1>2, <3>1 DEF Leads, StepsFor
  <2>4. r[1] # "page"
    <3>1. r[1] = "page" => offer[r[2]] = None
      BY PlaceKinds DEF Init
    <3> QED BY <1>2, <3>1, TripFlowAssumption DEF Leads
  <2>5. r[1] # "accepter"
    BY <1>2 DEF Leads, Init
  <2>6. r[1] # "session"
    <3>1. r[1] = "session" => sessions[t][r[2]] = 0 /\ r[3] \in Nat \ {0}
      BY PlaceKinds DEF Init
    <3> QED BY <1>2, <3>1 DEF Leads
  <2> QED BY <2>1, <2>2, <2>3, <2>4, <2>5, <2>6, PlaceKinds
<1>3. LeadsOf(goal, t) \subseteq {p}
  BY <1>2 DEF LeadsOf
<1> HIDE DEF p
<1>4. IsFiniteSet({p}) /\ Cardinality({p}) = 1
  BY FS_Singleton
<1>5. /\ IsFiniteSet(LeadsOf(goal, t)) /\ Cardinality(LeadsOf(goal, t)) <= 1
  BY <1>3, <1>4, FS_Subset
<1>6. Most = 1
  <2>1. Most = 1 + 0 * Cardinality(Goroutines)
    BY DEF Most, Init
  <2> QED BY <2>1, GoroutinesCount
<1> QED BY <1>5, <1>6

\* Every step, failing or not, keeps the leads within the bound.
LEMMA NextFew == Inv /\ FewLeads /\ [Next]_vars => FewLeads'
PROOF
<1> SUFFICES ASSUME Inv, FewLeads, [Next]_vars PROVE FewLeads'
  OBVIOUS
<1>1. CASE \E t \in Trips : Creation(t) \/ Rider(t)
  BY <1>1, CreationFew, RiderFew
<1>2. CASE \E d \in Drivers : Driver(d)
  BY <1>2, DriverFew
<1>3. CASE \E g \in Goroutines : Goroutine(g)
  BY <1>3, GoroutineFew
<1>4. CASE \E m \in Message : Gateway(m) \/ PublicationLost(m)
  BY <1>4, GatewayFew
<1>5. CASE (\E s \in Services : Crash(s)) \/ CrashGateway
  BY <1>5, CrashFew, CrashGatewayFew
<1>6. CASE UNCHANGED vars
  <2>1. UNCHANGED <<creation, queue, work, offer, sessions, accepters, faults>>
    BY <1>6 DEF vars, pages, stripe
  <2>2. \A m \in Message : queue'[m] \in Nat /\ queue'[m] <= queue[m]
    BY <2>1 DEF Inv, TypeOK
  <2>3. \A g \in Goroutines : \A goal \in Goals : Keeps(goal, g)
    BY <2>1 DEF Keeps
  <2> QED BY <2>1, <2>2, <2>3, QuietFew
<1> QED BY <1>1, <1>2, <1>3, <1>4, <1>5, <1>6 DEF Next

\* In every reachable state a trip has no more leads to a driver, or to a session,
\* than the one of its creation and those the faults have added.
THEOREM LeadsAreFew == Spec => []FewLeads
PROOF
<1>1. Init => FewLeads
  BY InitFew
<1>2. Inv /\ FewLeads /\ [Next]_vars => FewLeads'
  BY NextFew
<1> QED BY <1>1, <1>2, Invariance, PTL DEF Spec

\* The accepters of a trip, and the sessions opened for it, are among its leads.
LEMMA LeadsCount == Inv /\ FewLeads => FaultsAddWhatTheyInterrupt
PROOF
<1> SUFFICES ASSUME Inv, FewLeads, NEW t \in Trips
             PROVE  Cardinality(accepters[t]) <= Most /\ SessionsOpened(t) <= Most
  BY DEF FaultsAddWhatTheyInterrupt, Most
<1>1. "driver" \in Goals /\ "session" \in Goals
  BY DEF Goals
<1>2. ASSUME NEW goal \in Goals, NEW S, NEW f \in Injection(S, LeadsOf(goal, t))
      PROVE  Cardinality(S) <= Most
  <2>1. IsFiniteSet(LeadsOf(goal, t)) /\ Cardinality(LeadsOf(goal, t)) <= Most
    BY DEF FewLeads
  <2>2. IsFiniteSet(S) /\ Cardinality(S) <= Cardinality(LeadsOf(goal, t))
    BY <2>1, FS_Injection
  <2>3. Cardinality(S) \in Nat /\ Cardinality(LeadsOf(goal, t)) \in Nat /\ Most \in Nat
    BY <2>1, <2>2, FS_CardinalityType, MostGrows
  <2> QED BY <2>1, <2>2, <2>3
<1>3. Cardinality(accepters[t]) <= Most
  <2> DEFINE S == accepters[t]
             f == [d \in S |-> <<"accepter", d, 1>>]
  <2>1. \A d \in S : f[d] \in LeadsOf("driver", t)
    <3>1. S \subseteq Drivers
      BY DEF Inv, TypeOK
    <3> QED BY <3>1, PlacesMade DEF LeadsOf, Leads
  <2>2. f \in Injection(S, LeadsOf("driver", t))
    BY <2>1 DEF Injection, IsInjective
  <2> HIDE DEF f
  <2> QED BY <1>1, <1>2, <2>2
<1>4. SessionsOpened(t) <= Most
  <2> DEFINE S == UNION {{d} \X (1 .. sessions[t][d]) : d \in Drivers}
             f == [x \in S |-> <<"session", x[1], x[2]>>]
  <2>1. ASSUME NEW x \in S
        PROVE  /\ x = <<x[1], x[2]>> /\ x[1] \in Drivers
               /\ x[2] \in 1 .. sessions[t][x[1]] /\ sessions[t][x[1]] \in Nat
    BY DEF Inv, TypeOK
  <2>2. \A x \in S : f[x] = <<"session", x[1], x[2]>>
    OBVIOUS
  <2>3. f \in [S -> LeadsOf("session", t)]
    <3>1. ASSUME NEW x \in S PROVE <<"session", x[1], x[2]>> \in LeadsOf("session", t)
      <4>1. x[2] \in Nat \ {0} /\ x[2] <= sessions[t][x[1]]
        BY <2>1
      <4>2. <<"session", x[1], x[2]>> \in Places
        BY <2>1, <4>1, PlacesMade
      <4>3. Leads("session", t, <<"session", x[1], x[2]>>)
        BY <4>1 DEF Leads
      <4> QED BY <4>2, <4>3 DEF LeadsOf
    <3> QED BY <3>1
  <2>4. ASSUME NEW x \in S, NEW y \in S, f[x] = f[y] PROVE x = y
    <3>1. x[1] = y[1] /\ x[2] = y[2]
      BY <2>2, <2>4
    <3> QED BY <2>1, <3>1
  <2>5. f \in Injection(S, LeadsOf("session", t))
    <3> HIDE DEF f, S
    <3> QED BY <2>3, <2>4 DEF Injection, IsInjective
  <2> HIDE DEF f
  <2> QED BY <1>1, <1>2, <2>5 DEF SessionsOpened
<1> QED BY <1>3, <1>4

\* After f faults no more than 1 + f * (messages being worked on) drivers have
\* accepted a trip, and no more sessions than that are open for it.
THEOREM FaultsAreBounded == Spec => []FaultsAddWhatTheyInterrupt
PROOF
<1> QED BY LeadsCount, LeadsAreFew, Invariance, PTL

=============================================================================

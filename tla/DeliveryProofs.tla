--------------------------- MODULE DeliveryProofs ---------------------------
(***************************************************************************)
(* What TLC checks of Delivery on two messages and two replicas, proved    *)
(* for any sets of messages and replicas and any bounds: the invariants    *)
(* TypeOK, Conserved, TasksMatchDeliveries, RedeliveredOnlyByFaults and    *)
(* RunsBounded, and that Delivery implements Settlement.                   *)
(*                                                                         *)
(* The argument is one inductive invariant, Inv.  Conserved alone is not   *)
(* inductive: that an Ack moves a message which is still in unacked needs  *)
(* TasksMatchDeliveries, and that the message had a cause to be settled    *)
(* needs TasksHaveCause.                                                   *)
(* RunsBounded rests on RunsPaid, which counts the calls to come as well   *)
(* as those made.                                                          *)
(***************************************************************************)
EXTENDS Delivery, FiniteSetTheorems, TLAPS

-----------------------------------------------------------------------------
(* The inductive invariant *)

\* What a task knows: attempts are left while it runs or waits, and the reason
\* it settles the message for is on record.
TasksHaveCause == \A r \in Replicas, m \in Messages :
  /\ task[r][m].stage \in {"running", "waiting"} => task[r][m].failures <= MaxRetries
  /\ task[r][m].stage = "acking" => m \in done
  /\ task[r][m].stage = "rejecting" => m \in exhausted
  /\ Busy(r, m) => m \notin unsent

\* Each hand-out of a message after the first is paid for by a fault.
HandOutsPaid == \A m \in Messages :
  /\ m \in unsent => deliveries[m] = 0
  /\ m \in ready => deliveries[m] <= faults
  /\ deliveries[m] <= faults + 1

Inv ==
  /\ TypeOK
  /\ Conserved
  /\ TasksMatchDeliveries
  /\ TasksHaveCause
  /\ HandOutsPaid

-----------------------------------------------------------------------------
(* Where a message is *)

\* Taking a message out of the unsettled ones of its only holder takes it out
\* of those handed out.
LEMMA HandedOutAfterSettling ==
  ASSUME NEW r \in Replicas, NEW m \in unacked[r],
         unacked \in [Replicas -> SUBSET Messages],
         \A p, q \in Replicas : p # q => unacked[p] \cap unacked[q] = {},
         unacked' = [unacked EXCEPT ![r] = @ \ {m}]
  PROVE  HandedOut' = HandedOut \ {m}
PROOF
<1>1. \A p \in Replicas : p # r => unacked'[p] = unacked[p]
  OBVIOUS
<1>2. unacked'[r] = unacked[r] \ {m}
  OBVIOUS
<1>3. \A p \in Replicas : p # r => m \notin unacked[p]
  OBVIOUS
<1>4. \A x : x \in HandedOut' <=> \E p \in Replicas : x \in unacked'[p]
  BY DEF HandedOut
<1>5. \A x : x \in HandedOut <=> \E p \in Replicas : x \in unacked[p]
  BY DEF HandedOut
<1>6. \A x : x \in HandedOut' <=> x \in HandedOut /\ x # m
  BY <1>1, <1>2, <1>3, <1>4, <1>5
<1> QED BY <1>6

\* A delivery adds the message to those handed out.
LEMMA HandedOutAfterDelivery ==
  ASSUME NEW r \in Replicas, NEW m \in Messages,
         unacked \in [Replicas -> SUBSET Messages],
         unacked' = [unacked EXCEPT ![r] = @ \cup {m}]
  PROVE  HandedOut' = HandedOut \cup {m}
PROOF BY DEF HandedOut

\* A requeue takes exactly the unsettled messages of its replica out of those
\* handed out.
LEMMA HandedOutAfterRequeue ==
  ASSUME NEW r \in Replicas,
         unacked \in [Replicas -> SUBSET Messages],
         \A p, q \in Replicas : p # q => unacked[p] \cap unacked[q] = {},
         unacked' = [unacked EXCEPT ![r] = {}]
  PROVE  HandedOut' = HandedOut \ unacked[r]
PROOF
<1>1. \A p \in Replicas : p # r => unacked'[p] = unacked[p]
  OBVIOUS
<1>2. unacked'[r] = {}
  OBVIOUS
<1>3. \A p \in Replicas : p # r => unacked[p] \cap unacked[r] = {}
  OBVIOUS
<1>4. \A x : x \in HandedOut' <=> \E p \in Replicas : x \in unacked'[p]
  BY DEF HandedOut
<1>5. \A x : x \in HandedOut <=> \E p \in Replicas : x \in unacked[p]
  BY DEF HandedOut
<1>6. \A x : x \in HandedOut' <=> x \in HandedOut /\ x \notin unacked[r]
  BY <1>1, <1>2, <1>3, <1>4, <1>5
<1> QED BY <1>6

-----------------------------------------------------------------------------
(* Inv is inductive *)

\* Giving one task a new record changes that task and no other.
LEMMA TaskUpdated ==
  ASSUME NEW r \in Replicas, NEW m \in Messages, NEW t \in Task,
         task \in [Replicas -> [Messages -> Task]],
         task' = [task EXCEPT ![r][m] = t]
  PROVE  /\ task' \in [Replicas -> [Messages -> Task]]
         /\ task'[r][m] = t
         /\ \A q \in Replicas, k \in Messages : q # r \/ k # m => task'[q][k] = task[q][k]
PROOF
<1>1. task'[r] = [task[r] EXCEPT ![m] = t]
  OBVIOUS
<1>2. \A q \in Replicas : q # r => task'[q] = task[q]
  OBVIOUS
<1>3. task'[r] \in [Messages -> Task]
  BY <1>1
<1>4. task' \in [Replicas -> [Messages -> Task]]
  BY <1>2, <1>3
<1> QED BY <1>1, <1>2, <1>4

LEMMA InitInv == Init => Inv
PROOF
<1> SUFFICES ASSUME Init PROVE Inv
  OBVIOUS
<1> USE DeliveryAssumption DEF Init
<1>1. TypeOK
  BY DEF TypeOK, Task, NoTask, Stages
<1>2. HandedOut = {} /\ dlq = {}
  BY DEF HandedOut
<1>3. Conserved
  BY <1>2 DEF Conserved
<1>4. TasksMatchDeliveries
  BY DEF TasksMatchDeliveries, Busy, NoTask
<1>5. TasksHaveCause
  BY DEF TasksHaveCause, Busy, NoTask
<1>6. HandOutsPaid
  BY DEF HandOutsPaid
<1> QED BY <1>1, <1>3, <1>4, <1>5, <1>6 DEF Inv

LEMMA NextInv == Inv /\ [Next]_vars => Inv'
PROOF
<1> SUFFICES ASSUME Inv, [Next]_vars PROVE Inv'
  OBVIOUS
<1> USE DeliveryAssumption
<1> USE DEF Inv
<1>1. ASSUME NEW m \in Messages, Publish(m) PROVE Inv'
  <2> USE <1>1 DEF Publish, history
  <2>1. HandedOut' = HandedOut /\ dlq' = dlq
    BY DEF HandedOut
  <2>2. TypeOK'
    BY DEF TypeOK
  <2>3. Conserved'
    BY <2>1 DEF TypeOK, Conserved
  <2>4. TasksMatchDeliveries'
    BY DEF TasksMatchDeliveries, Busy
  <2>5. TasksHaveCause'
    BY DEF TasksHaveCause, Busy
  <2>6. HandOutsPaid'
    BY DEF TypeOK, HandOutsPaid
  <2> QED BY <2>2, <2>3, <2>4, <2>5, <2>6
<1>2. ASSUME NEW r \in Replicas, NEW m \in Messages, Deliver(r, m) PROVE Inv'
  <2> USE <1>2 DEF Deliver
  <2>1. HandedOut' = HandedOut \cup {m}
    BY HandedOutAfterDelivery DEF TypeOK
  <2>2. dlq' = dlq
    OBVIOUS
  <2>3. m \notin HandedOut /\ m \notin unsent
    BY DEF Conserved
  <2>4. /\ task'[r][m] = FirstAttempt
         /\ \A q \in Replicas, n \in Messages : q # r \/ n # m => task'[q][n] = task[q][n]
    BY DEF TypeOK
  <2>5. TypeOK'
    BY DEF TypeOK, Task, Stages, FirstAttempt
  <2>6. Conserved'
    BY <2>1, <2>2, <2>3 DEF TypeOK, Conserved, HandedOut
  <2>7. TasksMatchDeliveries'
    BY <2>4 DEF TypeOK, TasksMatchDeliveries, Busy, FirstAttempt
  <2>8. TasksHaveCause'
    BY <2>3, <2>4 DEF TypeOK, TasksHaveCause, Busy, FirstAttempt
  <2>9. HandOutsPaid'
    BY <2>3 DEF TypeOK, HandOutsPaid
  <2> QED BY <2>5, <2>6, <2>7, <2>8, <2>9
<1>3. ASSUME NEW r \in Replicas, NEW m \in Messages, HandlerSucceeds(r, m) PROVE Inv'
  <2> USE <1>3 DEF HandlerSucceeds, broker
  <2> DEFINE t == [stage |-> "acking", failures |-> task[r][m].failures]
  <2>1. task[r][m] \in Task /\ t \in Task
    BY DEF TypeOK, Task, Stages, TasksHaveCause
  <2>2. task' = [task EXCEPT ![r][m] = t]
    BY <2>1 DEF TypeOK
  <2> HIDE DEF t
  <2>3. /\ task' \in [Replicas -> [Messages -> Task]]
        /\ task'[r][m] = t
        /\ \A q \in Replicas, k \in Messages : q # r \/ k # m => task'[q][k] = task[q][k]
    BY <2>1, <2>2, TaskUpdated DEF TypeOK
  <2> USE DEF t
  <2>4. HandedOut' = HandedOut /\ dlq' = dlq
    BY DEF HandedOut
  <2>5. Busy(r, m) /\ t.stage # "none"
    BY <2>1 DEF Busy, Task
  <2>6. TypeOK'
    BY <2>3 DEF TypeOK
  <2>7. Conserved'
    BY <2>4 DEF Conserved
  <2>8. TasksMatchDeliveries'
    BY <2>3, <2>5 DEF TasksMatchDeliveries, Busy
  <2>9. TasksHaveCause'
    <3>1. /\ t.stage \in {"running", "waiting"} => t.failures <= MaxRetries
          /\ t.stage = "acking" => m \in done'
          /\ t.stage = "rejecting" => m \in exhausted'
      BY <2>1 DEF Task, TasksHaveCause
    <3>2. done \subseteq done' /\ exhausted \subseteq exhausted' /\ unsent' = unsent
      OBVIOUS
    <3> HIDE DEF t
    <3> QED BY <2>3, <2>5, <3>1, <3>2 DEF TasksHaveCause, Busy
  <2>10. HandOutsPaid'
    BY DEF HandOutsPaid
  <2> QED BY <2>6, <2>7, <2>8, <2>9, <2>10
<1>4. ASSUME NEW r \in Replicas, NEW m \in Messages, HandlerFails(r, m) PROVE Inv'
  <2> USE <1>4 DEF HandlerFails, broker
  <2> DEFINE t == [stage |-> IF task[r][m].failures + 1 > MaxRetries THEN "rejecting" ELSE "waiting",
                     failures |-> task[r][m].failures + 1]
  <2>1. task[r][m] \in Task /\ t \in Task
    BY DEF TypeOK, Task, Stages, TasksHaveCause
  <2>2. task' = [task EXCEPT ![r][m] = t]
    BY <2>1 DEF TypeOK
  <2> HIDE DEF t
  <2>3. /\ task' \in [Replicas -> [Messages -> Task]]
        /\ task'[r][m] = t
        /\ \A q \in Replicas, k \in Messages : q # r \/ k # m => task'[q][k] = task[q][k]
    BY <2>1, <2>2, TaskUpdated DEF TypeOK
  <2> USE DEF t
  <2>4. HandedOut' = HandedOut /\ dlq' = dlq
    BY DEF HandedOut
  <2>5. Busy(r, m) /\ t.stage # "none"
    BY <2>1 DEF Busy, Task
  <2>6. TypeOK'
    BY <2>3 DEF TypeOK
  <2>7. Conserved'
    BY <2>4 DEF Conserved
  <2>8. TasksMatchDeliveries'
    BY <2>3, <2>5 DEF TasksMatchDeliveries, Busy
  <2>9. TasksHaveCause'
    <3>1. /\ t.stage \in {"running", "waiting"} => t.failures <= MaxRetries
          /\ t.stage = "acking" => m \in done'
          /\ t.stage = "rejecting" => m \in exhausted'
      BY <2>1 DEF Task, TasksHaveCause
    <3>2. done \subseteq done' /\ exhausted \subseteq exhausted' /\ unsent' = unsent
      OBVIOUS
    <3> HIDE DEF t
    <3> QED BY <2>3, <2>5, <3>1, <3>2 DEF TasksHaveCause, Busy
  <2>10. HandOutsPaid'
    BY DEF HandOutsPaid
  <2> QED BY <2>6, <2>7, <2>8, <2>9, <2>10
<1>5. ASSUME NEW r \in Replicas, NEW m \in Messages, BackoffElapsed(r, m) PROVE Inv'
  <2> USE <1>5 DEF BackoffElapsed, broker
  <2> DEFINE t == [stage |-> "running", failures |-> task[r][m].failures]
  <2>1. task[r][m] \in Task /\ t \in Task
    BY DEF TypeOK, Task, Stages, TasksHaveCause
  <2>2. task' = [task EXCEPT ![r][m] = t]
    BY <2>1 DEF TypeOK
  <2> HIDE DEF t
  <2>3. /\ task' \in [Replicas -> [Messages -> Task]]
        /\ task'[r][m] = t
        /\ \A q \in Replicas, k \in Messages : q # r \/ k # m => task'[q][k] = task[q][k]
    BY <2>1, <2>2, TaskUpdated DEF TypeOK
  <2> USE DEF t
  <2>4. HandedOut' = HandedOut /\ dlq' = dlq
    BY DEF HandedOut
  <2>5. Busy(r, m) /\ t.stage # "none"
    BY <2>1 DEF Busy, Task
  <2>6. TypeOK'
    BY <2>3 DEF TypeOK
  <2>7. Conserved'
    BY <2>4 DEF Conserved
  <2>8. TasksMatchDeliveries'
    BY <2>3, <2>5 DEF TasksMatchDeliveries, Busy
  <2>9. TasksHaveCause'
    <3>1. /\ t.stage \in {"running", "waiting"} => t.failures <= MaxRetries
          /\ t.stage = "acking" => m \in done'
          /\ t.stage = "rejecting" => m \in exhausted'
      BY <2>1 DEF Task, TasksHaveCause
    <3>2. done \subseteq done' /\ exhausted \subseteq exhausted' /\ unsent' = unsent
      OBVIOUS
    <3> HIDE DEF t
    <3> QED BY <2>3, <2>5, <3>1, <3>2 DEF TasksHaveCause, Busy
  <2>10. HandOutsPaid'
    BY DEF HandOutsPaid
  <2> QED BY <2>6, <2>7, <2>8, <2>9, <2>10
<1>6. ASSUME NEW r \in Replicas, NEW m \in Messages, Ack(r, m) PROVE Inv'
  <2> USE <1>6 DEF Ack, history
  <2> NoTask \in Task
    BY DEF NoTask, Task, Stages
  <2>1. /\ task' \in [Replicas -> [Messages -> Task]]
        /\ task'[r][m] = NoTask
        /\ \A q \in Replicas, k \in Messages : q # r \/ k # m => task'[q][k] = task[q][k]
    BY TaskUpdated DEF TypeOK
  <2>2. Busy(r, m)
    BY DEF Busy
  <2>3. TypeOK'
    <3>1. unacked' \in [Replicas -> SUBSET Messages]
      BY DEF TypeOK
    <3>3. dlq' \in SUBSET Messages
      BY DEF TypeOK
    <3>4. acked' \in SUBSET Messages
      BY DEF TypeOK
    <3> QED BY <2>1, <3>1, <3>3, <3>4 DEF TypeOK
  <2>4. TasksHaveCause'
    BY <2>1 DEF TasksHaveCause, Busy, NoTask
  <2>5. HandOutsPaid'
    BY DEF HandOutsPaid
  <2>6. CASE channel[r] = "open"
    <3>1. m \in unacked[r]
      BY <2>2, <2>6 DEF TasksMatchDeliveries
    <3>2. \A p, q \in Replicas : p # q => unacked[p] \cap unacked[q] = {}
      BY DEF Conserved
    <3>3. HandedOut' = HandedOut \ {m}
      BY <2>6, <3>1, <3>2, HandedOutAfterSettling DEF TypeOK
    <3>4. acked' = acked \cup {m} /\ dlq' = dlq
      BY <2>6
    <3>5. m \in HandedOut
      BY <3>1 DEF HandedOut
    <3>6. Conserved'
      BY <2>6, <3>3, <3>4, <3>5 DEF TypeOK, Conserved
    <3>7. TasksMatchDeliveries'
      BY <2>1, <2>6, <3>1, <3>2 DEF TypeOK, TasksMatchDeliveries, Busy, NoTask
    <3> QED BY <2>3, <2>4, <2>5, <3>6, <3>7
  <2>7. CASE channel[r] # "open"
    <3>1. HandedOut' = HandedOut /\ dlq' = dlq /\ acked' = acked
      BY <2>7 DEF HandedOut
    <3>2. Conserved'
      BY <2>7, <3>1 DEF Conserved
    <3>3. TasksMatchDeliveries'
      BY <2>1, <2>7 DEF TasksMatchDeliveries, Busy, NoTask
    <3> QED BY <2>3, <2>4, <2>5, <3>2, <3>3
  <2> QED BY <2>6, <2>7
<1>7. ASSUME NEW r \in Replicas, NEW m \in Messages, Reject(r, m) PROVE Inv'
  <2> USE <1>7 DEF Reject, history
  <2> NoTask \in Task
    BY DEF NoTask, Task, Stages
  <2>1. /\ task' \in [Replicas -> [Messages -> Task]]
        /\ task'[r][m] = NoTask
        /\ \A q \in Replicas, k \in Messages : q # r \/ k # m => task'[q][k] = task[q][k]
    BY TaskUpdated DEF TypeOK
  <2>2. Busy(r, m)
    BY DEF Busy
  <2>3. TypeOK'
    <3>1. unacked' \in [Replicas -> SUBSET Messages]
      BY DEF TypeOK
    <3>3. dlq' \in SUBSET Messages
      BY DEF TypeOK
    <3>4. acked' \in SUBSET Messages
      BY DEF TypeOK
    <3> QED BY <2>1, <3>1, <3>3, <3>4 DEF TypeOK
  <2>4. TasksHaveCause'
    BY <2>1 DEF TasksHaveCause, Busy, NoTask
  <2>5. HandOutsPaid'
    BY DEF HandOutsPaid
  <2>6. CASE channel[r] = "open"
    <3>1. m \in unacked[r]
      BY <2>2, <2>6 DEF TasksMatchDeliveries
    <3>2. \A p, q \in Replicas : p # q => unacked[p] \cap unacked[q] = {}
      BY DEF Conserved
    <3>3. HandedOut' = HandedOut \ {m}
      BY <2>6, <3>1, <3>2, HandedOutAfterSettling DEF TypeOK
    <3>4. acked' = acked /\ dlq' = dlq \cup {m}
      BY <2>6
    <3>5. m \in HandedOut
      BY <3>1 DEF HandedOut
    <3>6. Conserved'
      BY <2>6, <3>3, <3>4, <3>5 DEF TypeOK, Conserved
    <3>7. TasksMatchDeliveries'
      BY <2>1, <2>6, <3>1, <3>2 DEF TypeOK, TasksMatchDeliveries, Busy, NoTask
    <3> QED BY <2>3, <2>4, <2>5, <3>6, <3>7
  <2>7. CASE channel[r] # "open"
    <3>1. HandedOut' = HandedOut /\ dlq' = dlq /\ acked' = acked
      BY <2>7 DEF HandedOut
    <3>2. Conserved'
      BY <2>7, <3>1 DEF Conserved
    <3>3. TasksMatchDeliveries'
      BY <2>1, <2>7 DEF TasksMatchDeliveries, Busy, NoTask
    <3> QED BY <2>3, <2>4, <2>5, <3>2, <3>3
  <2> QED BY <2>6, <2>7
<1>8. ASSUME NEW r \in Replicas, CloseChannel(r) PROVE Inv'
  <2> USE <1>8 DEF CloseChannel, history
  <2>1. \A p, q \in Replicas : p # q => unacked[p] \cap unacked[q] = {}
    BY DEF Conserved
  <2>2. HandedOut' = HandedOut \ unacked[r] /\ dlq' = dlq
    BY <2>1, HandedOutAfterRequeue DEF TypeOK
  <2>3. unacked[r] \subseteq HandedOut
    BY DEF HandedOut
  <2>4. /\ unacked'[r] = {} /\ ready' = ready \cup unacked[r]
         /\ \A q \in Replicas : q # r => unacked'[q] = unacked[q]
    BY DEF TypeOK
  <2>5. TypeOK'
    BY DEF TypeOK
  <2>6. Conserved'
    BY <2>1, <2>2, <2>3, <2>4 DEF TypeOK, Conserved
  <2>7. TasksMatchDeliveries'
    BY <2>4 DEF TypeOK, TasksMatchDeliveries, Busy
  <2>8. TasksHaveCause'
    BY DEF TasksHaveCause, Busy
  <2>9. HandOutsPaid'
    BY DEF TypeOK, HandOutsPaid
  <2> QED BY <2>5, <2>6, <2>7, <2>8, <2>9
<1>9. ASSUME NEW r \in Replicas, Crash(r) PROVE Inv'
  <2> USE <1>9 DEF Crash, history
  <2>1. \A p, q \in Replicas : p # q => unacked[p] \cap unacked[q] = {}
    BY DEF Conserved
  <2>2. HandedOut' = HandedOut \ unacked[r] /\ dlq' = dlq
    BY <2>1, HandedOutAfterRequeue DEF TypeOK
  <2>3. unacked[r] \subseteq HandedOut
    BY DEF HandedOut
  <2>4. /\ unacked'[r] = {} /\ ready' = ready \cup unacked[r]
         /\ \A q \in Replicas : q # r => unacked'[q] = unacked[q]
    BY DEF TypeOK
  <2>5. TypeOK'
    BY DEF TypeOK, Task, Stages, NoTask
  <2>6. Conserved'
    BY <2>1, <2>2, <2>3, <2>4 DEF TypeOK, Conserved
  <2>7. TasksMatchDeliveries'
    BY <2>4 DEF TypeOK, TasksMatchDeliveries, Busy, NoTask
  <2>8. TasksHaveCause'
    BY DEF TypeOK, TasksHaveCause, Busy, NoTask
  <2>9. HandOutsPaid'
    BY DEF TypeOK, HandOutsPaid
  <2> QED BY <2>5, <2>6, <2>7, <2>8, <2>9
<1>10. ASSUME NEW r \in Replicas, Restart(r) PROVE Inv'
  <2> USE <1>10 DEF Restart, broker, history
  <2>1. HandedOut' = HandedOut /\ dlq' = dlq
    BY DEF HandedOut
  <2>2. TypeOK'
    BY DEF TypeOK
  <2>3. Conserved'
    BY <2>1 DEF Conserved
  <2>4. TasksMatchDeliveries'
    BY DEF TypeOK, TasksMatchDeliveries, Busy
  <2>5. TasksHaveCause'
    BY DEF TasksHaveCause, Busy
  <2>6. HandOutsPaid'
    BY DEF HandOutsPaid
  <2> QED BY <2>2, <2>3, <2>4, <2>5, <2>6
<1>11. CASE UNCHANGED vars
  <2> USE <1>11 DEF vars, broker, history
  <2>1. HandedOut' = HandedOut /\ dlq' = dlq
    BY DEF HandedOut
  <2>2. TypeOK' /\ TasksMatchDeliveries' /\ TasksHaveCause' /\ HandOutsPaid'
    BY DEF TypeOK, TasksMatchDeliveries, TasksHaveCause, HandOutsPaid, Busy
  <2>3. Conserved'
    BY <2>1 DEF Conserved
  <2> QED BY <2>2, <2>3
<1> QED BY <1>1, <1>2, <1>3, <1>4, <1>5, <1>6, <1>7, <1>8, <1>9, <1>10, <1>11
        DEF Next, Step, HandlerReturns, Fault

-----------------------------------------------------------------------------
(* The invariants *)

\* Inv holds in every reachable state.
THEOREM Invariance == Spec => []Inv
PROOF
<1>1. Init => Inv
  BY InitInv
<1>2. Inv /\ [Next]_vars => Inv'
  BY NextInv
<1> QED BY <1>1, <1>2, PTL DEF Spec

\* Every variable keeps its type; no delivery fails more than MaxRetries + 1
\* attempts of ConsumeMessages' handler.
THEOREM TypeCorrect == Spec => []TypeOK
PROOF
<1>1. Inv => TypeOK
  BY DEF Inv
<1> QED BY <1>1, Invariance, PTL

\* The broker has every message in exactly one place, for any number of
\* replicas, messages and faults.
THEOREM MessagesConserved == Spec => []Conserved
PROOF
<1>1. Inv => Conserved
  BY DEF Inv
<1> QED BY <1>1, Invariance, PTL

\* The goroutines of a replica with an open channel are exactly those of the
\* deliveries it has not settled.
THEOREM TasksAreDeliveries == Spec => []TasksMatchDeliveries
PROOF
<1>1. Inv => TasksMatchDeliveries
  BY DEF Inv
<1> QED BY <1>1, Invariance, PTL

\* A message is handed out at most once more than there were crashes and lost
\* channels.
THEOREM RedeliveriesBounded == Spec => []RedeliveredOnlyByFaults
PROOF
<1>1. Inv => RedeliveredOnlyByFaults
  BY DEF Inv, HandOutsPaid, RedeliveredOnlyByFaults
<1> QED BY <1>1, Invariance, PTL

-----------------------------------------------------------------------------
(* How often a handler is called *)

\* Attempt k of the task of r is still to come: it runs attempt failures, or waits
\* for it.
IsToCome(r, m, k) ==
  \/ task[r][m].stage = "running" /\ k > task[r][m].failures
  \/ task[r][m].stage = "waiting" /\ k >= task[r][m].failures

\* The attempts that may still be made for m, by all the replicas that work on it.
ToCome(m) == {a \in Replicas \X (0 .. MaxRetries) : IsToCome(a[1], m, a[2])}

\* Every call of a handler, made or to come, is paid for by a delivery.
RunsPaid == \A m \in Messages :
  /\ IsFiniteSet(ToCome(m))
  /\ runs[m] + Cardinality(ToCome(m)) <= (MaxRetries + 1) * deliveries[m]

\* A step that calls no handler and adds no attempts leaves a message paid for.
LEMMA NoMoreToCome ==
  ASSUME Inv, RunsPaid, NEW m \in Messages,
         \A r \in Replicas, k \in 0 .. MaxRetries : IsToCome(r, m, k)' => IsToCome(r, m, k),
         runs'[m] = runs[m], deliveries'[m] = deliveries[m]
  PROVE  /\ IsFiniteSet(ToCome(m)')
         /\ runs'[m] + Cardinality(ToCome(m)') <= (MaxRetries + 1) * deliveries'[m]
PROOF
<1>1. ToCome(m)' \subseteq ToCome(m)
  BY DEF ToCome
<1>2. IsFiniteSet(ToCome(m)') /\ Cardinality(ToCome(m)') <= Cardinality(ToCome(m))
  BY <1>1, FS_Subset DEF RunsPaid
<1>3. Cardinality(ToCome(m)') \in Nat /\ Cardinality(ToCome(m)) \in Nat
  BY <1>2, FS_CardinalityType DEF RunsPaid
<1> DEFINE bound == (MaxRetries + 1) * deliveries[m]
<1>4. runs[m] + Cardinality(ToCome(m)) <= bound
  BY DEF RunsPaid
<1>5. bound \in Nat /\ bound' = bound /\ runs[m] \in Nat
  BY DeliveryAssumption DEF Inv, TypeOK
<1> HIDE DEF bound
<1>6. runs'[m] + Cardinality(ToCome(m)') <= bound'
  BY <1>2, <1>3, <1>4, <1>5
<1> QED BY <1>2, <1>6 DEF bound

\* Delivering m brings the first call and the MaxRetries that may follow it.
LEMMA DeliverRunsPaid ==
  ASSUME Inv, RunsPaid, NEW r \in Replicas, NEW m \in Messages, Deliver(r, m)
  PROVE  RunsPaid'
PROOF
<1> USE DeliveryAssumption DEF Inv
<1>1. /\ task' = [task EXCEPT ![r][m] = FirstAttempt]
      /\ deliveries' = [deliveries EXCEPT ![m] = @ + 1]
      /\ runs' = [runs EXCEPT ![m] = @ + 1]
  BY DEF Deliver
<1>2. /\ task'[r][m] = FirstAttempt
      /\ \A q \in Replicas, n \in Messages : q # r \/ n # m => task'[q][n] = task[q][n]
  BY <1>1 DEF TypeOK
<1>3. SUFFICES /\ IsFiniteSet(ToCome(m)')
               /\ runs'[m] + Cardinality(ToCome(m)') <= (MaxRetries + 1) * deliveries'[m]
  <2>1. ASSUME NEW n \in Messages, n # m
        PROVE  /\ IsFiniteSet(ToCome(n)')
               /\ runs'[n] + Cardinality(ToCome(n)') <= (MaxRetries + 1) * deliveries'[n]
    <3>1. \A q \in Replicas, k \in 0 .. MaxRetries : IsToCome(q, n, k)' => IsToCome(q, n, k)
      BY <1>2, <2>1 DEF IsToCome
    <3>2. runs'[n] = runs[n] /\ deliveries'[n] = deliveries[n]
      BY <1>1, <2>1 DEF TypeOK
    <3> QED BY <3>1, <3>2, NoMoreToCome
  <2> QED BY <2>1 DEF RunsPaid
<1> DEFINE more == {r} \X (1 .. MaxRetries)
<1>4. ToCome(m)' \subseteq ToCome(m) \cup more
  <2> SUFFICES ASSUME NEW q \in Replicas, NEW k \in 0 .. MaxRetries, IsToCome(q, m, k)'
               PROVE  <<q, k>> \in ToCome(m) \cup more
    BY DEF ToCome
  <2>1. CASE q = r
    BY <1>2, <2>1 DEF IsToCome, FirstAttempt
  <2>2. CASE q # r
    BY <1>2, <2>2 DEF IsToCome, ToCome
  <2> QED BY <2>1, <2>2
<1>5. IsFiniteSet(more) /\ Cardinality(more) = MaxRetries
  <2>1. IsFiniteSet(1 .. MaxRetries) /\ Cardinality(1 .. MaxRetries) = MaxRetries
    BY FS_Interval
  <2>2. IsFiniteSet({r}) /\ Cardinality({r}) = 1
    BY FS_Singleton
  <2> QED BY <2>1, <2>2, FS_Product
<1> HIDE DEF more
<1>6. IsFiniteSet(ToCome(m)) /\ Cardinality(ToCome(m)) \in Nat
  BY FS_CardinalityType DEF RunsPaid
<1>7. /\ IsFiniteSet(ToCome(m) \cup more)
      /\ Cardinality(ToCome(m) \cup more) <= Cardinality(ToCome(m)) + MaxRetries
  <2>1. /\ IsFiniteSet(ToCome(m) \cup more)
        /\ Cardinality(ToCome(m) \cup more) =
             Cardinality(ToCome(m)) + Cardinality(more) - Cardinality(ToCome(m) \cap more)
    BY <1>5, <1>6, FS_Union
  <2>2. Cardinality(ToCome(m) \cap more) \in Nat
    BY <1>6, FS_Intersection, FS_CardinalityType
  <2> QED BY <1>5, <1>6, <2>1, <2>2
<1>8. /\ IsFiniteSet(ToCome(m)') /\ Cardinality(ToCome(m)') \in Nat
      /\ Cardinality(ToCome(m)') <= Cardinality(ToCome(m)) + MaxRetries
  <2>1. IsFiniteSet(ToCome(m)') /\ Cardinality(ToCome(m)') <= Cardinality(ToCome(m) \cup more)
    BY <1>4, <1>7, FS_Subset
  <2> QED BY <1>6, <1>7, <2>1, FS_CardinalityType
<1>9. /\ runs[m] \in Nat /\ deliveries[m] \in Nat
      /\ runs'[m] = runs[m] + 1 /\ deliveries'[m] = deliveries[m] + 1
  BY <1>1 DEF TypeOK
<1>10. runs[m] + Cardinality(ToCome(m)) <= (MaxRetries + 1) * deliveries[m]
  BY DEF RunsPaid
<1>11. (MaxRetries + 1) * (deliveries[m] + 1) = (MaxRetries + 1) * deliveries[m] + MaxRetries + 1
       /\ (MaxRetries + 1) * deliveries[m] \in Nat
  BY <1>9
<1>12. runs'[m] + Cardinality(ToCome(m)') <= (MaxRetries + 1) * deliveries'[m]
  BY <1>6, <1>8, <1>9, <1>10, <1>11
<1> QED BY <1>8, <1>12

\* The wait for an attempt ends: it was to come, and is made.
LEMMA BackoffRunsPaid ==
  ASSUME Inv, RunsPaid, NEW r \in Replicas, NEW m \in Messages, BackoffElapsed(r, m)
  PROVE  RunsPaid'
PROOF
<1> USE DeliveryAssumption DEF Inv
<1> DEFINE k == task[r][m].failures
           t == [stage |-> "running", failures |-> k]
<1>1. /\ task' = [task EXCEPT ![r][m] = t] /\ task[r][m].stage = "waiting"
      /\ deliveries' = deliveries /\ runs' = [runs EXCEPT ![m] = @ + 1]
  BY DEF BackoffElapsed, TypeOK
<1>2. /\ task'[r][m].stage = "running" /\ task'[r][m].failures = k
      /\ \A q \in Replicas, n \in Messages : q # r \/ n # m => task'[q][n] = task[q][n]
  BY <1>1 DEF TypeOK
<1>3. k \in 0 .. MaxRetries
  BY <1>1 DEF TypeOK, Task, TasksHaveCause
<1> HIDE DEF k
<1>4. SUFFICES /\ IsFiniteSet(ToCome(m)')
               /\ runs'[m] + Cardinality(ToCome(m)') <= (MaxRetries + 1) * deliveries[m]
  <2>1. ASSUME NEW n \in Messages, n # m
        PROVE  /\ IsFiniteSet(ToCome(n)')
               /\ runs'[n] + Cardinality(ToCome(n)') <= (MaxRetries + 1) * deliveries'[n]
    <3>1. \A q \in Replicas, j \in 0 .. MaxRetries : IsToCome(q, n, j)' => IsToCome(q, n, j)
      BY <1>2, <2>1 DEF IsToCome
    <3>2. runs'[n] = runs[n] /\ deliveries'[n] = deliveries[n]
      BY <1>1, <2>1 DEF TypeOK
    <3> QED BY <3>1, <3>2, NoMoreToCome
  <2> QED BY <1>1, <2>1 DEF RunsPaid
<1>5. ToCome(m)' \subseteq ToCome(m) \ {<<r, k>>} /\ <<r, k>> \in ToCome(m)
  <2>1. ASSUME NEW q \in Replicas, NEW j \in 0 .. MaxRetries, IsToCome(q, m, j)'
        PROVE  <<q, j>> \in ToCome(m) \ {<<r, k>>}
    <3>1. CASE q = r
      BY <1>1, <1>2, <1>3, <2>1, <3>1 DEF IsToCome, ToCome, k
    <3>2. CASE q # r
      BY <1>2, <2>1, <3>2 DEF IsToCome, ToCome
    <3> QED BY <3>1, <3>2
  <2>2. IsToCome(r, m, k)
    BY <1>1, <1>3 DEF IsToCome, k
  <2> QED BY <1>3, <2>1, <2>2 DEF ToCome
<1>6. IsFiniteSet(ToCome(m)) /\ Cardinality(ToCome(m)) \in Nat
  BY FS_CardinalityType DEF RunsPaid
<1>7. /\ IsFiniteSet(ToCome(m) \ {<<r, k>>})
      /\ Cardinality(ToCome(m) \ {<<r, k>>}) = Cardinality(ToCome(m)) - 1
  BY <1>5, <1>6, FS_RemoveElement
<1>8. /\ IsFiniteSet(ToCome(m)') /\ Cardinality(ToCome(m)') \in Nat
      /\ Cardinality(ToCome(m)') <= Cardinality(ToCome(m)) - 1
  BY <1>5, <1>7, FS_Subset, FS_CardinalityType
<1>9. runs[m] \in Nat /\ deliveries[m] \in Nat /\ runs'[m] = runs[m] + 1
  BY <1>1 DEF TypeOK
<1> DEFINE bound == (MaxRetries + 1) * deliveries[m]
<1>10. runs[m] + Cardinality(ToCome(m)) <= bound /\ bound \in Nat
  BY <1>9 DEF RunsPaid
<1> HIDE DEF bound
<1>11. runs'[m] + Cardinality(ToCome(m)') <= bound
  BY <1>6, <1>8, <1>9, <1>10
<1> QED BY <1>8, <1>11 DEF bound

LEMMA NextRunsPaid == Inv /\ RunsPaid /\ [Next]_vars => RunsPaid'
PROOF
<1> SUFFICES ASSUME Inv, RunsPaid, [Next]_vars PROVE RunsPaid'
  OBVIOUS
<1> USE DEF Inv
<1>1. ASSUME UNCHANGED <<runs, deliveries>>,
             \A r \in Replicas, m \in Messages, k \in 0 .. MaxRetries :
               IsToCome(r, m, k)' => IsToCome(r, m, k)
      PROVE  RunsPaid'
  BY <1>1, NoMoreToCome DEF RunsPaid
<1>2. CASE UNCHANGED <<task, runs, deliveries>>
  BY <1>1, <1>2 DEF IsToCome
<1>3. ASSUME NEW r \in Replicas, NEW m \in Messages,
             HandlerReturns(r, m) \/ Ack(r, m) \/ Reject(r, m)
      PROVE  RunsPaid'
  <2>1. \A q \in Replicas, n \in Messages : q # r \/ n # m => task'[q][n] = task[q][n]
    BY <1>3 DEF HandlerReturns, HandlerSucceeds, HandlerFails, Ack, Reject, TypeOK
  <2>2. \A k \in 0 .. MaxRetries : IsToCome(r, m, k)' => IsToCome(r, m, k)
    <3>1. CASE HandlerFails(r, m)
      <4> DEFINE failures == task[r][m].failures + 1
      <4>1. /\ task[r][m].stage = "running"
            /\ task'[r][m] = [stage |-> IF failures > MaxRetries THEN "rejecting" ELSE "waiting",
                              failures |-> failures]
        BY <3>1 DEF HandlerFails, TypeOK
      <4>2. task[r][m].failures \in Nat
        BY DEF TypeOK, Task
      <4> QED BY <4>1, <4>2 DEF IsToCome
    <3>2. CASE HandlerSucceeds(r, m) \/ Ack(r, m) \/ Reject(r, m)
      <4>1. task'[r][m].stage \in {"acking", "none"}
        BY <3>2 DEF HandlerSucceeds, Ack, Reject, TypeOK, NoTask
      <4> QED BY <4>1 DEF IsToCome
    <3> QED BY <1>3, <3>1, <3>2 DEF HandlerReturns
  <2>3. \A q \in Replicas, n \in Messages, k \in 0 .. MaxRetries :
          IsToCome(q, n, k)' => IsToCome(q, n, k)
    BY <2>1, <2>2 DEF IsToCome
  <2>4. UNCHANGED <<runs, deliveries>>
    BY <1>3 DEF HandlerReturns, HandlerSucceeds, HandlerFails, Ack, Reject, history
  <2> QED BY <1>1, <2>3, <2>4
<1>4. ASSUME NEW r \in Replicas, Crash(r) PROVE RunsPaid'
  <2>1. \A q \in Replicas, m \in Messages :
          task'[q][m] = task[q][m] \/ task'[q][m].stage = "none"
    BY <1>4 DEF Crash, TypeOK, NoTask
  <2> QED BY <1>1, <1>4, <2>1 DEF Crash, history, IsToCome
<1>5. CASE \E m \in Messages : Publish(m)
  BY <1>2, <1>5 DEF Publish, history
<1>6. CASE \E r \in Replicas : CloseChannel(r) \/ Restart(r)
  BY <1>2, <1>6 DEF CloseChannel, Restart, history
<1>7. CASE UNCHANGED vars
  BY <1>2, <1>7 DEF vars, history
<1> QED BY <1>3, <1>4, <1>5, <1>6, <1>7, DeliverRunsPaid, BackoffRunsPaid
        DEF Next, Step, Fault

\* A handler is called at most MaxRetries + 1 times for each delivery of its
\* message, whichever replicas make the calls.
THEOREM CallsBounded == Spec => []RunsBounded
PROOF
<1>1. Init => RunsPaid
  <2> SUFFICES ASSUME Init, NEW m \in Messages
               PROVE  IsFiniteSet(ToCome(m)) /\
                      runs[m] + Cardinality(ToCome(m)) <= (MaxRetries + 1) * deliveries[m]
    BY DEF RunsPaid
  <2>1. ToCome(m) = {}
    BY DEF Init, ToCome, IsToCome, NoTask
  <2>2. runs[m] = 0 /\ deliveries[m] = 0 /\ (MaxRetries + 1) * 0 = 0
    BY DeliveryAssumption DEF Init
  <2> QED BY <2>1, <2>2, FS_EmptySet
<1>2. Inv /\ RunsPaid => RunsBounded
  <2> SUFFICES ASSUME Inv, RunsPaid, NEW m \in Messages
               PROVE  runs[m] <= (MaxRetries + 1) * deliveries[m]
    BY DEF RunsBounded
  <2>1. Cardinality(ToCome(m)) \in Nat
    BY FS_CardinalityType DEF RunsPaid
  <2>2. runs[m] + Cardinality(ToCome(m)) <= (MaxRetries + 1) * deliveries[m]
    BY DEF RunsPaid
  <2>3. runs[m] \in Nat /\ (MaxRetries + 1) * deliveries[m] \in Nat
    BY DeliveryAssumption DEF Inv, TypeOK
  <2> QED BY <2>1, <2>2, <2>3
<1>3. Inv /\ RunsPaid /\ [Next]_vars => RunsPaid'
  BY NextRunsPaid
<1> QED BY <1>1, <1>2, <1>3, Invariance, PTL DEF Spec

-----------------------------------------------------------------------------
(* Delivery implements Settlement *)

\* Under Inv the abstract status of a message is read off the one place the
\* message is in.
LEMMA StatusOfPlace ==
  ASSUME Conserved, NEW m \in Messages
  PROVE  /\ Status(m) = "unsent" <=> m \in unsent
         /\ Status(m) = "acked" <=> m \in acked
         /\ Status(m) = "dead" <=> m \in dlq
         /\ Status(m) = "pending" <=> m \in ready \cup HandedOut
PROOF BY DEF Conserved, Status

LEMMA InitImplements == Init => Abstract!Init
PROOF
<1> SUFFICES ASSUME Init PROVE Abstract!Init
  OBVIOUS
<1>1. \A m \in Messages : Status(m) = "unsent"
  BY InitInv, StatusOfPlace DEF Init, Inv
<1> QED BY <1>1 DEF Init, Abstract!Init

\* Every step of Delivery is a step of Settlement or leaves its variables alone:
\* Publish, HandlerSucceeds, the last HandlerFails, and Ack and Reject on an
\* open channel are the steps; the others stutter.
LEMMA NextImplements == Inv /\ [Next]_vars => [Abstract!Next]_(Abstract!vars)
PROOF
<1> SUFFICES ASSUME Inv, [Next]_vars PROVE [Abstract!Next]_(Abstract!vars)
  OBVIOUS
<1> Inv'
  BY NextInv
<1> Conserved /\ Conserved' /\ TypeOK
  BY DEF Inv
<1> USE DEF Abstract!vars, Abstract!Next
<1>1. ASSUME NEW m \in Messages, Publish(m)
      PROVE  Abstract!Publish(m)
  <2> USE <1>1 DEF Publish, history
  <2>1. dlq' = dlq
    OBVIOUS
  <2>2. \A n \in Messages : n # m => Status(n)' = Status(n)
    BY <2>1 DEF Status
  <2>3. Status(m) = "unsent"
    BY StatusOfPlace
  <2>4. Status(m)' = "pending"
    BY <2>1 DEF Status, Conserved
  <2> QED BY <2>2, <2>3, <2>4 DEF Abstract!Publish
<1>2. ASSUME NEW r \in Replicas, NEW m \in Messages, HandlerSucceeds(r, m)
      PROVE  Abstract!Complete(m)
  <2> USE <1>2 DEF HandlerSucceeds, broker
  <2>1. dlq' = dlq
    OBVIOUS
  <2>2. m \notin unsent
    BY DEF Inv, TasksHaveCause, Busy
  <2>3. Status(m) # "unsent"
    BY <2>2, StatusOfPlace
  <2>4. \A n \in Messages : Status(n)' = Status(n)
    BY <2>1 DEF Status
  <2> QED BY <2>3, <2>4 DEF Abstract!Complete
<1>3. ASSUME NEW r \in Replicas, NEW m \in Messages, HandlerFails(r, m)
      PROVE  Abstract!Exhaust(m) \/ UNCHANGED Abstract!vars
  <2> USE <1>3 DEF HandlerFails, broker
  <2>1. dlq' = dlq
    OBVIOUS
  <2>2. m \notin unsent
    BY DEF Inv, TasksHaveCause, Busy
  <2>3. Status(m) # "unsent"
    BY <2>2, StatusOfPlace
  <2>4. \A n \in Messages : Status(n)' = Status(n)
    BY <2>1 DEF Status
  <2> QED BY <2>3, <2>4 DEF Abstract!Exhaust
<1>4. ASSUME NEW r \in Replicas, NEW m \in Messages, Ack(r, m)
      PROVE  Abstract!Ack(m) \/ UNCHANGED Abstract!vars
  <2> USE <1>4 DEF Ack, history
  <2>1. dlq' = dlq
    OBVIOUS
  <2>2. CASE channel[r] = "open"
    <3>1. m \in HandedOut /\ m \in done
      BY <2>2 DEF Inv, TasksMatchDeliveries, TasksHaveCause, Busy, HandedOut
    <3>2. Status(m) = "pending"
      BY <3>1, StatusOfPlace
    <3>3. \A n \in Messages : n # m => Status(n)' = Status(n)
      BY <2>1, <2>2 DEF Status
    <3>4. Status(m)' = "acked"
      BY <2>1, <2>2, <3>1 DEF Status, Conserved
    <3> QED BY <3>1, <3>2, <3>3, <3>4 DEF Abstract!Ack
  <2>3. CASE channel[r] # "open"
    BY <2>1, <2>3 DEF Status
  <2> QED BY <2>2, <2>3
<1>5. ASSUME NEW r \in Replicas, NEW m \in Messages, Reject(r, m)
      PROVE  Abstract!DeadLetter(m) \/ UNCHANGED Abstract!vars
  <2> USE <1>5 DEF Reject, history
  <2>1. CASE channel[r] = "open"
    <3>1. m \in HandedOut /\ m \in exhausted
      BY <2>1 DEF Inv, TasksMatchDeliveries, TasksHaveCause, Busy, HandedOut
    <3>2. dlq' = dlq \cup {m}
      BY <2>1
    <3>3. Status(m) = "pending"
      BY <3>1, StatusOfPlace
    <3>4. \A n \in Messages : n # m => Status(n)' = Status(n)
      BY <3>2 DEF Status
    <3>5. Status(m)' = "dead"
      BY <3>1, <3>2 DEF Status, Conserved
    <3> QED BY <3>1, <3>3, <3>4, <3>5 DEF Abstract!DeadLetter
  <2>2. CASE channel[r] # "open"
    <3>1. dlq' = dlq
      BY <2>2
    <3> QED BY <2>2, <3>1 DEF Status
  <2> QED BY <2>1, <2>2
<1>6. ASSUME unsent' = unsent, acked' = acked, dlq' = dlq,
             done' = done, exhausted' = exhausted
      PROVE  UNCHANGED Abstract!vars
  <2>1. dlq' = dlq
    BY <1>6
  <2> QED BY <1>6, <2>1 DEF Status
<1>7. ASSUME NEW r \in Replicas, NEW m \in Messages,
             Deliver(r, m) \/ BackoffElapsed(r, m)
      PROVE  UNCHANGED Abstract!vars
  BY <1>6, <1>7 DEF Deliver, BackoffElapsed, broker
<1>8. ASSUME NEW r \in Replicas, Fault(r) \/ Restart(r)
      PROVE  UNCHANGED Abstract!vars
  BY <1>6, <1>8 DEF Fault, CloseChannel, Crash, Restart, broker, history
<1>9. CASE UNCHANGED vars
  BY <1>6, <1>9 DEF vars, broker, history
<1> HIDE DEF Abstract!vars
<1> QED BY <1>1, <1>2, <1>3, <1>4, <1>5, <1>7, <1>8, <1>9
        DEF Next, Step, HandlerReturns

\* Delivery implements Settlement: a message is settled at most once, and for a
\* cause, whatever crashes or is cut off.
THEOREM ImplementsSettlement == Spec => SettlesOnceForCause
PROOF
<1>1. Init => Abstract!Init
  BY InitImplements
<1>2. Inv /\ [Next]_vars => [Abstract!Next]_(Abstract!vars)
  BY NextImplements
<1> QED BY <1>1, <1>2, Invariance, PTL DEF Spec, SettlesOnceForCause, Abstract!Spec

=============================================================================

------------------------------ MODULE Delivery ------------------------------
(***************************************************************************)
(* One queue of RideSync's TripExchange and the replicas of the service    *)
(* that consumes it: RabbitMQ.PublishMessage, RabbitMQ.ConsumeMessages and *)
(* retry.WithBackoff.                                                      *)
(*                                                                         *)
(* The broker keeps a message until a consumer settles it.  A replica is   *)
(* given at most Prefetch unsettled messages and works on each of them in  *)
(* a goroutine of its own, its task: it runs the handler up to             *)
(* MaxRetries + 1 times with a wait between two runs, then acknowledges    *)
(* the message or rejects it to the dead letter queue.                     *)
(*                                                                         *)
(* Two kinds of failure are told apart.  A replica may crash, which ends   *)
(* its tasks, and is then restarted.  Or it may lose its broker channel    *)
(* and live on: nothing in the code reconnects, its tasks run to their end *)
(* without being able to settle anything, and it consumes nothing more.    *)
(* Either way the broker hands the unsettled messages to other replicas.   *)
(*                                                                         *)
(* The order of the queue is left out: the goroutine per message gives it  *)
(* up as soon as two messages are delivered.  Handlers are opaque here and *)
(* may fail at will; TripFlow opens them.                                  *)
(***************************************************************************)
EXTENDS Naturals, FiniteSets

CONSTANTS
  Messages,    \* the messages published to the queue
  Replicas,    \* the processes of the consuming service
  Prefetch,    \* unsettled messages a replica may hold (100 in the code)
  MaxRetries,  \* retry.DefaultConfig().MaxRetries (3 in the code)
  MaxFaults    \* bound: crashes and channel losses together

ASSUME DeliveryAssumption ==
  /\ Prefetch \in Nat \ {0}
  /\ MaxRetries \in Nat
  /\ MaxFaults \in Nat

VARIABLES
  unsent,      \* messages not published yet
  ready,       \* broker: messages waiting for a consumer
  unacked,     \* broker: unacked[r], delivered to r and not settled
  acked,       \* broker: acknowledged, hence discarded
  dlq,         \* broker: the messages in the dead letter queue
  channel,     \* channel[r]: the state of replica r and its broker channel
  task,        \* task[r][m]: the goroutine working on m in replica r
  done,        \* history: messages whose handler has returned nil
  exhausted,   \* history: messages a delivery of which ran out of attempts
  deliveries,  \* history: deliveries[m], how often m was handed out
  runs,        \* history: runs[m], how often the handler was called for m
  faults       \* crashes and channel losses so far

broker == <<unsent, ready, unacked, acked, dlq>>
history == <<done, exhausted, deliveries, runs>>
vars == <<broker, channel, task, history, faults>>

-----------------------------------------------------------------------------
(* Tasks and letters *)

Stages == {"none", "running", "waiting", "acking", "rejecting"}

\* failures: how many attempts of this delivery have returned an error.
Task == [stage : Stages, failures : 0 .. MaxRetries + 1]

NoTask == [stage |-> "none", failures |-> 0]
FirstAttempt == [stage |-> "running", failures |-> 0]

Busy(r, m) == task[r][m].stage # "none"

HandedOut == UNION {unacked[r] : r \in Replicas}

-----------------------------------------------------------------------------
(* Initial state: the services are up, nothing has been published. *)

Init ==
  /\ unsent = Messages
  /\ ready = {}
  /\ unacked = [r \in Replicas |-> {}]
  /\ acked = {}
  /\ dlq = {}
  /\ channel = [r \in Replicas |-> "open"]
  /\ task = [r \in Replicas |-> [m \in Messages |-> NoTask]]
  /\ done = {}
  /\ exhausted = {}
  /\ deliveries = [m \in Messages |-> 0]
  /\ runs = [m \in Messages |-> 0]
  /\ faults = 0

-----------------------------------------------------------------------------
(* Publishing and delivering *)

\* RabbitMQ.PublishMessage: the persistent message reaches the durable queue.
Publish(m) ==
  /\ m \in unsent
  /\ unsent' = unsent \ {m}
  /\ ready' = ready \cup {m}
  /\ UNCHANGED <<unacked, acked, dlq, channel, task, history, faults>>

\* The broker pushes m within the prefetch window of r, whose consume loop
\* spawns a goroutine; the first attempt starts without a wait.
Deliver(r, m) ==
  /\ channel[r] = "open"
  /\ m \in ready
  /\ Cardinality(unacked[r]) < Prefetch
  /\ ready' = ready \ {m}
  /\ unacked' = [unacked EXCEPT ![r] = @ \cup {m}]
  /\ task' = [task EXCEPT ![r][m] = FirstAttempt]
  /\ deliveries' = [deliveries EXCEPT ![m] = @ + 1]
  /\ runs' = [runs EXCEPT ![m] = @ + 1]
  /\ UNCHANGED <<unsent, acked, dlq, channel, done, exhausted, faults>>

-----------------------------------------------------------------------------
(* The attempts of retry.WithBackoff *)

\* The handler returned nil: WithBackoff returns, the message will be acked.
HandlerSucceeds(r, m) ==
  /\ task[r][m].stage = "running"
  /\ task' = [task EXCEPT ![r][m] =
       [stage |-> "acking", failures |-> @.failures]]
  /\ done' = done \cup {m}
  /\ UNCHANGED <<broker, channel, exhausted, deliveries, runs, faults>>

\* BUG variant: the loop condition of WithBackoff never becomes false.
HandlerFails_RetriesForever(r, m) ==
  /\ task[r][m].stage = "running"
  /\ task' = [task EXCEPT ![r][m].failures = @ + 1, ![r][m].stage = "waiting"]
  /\ UNCHANGED <<broker, channel, history, faults>>

\* BUG variant: the message is rejected at the first error, without retries.
HandlerFails_NoRetry(r, m) ==
  LET failures == task[r][m].failures + 1 IN
  /\ task[r][m].stage = "running"
  /\ task' = [task EXCEPT ![r][m] = [stage |-> "rejecting", failures |-> failures]]
  /\ exhausted' = IF failures > MaxRetries THEN exhausted \cup {m} ELSE exhausted
  /\ UNCHANGED <<broker, channel, done, deliveries, runs, faults>>

\* The handler returned an error: wait for the next attempt while attempt
\* <= MaxRetries, else give the message up.
HandlerFails(r, m) ==
  LET failures == task[r][m].failures + 1
      last == failures > MaxRetries
  IN
  /\ task[r][m].stage = "running"
  /\ task' = [task EXCEPT ![r][m] =
       [stage |-> IF last THEN "rejecting" ELSE "waiting", failures |-> failures]]
  /\ exhausted' = IF last THEN exhausted \cup {m} ELSE exhausted
  /\ UNCHANGED <<broker, channel, done, deliveries, runs, faults>>

\* time.After(wait) fires; the context is never cancelled.
BackoffElapsed(r, m) ==
  /\ task[r][m].stage = "waiting"
  /\ task' = [task EXCEPT ![r][m] =
       [stage |-> "running", failures |-> @.failures]]
  /\ runs' = [runs EXCEPT ![m] = @ + 1]
  /\ UNCHANGED <<broker, channel, done, exhausted, deliveries, faults>>

-----------------------------------------------------------------------------
(* Settling *)

\* BUG variant: a reconnected client acknowledges by message, not by the
\* delivery tag of the lost channel, so a task outlives its delivery.
Ack_WithoutDelivery(r, m) ==
  /\ task[r][m].stage = "acking"
  /\ task' = [task EXCEPT ![r][m] = NoTask]
  /\ unacked' = [unacked EXCEPT ![r] = @ \ {m}]
  /\ acked' = acked \cup {m}
  /\ UNCHANGED <<unsent, ready, dlq, channel, history, faults>>

\* m.Ack(false).  On a closed channel it fails and the error is only logged.
Ack(r, m) ==
  /\ task[r][m].stage = "acking"
  /\ task' = [task EXCEPT ![r][m] = NoTask]
  /\ IF channel[r] = "open"
     THEN /\ unacked' = [unacked EXCEPT ![r] = @ \ {m}]
          /\ acked' = acked \cup {m}
     ELSE UNCHANGED <<unacked, acked>>
  /\ UNCHANGED <<unsent, ready, dlq, channel, history, faults>>

\* BUG variant: Reject(true), which puts the message back on its queue.
Reject_Requeue(r, m) ==
  /\ task[r][m].stage = "rejecting"
  /\ task' = [task EXCEPT ![r][m] = NoTask]
  /\ IF channel[r] = "open"
     THEN /\ unacked' = [unacked EXCEPT ![r] = @ \ {m}]
          /\ ready' = ready \cup {m}
     ELSE UNCHANGED <<unacked, ready>>
  /\ UNCHANGED <<unsent, acked, dlq, channel, history, faults>>

\* d.Reject(false): the broker dead-letters its own copy of the message.  The
\* failure context was added to the consumer's copy and is not sent along.
Reject(r, m) ==
  /\ task[r][m].stage = "rejecting"
  /\ task' = [task EXCEPT ![r][m] = NoTask]
  /\ IF channel[r] = "open"
     THEN /\ unacked' = [unacked EXCEPT ![r] = @ \ {m}]
          /\ dlq' = dlq \cup {m}
     ELSE UNCHANGED <<unacked, dlq>>
  /\ UNCHANGED <<unsent, ready, acked, channel, history, faults>>

-----------------------------------------------------------------------------
(* Failures *)

\* BUG variant: the client reopens its channel at once and keeps its tasks.
CloseChannel_Reopened(r) ==
  /\ faults < MaxFaults
  /\ channel[r] = "open"
  /\ ready' = ready \cup unacked[r]
  /\ unacked' = [unacked EXCEPT ![r] = {}]
  /\ faults' = faults + 1
  /\ UNCHANGED <<unsent, acked, dlq, channel, task, history>>

\* The connection of r breaks: the broker requeues what r had not settled, the
\* consume loop of r ends, and the tasks of r go on.
CloseChannel(r) ==
  /\ faults < MaxFaults
  /\ channel[r] = "open"
  /\ channel' = [channel EXCEPT ![r] = "closed"]
  /\ ready' = ready \cup unacked[r]
  /\ unacked' = [unacked EXCEPT ![r] = {}]
  /\ faults' = faults + 1
  /\ UNCHANGED <<unsent, acked, dlq, task, history>>

\* BUG variant: the queue is consumed with auto-ack, so what a crashing
\* replica was working on is gone.
Crash_Forgets(r) ==
  /\ faults < MaxFaults
  /\ channel[r] # "down"
  /\ channel' = [channel EXCEPT ![r] = "down"]
  /\ task' = [task EXCEPT ![r] = [m \in Messages |-> NoTask]]
  /\ faults' = faults + 1
  /\ UNCHANGED <<broker, history>>

\* The process of r ends (a panic, a kill, a rollout), and with it its tasks.
Crash(r) ==
  /\ faults < MaxFaults
  /\ channel[r] # "down"
  /\ channel' = [channel EXCEPT ![r] = "down"]
  /\ ready' = ready \cup unacked[r]
  /\ unacked' = [unacked EXCEPT ![r] = {}]
  /\ task' = [task EXCEPT ![r] = [m \in Messages |-> NoTask]]
  /\ faults' = faults + 1
  /\ UNCHANGED <<unsent, acked, dlq, history>>

\* The container is restarted: NewRabbitMQ dials and the service consumes.
Restart(r) ==
  /\ channel[r] = "down"
  /\ channel' = [channel EXCEPT ![r] = "open"]
  /\ UNCHANGED <<broker, task, history, faults>>

-----------------------------------------------------------------------------
(* Specification *)

HandlerReturns(r, m) == HandlerSucceeds(r, m) \/ HandlerFails(r, m)

Step(r, m) ==
  \/ Deliver(r, m)
  \/ HandlerReturns(r, m)
  \/ BackoffElapsed(r, m)
  \/ Ack(r, m)
  \/ Reject(r, m)

Fault(r) == CloseChannel(r) \/ Crash(r)

Next ==
  \/ \E m \in Messages : Publish(m)
  \/ \E r \in Replicas, m \in Messages : Step(r, m)
  \/ \E r \in Replicas : Fault(r) \/ Restart(r)

Spec == Init /\ [][Next]_vars

\* The broker delivers to a consumer with room in its window, a timer fires, a
\* goroutine whose handler has returned runs on, and Kubernetes restarts a
\* container that has ended.  That a handler call returns is an assumption on
\* the MongoDB, Stripe and AMQP clients, which set no deadline of their own.
\* Nothing restarts a process that has merely lost its channel: the services
\* have no liveness probe.
Fairness ==
  /\ \A r \in Replicas, m \in Messages :
       /\ WF_vars(Deliver(r, m))
       /\ WF_vars(HandlerReturns(r, m))
       /\ WF_vars(BackoffElapsed(r, m))
       /\ WF_vars(Ack(r, m))
       /\ WF_vars(Reject(r, m))
  /\ \A r \in Replicas : WF_vars(Restart(r))

FairSpec == Spec /\ Fairness

-----------------------------------------------------------------------------
(* Properties *)

\* Every variable stays in its domain.  What is more than a typing is the task:
\* no delivery of ConsumeMessages fails more than MaxRetries + 1 attempts.
TypeOK ==
  /\ unsent \in SUBSET Messages
  /\ ready \in SUBSET Messages
  /\ unacked \in [Replicas -> SUBSET Messages]
  /\ acked \in SUBSET Messages
  /\ dlq \in SUBSET Messages
  /\ channel \in [Replicas -> {"open", "closed", "down"}]
  /\ task \in [Replicas -> [Messages -> Task]]
  /\ done \in SUBSET Messages
  /\ exhausted \in SUBSET Messages
  /\ deliveries \in [Messages -> Nat]
  /\ runs \in [Messages -> Nat]
  /\ faults \in 0 .. MaxFaults

\* The broker has every message in exactly one place, whatever crashes or is
\* cut off between a handler's return and its Ack or Reject: a message is never
\* lost, never held by two replicas, never both settled and deliverable, and
\* never both acknowledged and dead-lettered.
Conserved ==
  /\ Messages = unsent \cup ready \cup HandedOut \cup acked \cup dlq
  /\ unsent \cap (ready \cup HandedOut \cup acked \cup dlq) = {}
  /\ ready \cap (HandedOut \cup acked \cup dlq) = {}
  /\ HandedOut \cap (acked \cup dlq) = {}
  /\ acked \cap dlq = {}
  /\ \A r, s \in Replicas : r # s => unacked[r] \cap unacked[s] = {}

\* While the channel of a replica is open, its goroutines are exactly those of
\* the deliveries it has not settled: no goroutine of an earlier delivery of
\* the same message survives to settle the new one.
TasksMatchDeliveries == \A r \in Replicas :
  /\ channel[r] = "open" => \A m \in Messages : Busy(r, m) <=> m \in unacked[r]
  /\ channel[r] # "open" => unacked[r] = {}
  /\ channel[r] = "down" => \A m \in Messages : ~Busy(r, m)

\* A message is handed out again only because of a crash or a lost channel, at
\* most once for each, never because its handler failed.
RedeliveredOnlyByFaults ==
  \A m \in Messages : deliveries[m] <= faults + 1

\* The handler of a message is called at most MaxRetries + 1 times for each of
\* its deliveries, counting the calls made by replicas that have lost their
\* channel: the factor by which a side effect may be repeated.
RunsBounded ==
  \A m \in Messages : runs[m] <= (MaxRetries + 1) * deliveries[m]

\* The abstract view of the queue.
Status(m) ==
  CASE m \in unsent -> "unsent"
    [] m \in acked -> "acked"
    [] m \in dlq -> "dead"
    [] OTHER -> "pending"

Abstract == INSTANCE Settlement WITH
  status <- [m \in Messages |-> Status(m)]

\* Whatever the replicas do and however they fail, a message is settled at most
\* once, acknowledged only if its handler has returned nil and dead-lettered
\* only if one delivery of it has failed all its attempts.
SettlesOnceForCause == Abstract!Spec

\* A published message is eventually settled as long as some replica keeps its
\* channel for good, however often the others crash or lose theirs.
EventuallySettled ==
  (\E r \in Replicas : <>[](channel[r] = "open")) =>
    \A m \in Messages : (m \notin unsent) ~> (m \in acked \cup dlq)

-----------------------------------------------------------------------------
(* What the documentation says, and the code does not do *)

\* README.md:23 "up to 3 attempts": no delivery gets a fourth attempt.
UpToThreeAttempts ==
  \A r \in Replicas, m \in Messages : task[r][m].failures <= 3

=============================================================================

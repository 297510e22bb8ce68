----------------------------- MODULE Settlement -----------------------------
(***************************************************************************)
(* What shared/messaging promises about one queue, with the replicas, the  *)
(* goroutines, the retries and the failures taken away.                    *)
(*                                                                         *)
(* A published message is settled at most once, either acknowledged or     *)
(* moved to the dead letter queue.  It is acknowledged only after the      *)
(* service's handler has completed for it, and dead-lettered only after    *)
(* one delivery of it has used up every attempt.  Neither condition is     *)
(* exclusive: a handler may complete again, or for the first time, after   *)
(* the message has been settled, because a replica cut off from the broker *)
(* goes on working on what it had received.                                *)
(*                                                                         *)
(* Delivery is shown to implement this module.                             *)
(***************************************************************************)

CONSTANT Messages      \* the messages ever published to the queue

VARIABLES
  status,      \* status[m]: where the broker stands with message m
  done,        \* messages whose handler has completed at least once
  exhausted    \* messages some delivery of which ran out of attempts

vars == <<status, done, exhausted>>

Status == {"unsent", "pending", "acked", "dead"}

Init ==
  /\ status = [m \in Messages |-> "unsent"]
  /\ done = {}
  /\ exhausted = {}

Publish(m) ==
  /\ status[m] = "unsent"
  /\ status' = [status EXCEPT ![m] = "pending"]
  /\ UNCHANGED <<done, exhausted>>

Complete(m) ==
  /\ status[m] # "unsent"
  /\ done' = done \cup {m}
  /\ UNCHANGED <<status, exhausted>>

Exhaust(m) ==
  /\ status[m] # "unsent"
  /\ exhausted' = exhausted \cup {m}
  /\ UNCHANGED <<status, done>>

Ack(m) ==
  /\ status[m] = "pending"
  /\ m \in done
  /\ status' = [status EXCEPT ![m] = "acked"]
  /\ UNCHANGED <<done, exhausted>>

DeadLetter(m) ==
  /\ status[m] = "pending"
  /\ m \in exhausted
  /\ status' = [status EXCEPT ![m] = "dead"]
  /\ UNCHANGED <<done, exhausted>>

Next == \E m \in Messages :
  Publish(m) \/ Complete(m) \/ Exhaust(m) \/ Ack(m) \/ DeadLetter(m)

Spec == Init /\ [][Next]_vars

=============================================================================

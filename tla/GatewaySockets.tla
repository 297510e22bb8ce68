--------------------------- MODULE GatewaySockets ---------------------------
(***************************************************************************)
(* The websockets of the api-gateway: ConnectionManager, the handlers      *)
(* handleRidersWebSocket and handleDriversWebSocket, the QueueConsumers    *)
(* they start, and driver-service's registration of drivers.               *)
(*                                                                         *)
(* The manager of a gateway instance maps a user id to one connection.     *)
(* The handler of a socket adds its connection when it starts and removes  *)
(* the entry of its user when it ends, whichever connection the entry is   *)
(* for by then.  Two sockets of one user overlap when the page reconnects  *)
(* with the id it has before the gateway has noticed that the first socket *)
(* is gone (an effect of useBaseWebSocket that runs again).                *)
(*                                                                         *)
(* A consumer takes a message off a queue every instance reads (auto-ack), *)
(* looks its user up in the manager of its own instance, and writes to the *)
(* connection found, as two separate steps.                                *)
(***************************************************************************)
EXTENDS Naturals, FiniteSets

CONSTANTS
  Gateways,    \* the instances of the api-gateway
  Sockets,     \* bound: the websockets opened, numbered in that order
  Riders,      \* user ids of riders
  Drivers,     \* user ids of drivers
  Messages,    \* bound: the messages sent to users
  None,        \* no socket, user or instance
  MayFail      \* the calls to driver-service and the broker, and the processes, that may fail

Users == Riders \cup Drivers

ASSUME GatewayAssumption ==
  /\ Riders \cap Drivers = {}
  /\ Sockets \subseteq Nat
  /\ None \notin Sockets /\ None \notin Users /\ None \notin Gateways
  /\ MayFail \subseteq {"client", "register", "consume", "unregister", "gateway",
                     "driver-service"}

VARIABLES
  user,        \* user[s]: who opened socket s; None before that
  home,        \* home[s]: the instance that serves socket s
  handler,     \* handler[s]: where the handler of s stands
  live,        \* the sockets whose page is still there
  connections, \* connections[g][u]: ConnectionManager.connections of g
  registered,  \* driver-service: the registered drivers
  consuming,   \* consuming[g]: the kinds of queues g consumes
  addressee,   \* addressee[m]: the user message m is for; None: not published
  mail,        \* mail[m]: where message m stands
  overlapped,  \* history: users that have had two handlers at a time
  leaked,      \* history: users whose handler returned before its cleanup
  lingering,   \* history: registered drivers whose handler has not unregistered them
  forgotten,   \* history: drivers dropped by driver-service and not registered since
  missed       \* history: messages whose user was being served and not found

sockets == <<user, home, handler, live>>
letters == <<addressee, mail>>
history == <<overlapped, leaked, lingering, forgotten, missed>>
vars == <<sockets, connections, registered, consuming, letters, history>>

HandlerSteps == {"none", "added", "awaiting location", "registered", "greeted",
                 "serving", "leaving", "unregistering", "done"}

Kind(u) == IF u \in Riders THEN "rider" ELSE "driver"

\* The sockets of u that have a handler.
HandlersOf(u) == {s \in Sockets : user[s] = u /\ handler[s] # "done"}

\* u has a page open and served: what is sent to u now should arrive.
Served(u) == \E s \in HandlersOf(u) \cap live : handler[s] = "serving"

Init ==
  /\ user = [s \in Sockets |-> None]
  /\ home = [s \in Sockets |-> None]
  /\ handler = [s \in Sockets |-> "none"]
  /\ live = {}
  /\ connections = [g \in Gateways |-> [u \in Users |-> None]]
  /\ registered = {}
  /\ consuming = [g \in Gateways |-> {}]
  /\ addressee = [m \in Messages |-> None]
  /\ mail = [m \in Messages |-> [at |-> "unsent", socket |-> None]]
  /\ overlapped = {}
  /\ leaked = {}
  /\ lingering = {}
  /\ forgotten = {}
  /\ missed = {}

Goto(s, step) == handler' = [handler EXCEPT ![s] = step]

-----------------------------------------------------------------------------
(* The handlers *)

\* s is the next socket to be opened.
IsNext(s) == handler[s] = "none" /\ \A t \in Sockets : t < s => handler[t] # "none"

\* BUG variant: Add keeps an entry the user already has.
Open_KeepsEntry(s, g, u) ==
  /\ IsNext(s)
  /\ user' = [user EXCEPT ![s] = u]
  /\ home' = [home EXCEPT ![s] = g]
  /\ live' = live \cup {s}
  /\ Goto(s, "added")
  /\ connections' = [connections EXCEPT ![g][u] = IF @ = None THEN s ELSE @]
  /\ overlapped' = IF HandlersOf(u) = {} THEN overlapped ELSE overlapped \cup {u}
  /\ UNCHANGED <<registered, consuming, letters, leaked, lingering, forgotten, missed>>

\* Upgrade and connManager.Add, which replaces an entry the user may have.
Open(s, g, u) ==
  /\ IsNext(s)
  /\ user' = [user EXCEPT ![s] = u]
  /\ home' = [home EXCEPT ![s] = g]
  /\ live' = live \cup {s}
  /\ Goto(s, "added")
  /\ connections' = [connections EXCEPT ![g][u] = s]
  /\ overlapped' = IF HandlersOf(u) = {} THEN overlapped ELSE overlapped \cup {u}
  /\ UNCHANGED <<registered, consuming, letters, leaked, lingering, forgotten, missed>>

\* BUG variant: the riders' endpoint is served by the drivers' handler.
MakeClient_AnyUser(s) ==
  /\ handler[s] = "added"
  /\ Goto(s, "awaiting location")
  /\ UNCHANGED <<user, home, live, connections, registered, consuming, letters, history>>

\* handleDriversWebSocket: the client of driver-service is made ...
MakeClient(s) ==
  /\ handler[s] = "added"
  /\ user[s] \in Drivers
  /\ Goto(s, "awaiting location")
  /\ UNCHANGED <<user, home, live, connections, registered, consuming, letters, history>>

\* ... or the handler returns, before it has deferred its cleanup.
MakeClientFails(s) ==
  /\ handler[s] = "added"
  /\ user[s] \in Drivers
  /\ "client" \in MayFail
  /\ Goto(s, "done")
  /\ live' = live \ {s}
  /\ leaked' = leaked \cup {user[s]}
  /\ UNCHANGED <<user, home, connections, registered, consuming, letters, overlapped,
                 lingering, forgotten, missed>>

\* The first location has arrived (possibly the last thing the page sent):
\* RegisterDriver replaces an entry the driver may have.
Register(s) ==
  /\ handler[s] = "awaiting location"
  /\ registered' = registered \cup {user[s]}
  /\ forgotten' = forgotten \ {user[s]}
  /\ Goto(s, "registered")
  /\ UNCHANGED <<user, home, live, connections, consuming, letters, overlapped, leaked,
                 lingering, missed>>

RegisterFails(s) ==
  /\ handler[s] = "awaiting location"
  /\ "register" \in MayFail
  /\ Goto(s, "leaving")
  /\ UNCHANGED <<user, home, live, connections, registered, consuming, letters, history>>

\* BUG variant: the cleanup is deferred after the driver is registered, and the
\* handler returns before that when the registration cannot be written.
Greet_Returns(s) ==
  LET found == connections[home[s]][user[s]] IN
  /\ handler[s] = "registered"
  /\ \/ found # None /\ Goto(s, "greeted")
     \/ found \notin live /\ Goto(s, "done")
  /\ UNCHANGED <<user, home, live, connections, registered, consuming, letters, history>>

\* SendMessage of the registration, to the connection the manager has for the
\* driver.  It fails if there is none, and may fail if its page has gone.
Greet(s) ==
  LET found == connections[home[s]][user[s]] IN
  /\ handler[s] = "registered"
  /\ \/ found # None /\ Goto(s, "greeted")
     \/ found \notin live /\ Goto(s, "leaving")
  /\ UNCHANGED <<user, home, live, connections, registered, consuming, letters, history>>

\* BUG variant: the driver is served without waiting for the registration.
StartConsumers_Early(s) ==
  /\ handler[s] \in {"added", "awaiting location"}
  /\ Goto(s, "serving")
  /\ consuming' = [consuming EXCEPT ![home[s]] = @ \cup {Kind(user[s])}]
  /\ UNCHANGED <<user, home, live, connections, registered, letters, history>>

\* The consumers of the user's queues are started; they are never stopped.  What
\* goes wrong is only logged: the user is served without them, and what is in the
\* queues waits for the consumers another user's handler starts.
StartConsumers(s) ==
  /\ handler[s] = IF user[s] \in Riders THEN "added" ELSE "greeted"
  /\ Goto(s, "serving")
  /\ \/ consuming' = [consuming EXCEPT ![home[s]] = @ \cup {Kind(user[s])}]
     \/ "consume" \in MayFail /\ UNCHANGED consuming
  /\ UNCHANGED <<user, home, live, connections, registered, letters, history>>

\* ReadMessage returns an error once the page has gone.
ReadFails(s) ==
  /\ handler[s] \in {"awaiting location", "serving"}
  /\ s \notin live
  /\ Goto(s, "leaving")
  /\ UNCHANGED <<user, home, live, connections, registered, consuming, letters, history>>

\* BUG variant: the rider's handler has no deferred Remove.
Remove_DriversOnly(s) ==
  LET u == user[s] IN
  /\ handler[s] = "leaving"
  /\ connections' = IF u \in Riders THEN connections
                    ELSE [connections EXCEPT ![home[s]][u] = None]
  /\ live' = IF u \in Riders THEN live \ {s} ELSE live
  /\ Goto(s, IF u \in Riders THEN "done" ELSE "unregistering")
  /\ UNCHANGED <<user, home, registered, consuming, letters, history>>

\* connManager.Remove deletes by user id.  A rider's handler has then ended.
Remove(s) ==
  LET u == user[s] IN
  /\ handler[s] = "leaving"
  /\ connections' = [connections EXCEPT ![home[s]][u] = None]
  /\ live' = IF u \in Riders THEN live \ {s} ELSE live
  /\ Goto(s, IF u \in Riders THEN "done" ELSE "unregistering")
  /\ UNCHANGED <<user, home, registered, consuming, letters, history>>

\* BUG variant: the driver's handler ends without unregistering.
Unregister_Forgotten(s) ==
  /\ handler[s] = "unregistering"
  /\ live' = live \ {s}
  /\ Goto(s, "done")
  /\ UNCHANGED <<user, home, connections, registered, consuming, letters, history>>

\* UnregisterDriver removes every entry of the driver.
Unregister(s) ==
  /\ handler[s] = "unregistering"
  /\ registered' = registered \ {user[s]}
  /\ lingering' = lingering \ {user[s]}
  /\ live' = live \ {s}
  /\ Goto(s, "done")
  /\ UNCHANGED <<user, home, connections, consuming, letters, overlapped, leaked, forgotten,
                 missed>>

UnregisterFails(s) ==
  /\ handler[s] = "unregistering"
  /\ "unregister" \in MayFail
  /\ live' = live \ {s}
  /\ Goto(s, "done")
  /\ lingering' = lingering \cup ({user[s]} \cap registered)
  /\ UNCHANGED <<user, home, connections, registered, consuming, letters, overlapped,
                 leaked, forgotten, missed>>

\* The page closes, or the network does.
Hangup(s) ==
  /\ s \in live
  /\ live' = live \ {s}
  /\ UNCHANGED <<user, home, handler, connections, registered, consuming, letters, history>>

-----------------------------------------------------------------------------
(* Processes that end and are restarted *)

\* An instance of the gateway ends: its websockets close, its manager and its
\* consumers are gone, and no deferred cleanup unregisters the drivers.
GatewayEnds(g) ==
  LET ended == {s \in Sockets : home[s] = g /\ handler[s] # "done"} IN
  /\ "gateway" \in MayFail
  /\ ended # {}
  /\ handler' = [s \in Sockets |-> IF s \in ended THEN "done" ELSE handler[s]]
  /\ live' = live \ ended
  /\ connections' = [connections EXCEPT ![g] = [u \in Users |-> None]]
  /\ consuming' = [consuming EXCEPT ![g] = {}]
  /\ lingering' = lingering \cup ({user[s] : s \in ended} \cap registered)
  /\ UNCHANGED <<user, home, registered, letters, overlapped, leaked, forgotten, missed>>

\* driver-service keeps its drivers in memory, and no handler registers a driver
\* again.
DriverServiceEnds ==
  /\ "driver-service" \in MayFail
  /\ registered # {}
  /\ registered' = {}
  /\ lingering' = {}
  /\ forgotten' = forgotten \cup registered
  /\ UNCHANGED <<sockets, connections, consuming, letters, overlapped, leaked, missed>>

-----------------------------------------------------------------------------
(* Messages to users *)

\* A service publishes a message for u.
Publish(m, u) ==
  /\ mail[m].at = "unsent"
  /\ addressee' = [addressee EXCEPT ![m] = u]
  /\ mail' = [mail EXCEPT ![m].at = "queued"]
  /\ UNCHANGED <<sockets, connections, registered, consuming, history>>

\* A consumer of g takes m, which acknowledges it, and looks its user up.  It
\* misses a user who is being served if it finds nothing, or a dead connection.
Take(g, m) ==
  LET u == addressee[m]
      found == connections[g][u]
  IN
  /\ mail[m].at = "queued"
  /\ Kind(u) \in consuming[g]
  /\ mail' = [mail EXCEPT ![m] =
       [at |-> IF found = None THEN "lost" ELSE "writing", socket |-> found]]
  /\ missed' = IF found \notin live /\ Served(u) THEN missed \cup {m} ELSE missed
  /\ UNCHANGED <<sockets, connections, registered, consuming, addressee, overlapped, leaked,
                 lingering, forgotten>>

\* WriteJSON to the connection found before, which may have gone since.
Write(m) ==
  /\ mail[m].at = "writing"
  /\ mail' = [mail EXCEPT ![m] =
       [at |-> IF mail[m].socket \in live THEN "delivered" ELSE "lost", socket |-> None]]
  /\ UNCHANGED <<sockets, connections, registered, consuming, addressee, history>>

-----------------------------------------------------------------------------
(* Specification *)

Handler(s) ==
  \/ MakeClient(s) \/ MakeClientFails(s)
  \/ Register(s) \/ RegisterFails(s)
  \/ Greet(s)
  \/ StartConsumers(s)
  \/ ReadFails(s)
  \/ Remove(s)
  \/ Unregister(s) \/ UnregisterFails(s)

Next ==
  \/ \E s \in Sockets, g \in Gateways, u \in Users : Open(s, g, u)
  \/ \E s \in Sockets : Handler(s) \/ Hangup(s)
  \/ \E m \in Messages, u \in Users : Publish(m, u)
  \/ \E m \in Messages, g \in Gateways : Take(g, m)
  \/ \E m \in Messages : Write(m)
  \/ \E g \in Gateways : GatewayEnds(g)
  \/ DriverServiceEnds

Spec == Init /\ [][Next]_vars

\* Handlers run on; a driver's page need not send its location.
Fairness == \A s \in Sockets :
  WF_vars(Handler(s) /\ (handler[s] = "awaiting location" => s \notin live))

FairSpec == Spec /\ Fairness

-----------------------------------------------------------------------------
(* Properties *)

\* Every variable stays in its domain.
TypeOK ==
  /\ user \in [Sockets -> Users \cup {None}]
  /\ home \in [Sockets -> Gateways \cup {None}]
  /\ handler \in [Sockets -> HandlerSteps]
  /\ live \in SUBSET Sockets
  /\ connections \in [Gateways -> [Users -> Sockets \cup {None}]]
  /\ registered \in SUBSET Drivers
  /\ consuming \in [Gateways -> SUBSET {"rider", "driver"}]
  /\ addressee \in [Messages -> Users \cup {None}]
  /\ mail \in [Messages -> [at : {"unsent", "queued", "writing", "delivered", "lost"},
                            socket : Sockets \cup {None}]]
  /\ overlapped \in SUBSET Users
  /\ leaked \in SUBSET Users
  /\ lingering \in SUBSET Users
  /\ forgotten \in SUBSET Drivers
  /\ missed \in SUBSET Messages

\* However the sockets of a user overlap, the manager has no entry for a socket
\* whose handler has ended, nor for one of another user or another instance,
\* unless a handler returned before its cleanup.
EntriesHaveHandlers == \A g \in Gateways : \A u \in Users \ leaked :
  LET s == connections[g][u] IN
  s # None => user[s] = u /\ home[s] = g
              /\ handler[s] \notin {"none", "unregistering", "done"}

\* A user whose sockets have not overlapped is found by the manager of its
\* instance, and a driver by the matching, for as long as the handler serves and
\* driver-service does not restart.
ServedIsFound == \A s \in Sockets :
  handler[s] = "serving" /\ user[s] \notin overlapped =>
    /\ connections[home[s]][user[s]] = s
    /\ user[s] \in Drivers \ forgotten => user[s] \in registered

\* However the sockets of a driver overlap and in whatever order their handlers
\* register and clean up, a registered driver has a handler that has still to
\* unregister the driver, unless the call to do so failed or the gateway ended.
RegistrationHasHandler == \A d \in registered \ lingering :
  \E s \in HandlersOf(d) :
    handler[s] \in {"registered", "greeted", "serving", "leaving", "unregistering"}

\* A consumer finds the connection of every user who is being served, unless two
\* sockets of that user have overlapped: then the entry may be for the dead one,
\* or the cleanup of the dead one may have removed the entry of the other.
ServedIsReached == \A m \in missed : addressee[m] \in overlapped

\* Once a user has no live socket, the registration and the entries of that user
\* are gone in the end, whatever has overlapped: the last cleanup to run leaves
\* nothing behind, unless a handler returned before its cleanup.  A registration
\* also stays behind when the call that unregisters has failed or the gateway has
\* ended; the entries do not.
EventuallyForgotten == \A u \in Users :
  (HandlersOf(u) \cap live = {}) ~>
    \/ HandlersOf(u) \cap live # {}
    \/ u \in leaked
    \/ /\ u \in registered => u \in lingering
       /\ \A g \in Gateways : connections[g][u] = None

=============================================================================

------------------------ MODULE GatewaySocketsProofs ------------------------
(***************************************************************************)
(* The safety of the gateway's websockets, for any users, instances,       *)
(* sockets and messages.                                                   *)
(*                                                                         *)
(* That entries belong to running handlers is inductive with the types.    *)
(* That a served user is found needs that a user whose sockets have not    *)
(* overlapped has one handler (OneHandler): only the handler's own cleanup *)
(* can then remove its entry (EntryIsKept) and its registration            *)
(* (RegistrationIsKept).  Messages reach their users on one instance; on   *)
(* several, a consumer may look in the manager of the wrong one.           *)
(***************************************************************************)
EXTENDS GatewaySockets, TLAPS

\* The steps at which a handler has an entry that it has not removed.
Entered == {"added", "awaiting location", "registered", "greeted", "serving", "leaving"}

\* A socket has a user and an instance from its opening on.
OpenedHasUser == \A s \in Sockets :
  IF handler[s] = "none" THEN user[s] = None /\ home[s] = None
                         ELSE user[s] \in Users /\ home[s] \in Gateways

\* These steps are taken for drivers only.
DriversOnly == \A s \in Sockets :
  handler[s] \in {"awaiting location", "registered", "greeted", "unregistering"} =>
    user[s] \in Drivers

\* A user whose sockets have not overlapped has at most one handler.
OneHandler == \A s, t \in Sockets :
  user[s] = user[t] /\ user[s] \in Users \ overlapped
    /\ handler[s] # "done" /\ handler[t] # "done" => s = t

\* Nobody removes the entry, or the registration, of such a user but the handler.
EntryIsKept == \A s \in Sockets :
  handler[s] \in Entered /\ user[s] \notin overlapped => connections[home[s]][user[s]] = s

RegistrationIsKept == \A s \in Sockets :
  handler[s] \in {"registered", "greeted", "serving"} /\
    user[s] \in Drivers \ (overlapped \cup forgotten) => user[s] \in registered

\* A message that has been sent has an addressee, and only those can be missed.
SentHasAddressee == \A m \in Messages : mail[m].at # "unsent" => addressee[m] \in Users
MissedIsSent == \A m \in missed : mail[m].at # "unsent"

OneInstance == \A g, h \in Gateways : g = h

Inv ==
  /\ TypeOK
  /\ OpenedHasUser
  /\ DriversOnly
  /\ EntriesHaveHandlers
  /\ OneHandler
  /\ EntryIsKept
  /\ RegistrationIsKept
  /\ SentHasAddressee
  /\ MissedIsSent
  /\ OneInstance => ServedIsReached

-----------------------------------------------------------------------------
(* The handlers *)

LEMMA InitInv == Init => Inv
PROOF
<1> SUFFICES ASSUME Init PROVE Inv
  OBVIOUS
<1>1. TypeOK
  BY DEF Init, TypeOK, HandlerSteps
<1>2. OpenedHasUser /\ DriversOnly /\ OneHandler /\ EntryIsKept /\ RegistrationIsKept
  BY GatewayAssumption
  DEF Init, OpenedHasUser, DriversOnly, OneHandler, EntryIsKept, RegistrationIsKept, Entered
<1>3. EntriesHaveHandlers
  BY DEF Init, EntriesHaveHandlers
<1>4. SentHasAddressee /\ MissedIsSent /\ ServedIsReached
  BY DEF Init, SentHasAddressee, MissedIsSent, ServedIsReached
<1> QED BY <1>1, <1>2, <1>3, <1>4 DEF Inv

\* A handler goes on to another step, and changes neither entries nor messages.
LEMMA MoveInv ==
  ASSUME Inv, NEW s \in Sockets, NEW step \in HandlerSteps \ {"none", "unregistering"},
         handler[s] \notin {"none", "done"}, handler' = [handler EXCEPT ![s] = step],
         UNCHANGED <<user, home, connections, letters, overlapped, missed>>,
         lingering' \in {lingering, lingering \ {user[s]},
                        lingering \cup ({user[s]} \cap registered)},
         forgotten' \in {forgotten, forgotten \ {user[s]}},
         forgotten' = forgotten \/ step = "registered",
         live' \in SUBSET live, consuming' \in [Gateways -> SUBSET {"rider", "driver"}],
         leaked' \in {leaked, leaked \cup {user[s]}},
         registered' \in {registered, registered \cup {user[s]}, registered \ {user[s]}},
         user[s] \notin Drivers => registered' = registered,
         registered' = registered \/ step \in {"registered", "done"},
         step = "registered" => user[s] \in registered',
         step \in {"awaiting location", "registered", "greeted"} => user[s] \in Drivers,
         step \in Entered => handler[s] \in Entered,
         step = "done" => handler[s] = "unregistering" \/ user[s] \in leaked',
         step \in {"greeted", "serving"} /\ user[s] \in Drivers =>
           handler[s] \in {"registered", "greeted"}
  PROVE  Inv'
PROOF
<1> USE DEF Inv, letters
<1>1. /\ handler \in [Sockets -> HandlerSteps] /\ user \in [Sockets -> Users \cup {None}]
      /\ registered \in SUBSET Drivers /\ leaked \in SUBSET Users /\ live \in SUBSET Sockets
  BY DEF TypeOK
<1>2. \A t \in Sockets : handler'[t] = IF t = s THEN step ELSE handler[t]
  BY <1>1
<1>3. user[s] \in Users /\ home[s] \in Gateways
  BY DEF OpenedHasUser
<1>4. TypeOK'
  <2>1. handler' \in [Sockets -> HandlerSteps]
    BY <1>1
  <2>2. registered' \in SUBSET Drivers
    BY <1>1
  <2>3. leaked' \in SUBSET Users /\ live' \in SUBSET Sockets
    BY <1>1, <1>3
  <2>4. lingering' \in SUBSET Users /\ forgotten' \in SUBSET Drivers
    BY <1>1, <1>3 DEF TypeOK
  <2> QED BY <2>1, <2>2, <2>3, <2>4 DEF TypeOK
<1>5. OpenedHasUser' /\ DriversOnly'
  BY <1>2, <1>3 DEF OpenedHasUser, DriversOnly
<1>6. OneHandler'
  <2> SUFFICES ASSUME NEW t \in Sockets, NEW r \in Sockets, user[t] = user[r],
                      user[t] \in Users \ overlapped, handler'[t] # "done", handler'[r] # "done"
               PROVE  t = r
    BY DEF OneHandler
  <2>1. handler[t] # "done" /\ handler[r] # "done"
    BY <1>2
  <2> QED BY <2>1 DEF OneHandler
<1>7. EntryIsKept'
  BY <1>2 DEF EntryIsKept
<1>8. EntriesHaveHandlers'
  <2>4. /\ connections \in [Gateways -> [Users -> Sockets \cup {None}]]
        /\ connections' = connections /\ user' = user /\ home' = home
        /\ leaked \subseteq leaked'
    BY DEF TypeOK
  <2> SUFFICES ASSUME NEW g \in Gateways, NEW u \in Users \ leaked', connections'[g][u] # None
               PROVE  LET t == connections'[g][u] IN
                      user'[t] = u /\ home'[t] = g
                      /\ handler'[t] \notin {"none", "unregistering", "done"}
    BY DEF EntriesHaveHandlers
  <2> DEFINE t == connections[g][u]
  <2>1. user[t] = u /\ home[t] = g /\ handler[t] \notin {"none", "unregistering", "done"}
    BY <2>4 DEF EntriesHaveHandlers
  <2>2. t \in Sockets
    <3>1. u \in Users
      OBVIOUS
    <3>2. connections[g] \in [Users -> Sockets \cup {None}]
      BY <2>4
    <3>3. connections[g][u] \in Sockets \cup {None}
      BY <3>1, <3>2
    <3> QED BY <2>4, <3>3
  <2>3. t = s => step # "done"
    BY <2>1
  <2> QED BY <1>2, <2>1, <2>2, <2>3, <2>4
<1>9. RegistrationIsKept'
  <2> SUFFICES ASSUME NEW t \in Sockets, handler'[t] \in {"registered", "greeted", "serving"},
                      user[t] \in Drivers \ (overlapped \cup forgotten')
               PROVE  user[t] \in registered'
    BY DEF RegistrationIsKept
  <2>1. CASE t = s
    <3>1. CASE step = "registered"
      BY <2>1, <3>1
    <3>2. CASE step \in {"greeted", "serving"}
      <4>1. forgotten' = forgotten /\ registered' = registered
        BY <3>2
      <4> QED BY <2>1, <3>2, <4>1 DEF RegistrationIsKept
    <3> QED BY <1>2, <2>1, <3>1, <3>2
  <2>2. CASE t # s
    <3>1. handler[t] \in {"registered", "greeted", "serving"} /\ user[t] # user[s]
      BY <1>2, <2>2 DEF OneHandler, Users
    <3>2. user[t] \in registered
      BY <3>1 DEF RegistrationIsKept
    <3> QED BY <3>1, <3>2
  <2> QED BY <2>1, <2>2
<1>10. SentHasAddressee' /\ MissedIsSent' /\ (OneInstance => ServedIsReached)'
  BY DEF SentHasAddressee, MissedIsSent, ServedIsReached, OneInstance
<1> QED BY <1>4, <1>5, <1>6, <1>7, <1>8, <1>9, <1>10

LEMMA HandlerInv ==
  ASSUME Inv, NEW s \in Sockets, Handler(s), ~Remove(s)
  PROVE  Inv'
PROOF
<1> USE DEF history, Goto
<1>1. handler \in [Sockets -> HandlerSteps] /\ consuming \in [Gateways -> SUBSET {"rider", "driver"}]
  BY DEF Inv, TypeOK
<1>2. handler[s] # "none" => user[s] \in Users /\ home[s] \in Gateways
  BY DEF Inv, OpenedHasUser
<1>3. handler[s] \in {"awaiting location", "registered", "greeted", "unregistering"} =>
        user[s] \in Drivers
  BY DEF Inv, DriversOnly
<1>4. Riders \cap Drivers = {}
  BY GatewayAssumption
<1> USE DEF HandlerSteps, Entered
<1>5. CASE MakeClient(s)
  BY <1>2, <1>3, <1>5, MoveInv, <1>1 DEF MakeClient
<1>6. CASE MakeClientFails(s)
  BY <1>2, <1>3, <1>6, MoveInv, <1>1 DEF MakeClientFails
<1>7. CASE Register(s)
  BY <1>2, <1>3, <1>7, MoveInv, <1>1 DEF Register
<1>8. CASE RegisterFails(s)
  BY <1>2, <1>3, <1>8, MoveInv, <1>1 DEF RegisterFails
<1>9. CASE Greet(s)
  BY <1>2, <1>3, <1>9, MoveInv, <1>1 DEF Greet
<1>10. CASE StartConsumers(s)
  <2>1. consuming' \in [Gateways -> SUBSET {"rider", "driver"}]
    <3>1. PICK kind \in {"rider", "driver"} : kind = Kind(user[s])
      BY DEF Kind
    <3>2. \/ consuming' = consuming
          \/ consuming' = [consuming EXCEPT ![home[s]] = @ \cup {kind}]
      BY <1>10, <3>1 DEF StartConsumers
    <3>3. \A g \in Gateways : consuming[g] \cup {kind} \in SUBSET {"rider", "driver"}
      BY <1>1
    <3> QED BY <1>1, <3>2, <3>3
  <2>2. handler[s] \in {"added", "greeted"} /\ (user[s] \in Drivers => handler[s] = "greeted")
    BY <1>4, <1>10 DEF StartConsumers
  <2> QED BY <1>10, <2>1, <2>2, MoveInv DEF StartConsumers
<1>11. CASE ReadFails(s)
  BY <1>2, <1>3, <1>11, MoveInv, <1>1 DEF ReadFails
<1>12. CASE Unregister(s)
  BY <1>2, <1>3, <1>12, MoveInv, <1>1 DEF Unregister
<1>13. CASE UnregisterFails(s)
  BY <1>2, <1>3, <1>13, MoveInv, <1>1 DEF UnregisterFails
<1> QED
  BY <1>5, <1>6, <1>7, <1>8, <1>9, <1>10, <1>11, <1>12, <1>13 DEF Handler

\* A socket is opened: if its user has no other handler, it has the only entry.
LEMMA OpenInv ==
  ASSUME Inv, NEW s \in Sockets, NEW g \in Gateways, NEW u \in Users, Open(s, g, u)
  PROVE  Inv'
PROOF
<1> USE DEF Inv, letters
<1>1. /\ handler \in [Sockets -> HandlerSteps] /\ user \in [Sockets -> Users \cup {None}]
      /\ home \in [Sockets -> Gateways \cup {None}] /\ live \in SUBSET Sockets
      /\ connections \in [Gateways -> [Users -> Sockets \cup {None}]]
      /\ overlapped \in SUBSET Users
  BY DEF TypeOK
<1>2. /\ handler[s] = "none" /\ handler' = [handler EXCEPT ![s] = "added"]
      /\ user' = [user EXCEPT ![s] = u] /\ home' = [home EXCEPT ![s] = g]
      /\ live' = live \cup {s} /\ connections' = [connections EXCEPT ![g][u] = s]
      /\ overlapped' = IF HandlersOf(u) = {} THEN overlapped ELSE overlapped \cup {u}
      /\ UNCHANGED <<registered, consuming, letters, leaked, lingering, forgotten, missed>>
  BY DEF Open, Goto, IsNext
<1>3. \A t \in Sockets : /\ handler'[t] = IF t = s THEN "added" ELSE handler[t]
                         /\ user'[t] = IF t = s THEN u ELSE user[t]
                         /\ home'[t] = IF t = s THEN g ELSE home[t]
  BY <1>1, <1>2
<1>4. \A h \in Gateways, v \in Users :
        connections'[h][v] = IF h = g /\ v = u THEN s ELSE connections[h][v]
  BY <1>1, <1>2
<1>5. TypeOK'
  <2>1. handler' \in [Sockets -> HandlerSteps]
    BY <1>1, <1>2 DEF HandlerSteps
  <2>2. connections' \in [Gateways -> [Users -> Sockets \cup {None}]]
    BY <1>1, <1>2
  <2>3. user' \in [Sockets -> Users \cup {None}] /\ home' \in [Sockets -> Gateways \cup {None}]
    BY <1>1, <1>2
  <2>4. overlapped' \in SUBSET Users /\ live' \in SUBSET Sockets
    BY <1>1, <1>2
  <2> QED BY <1>2, <2>1, <2>2, <2>3, <2>4 DEF TypeOK
<1>6. user[s] = None /\ None \notin Users
  BY <1>2, GatewayAssumption DEF OpenedHasUser
<1>7. OpenedHasUser' /\ DriversOnly'
  BY <1>3 DEF OpenedHasUser, DriversOnly
<1>8. u \notin overlapped' => \A t \in Sockets : user[t] = u => handler[t] = "done"
  BY <1>1, <1>2 DEF HandlersOf
<1>9. overlapped \subseteq overlapped'
  BY <1>2
<1>10. OneHandler'
  <2> SUFFICES ASSUME NEW t \in Sockets, NEW r \in Sockets, user'[t] = user'[r],
                      user'[t] \in Users \ overlapped', handler'[t] # "done", handler'[r] # "done"
               PROVE  t = r
    BY DEF OneHandler
  <2>1. CASE t # s /\ r # s
    BY <1>3, <1>9, <2>1 DEF OneHandler
  <2>2. CASE t = s \/ r = s
    BY <1>3, <1>8, <2>2
  <2> QED BY <2>1, <2>2
<1>11. EntryIsKept' /\ RegistrationIsKept'
  <2>1. ASSUME NEW t \in Sockets, t # s, handler[t] \in Entered, user[t] \notin overlapped'
        PROVE  connections'[home[t]][user[t]] = t
    <3>1. user[t] # u
      BY <1>8, <2>1 DEF Entered
    <3>2. user[t] \in Users /\ home[t] \in Gateways
      BY <2>1 DEF OpenedHasUser, Entered
    <3> QED BY <1>4, <1>9, <2>1, <3>1, <3>2 DEF EntryIsKept
  <2>2. EntryIsKept'
    BY <1>3, <1>4, <2>1 DEF EntryIsKept
  <2>3. RegistrationIsKept'
    BY <1>2, <1>3, <1>9 DEF RegistrationIsKept
  <2> QED BY <2>2, <2>3
<1>12. EntriesHaveHandlers'
  <2> SUFFICES ASSUME NEW h \in Gateways, NEW v \in Users \ leaked, connections'[h][v] # None
               PROVE  LET t == connections'[h][v] IN
                      user'[t] = v /\ home'[t] = h
                      /\ handler'[t] \notin {"none", "unregistering", "done"}
    BY <1>2 DEF EntriesHaveHandlers
  <2>1. CASE h = g /\ v = u
    BY <1>3, <1>4, <2>1
  <2>2. CASE ~(h = g /\ v = u)
    <3> DEFINE t == connections[h][v]
    <3>1. connections'[h][v] = t /\ t # None /\ t \in Sockets
      BY <1>1, <1>4, <2>2
    <3>2. user[t] = v /\ home[t] = h /\ handler[t] \notin {"none", "unregistering", "done"}
      BY <3>1 DEF EntriesHaveHandlers
    <3>3. t # s
      BY <1>2, <3>2
    <3> QED BY <1>3, <3>1, <3>2, <3>3
  <2> QED BY <2>1, <2>2
<1>13. SentHasAddressee' /\ MissedIsSent' /\ (OneInstance => ServedIsReached)'
  BY <1>2, <1>9 DEF SentHasAddressee, MissedIsSent, ServedIsReached, OneInstance
<1> QED BY <1>5, <1>7, <1>10, <1>11, <1>12, <1>13

\* A cleanup removes the entry of its user; only a user with another handler has
\* an entry for something else.
LEMMA RemoveInv ==
  ASSUME Inv, NEW s \in Sockets, Remove(s)
  PROVE  Inv'
PROOF
<1> USE DEF Inv, letters, history
<1> DEFINE step == IF user[s] \in Riders THEN "done" ELSE "unregistering"
<1>1. /\ handler \in [Sockets -> HandlerSteps] /\ user \in [Sockets -> Users \cup {None}]
      /\ connections \in [Gateways -> [Users -> Sockets \cup {None}]]
      /\ live \in SUBSET Sockets
  BY DEF TypeOK
<1>2. /\ handler[s] = "leaving" /\ handler' = [handler EXCEPT ![s] = step]
      /\ connections' = [connections EXCEPT ![home[s]][user[s]] = None]
      /\ live' \in SUBSET live
      /\ UNCHANGED <<user, home, registered, consuming, letters, history>>
  BY DEF Remove, Goto
<1>3. user[s] \in Users /\ home[s] \in Gateways
  BY <1>2 DEF OpenedHasUser
<1>4. \A t \in Sockets : handler'[t] = IF t = s THEN step ELSE handler[t]
  BY <1>1, <1>2
<1>5. \A g \in Gateways, u \in Users :
        connections'[g][u] = IF g = home[s] /\ u = user[s] THEN None ELSE connections[g][u]
  BY <1>1, <1>2, <1>3
<1>6. TypeOK'
  <2>1. handler' \in [Sockets -> HandlerSteps]
    BY <1>1, <1>2 DEF HandlerSteps
  <2>2. connections' \in [Gateways -> [Users -> Sockets \cup {None}]]
    BY <1>1, <1>2, <1>3
  <2> QED BY <1>1, <1>2, <2>1, <2>2 DEF TypeOK
<1>7. OpenedHasUser' /\ DriversOnly'
  <2>1. step # "none" /\ (step = "unregistering" => user[s] \in Drivers)
    BY <1>3 DEF Users
  <2>2. OpenedHasUser'
    BY <1>2, <1>3, <1>4, <2>1 DEF OpenedHasUser
  <2>3. DriversOnly'
    <3> SUFFICES ASSUME NEW t \in Sockets,
                        handler'[t] \in {"awaiting location", "registered", "greeted", "unregistering"}
                 PROVE  user[t] \in Drivers
      BY <1>2 DEF DriversOnly
    <3>1. CASE t = s
      BY <1>4, <2>1, <3>1 DEF DriversOnly
    <3>2. CASE t # s
      BY <1>4, <3>2 DEF DriversOnly
    <3> QED BY <3>1, <3>2
  <2> QED BY <2>2, <2>3
<1>8. OneHandler' /\ RegistrationIsKept'
  BY <1>2, <1>4 DEF OneHandler, RegistrationIsKept
<1>9. EntryIsKept'
  <2> SUFFICES ASSUME NEW t \in Sockets, handler'[t] \in Entered, user[t] \notin overlapped
               PROVE  connections'[home[t]][user[t]] = t
    BY <1>2 DEF EntryIsKept
  <2>1. t # s /\ handler[t] \in Entered
    BY <1>4 DEF Entered
  <2>2. user[t] \in Users /\ home[t] \in Gateways
    BY <2>1 DEF OpenedHasUser, Entered
  <2>3. user[t] # user[s]
    BY <1>2, <2>1, <2>2 DEF OneHandler, Entered
  <2> QED BY <1>5, <2>1, <2>2, <2>3 DEF EntryIsKept
<1>10. EntriesHaveHandlers'
  <2> SUFFICES ASSUME NEW g \in Gateways, NEW u \in Users \ leaked, connections'[g][u] # None
               PROVE  LET t == connections'[g][u] IN
                      user[t] = u /\ home[t] = g
                      /\ handler'[t] \notin {"none", "unregistering", "done"}
    BY <1>2 DEF EntriesHaveHandlers
  <2> DEFINE t == connections[g][u]
  <2>1. connections'[g][u] = t /\ t # None /\ t \in Sockets /\ ~(g = home[s] /\ u = user[s])
    BY <1>1, <1>5
  <2>2. user[t] = u /\ home[t] = g /\ handler[t] \notin {"none", "unregistering", "done"}
    BY <2>1 DEF EntriesHaveHandlers
  <2> QED BY <1>4, <2>1, <2>2
<1>11. SentHasAddressee' /\ MissedIsSent' /\ (OneInstance => ServedIsReached)'
  BY <1>2 DEF SentHasAddressee, MissedIsSent, ServedIsReached, OneInstance
<1> QED BY <1>6, <1>7, <1>8, <1>9, <1>10, <1>11

-----------------------------------------------------------------------------
(* Processes that end *)

\* An instance that ends takes its handlers and its entries with it.
LEMMA GatewayEndsInv ==
  ASSUME Inv, NEW g \in Gateways, GatewayEnds(g)
  PROVE  Inv'
PROOF
<1> USE DEF Inv, letters
<1> DEFINE ended == {s \in Sockets : home[s] = g /\ handler[s] # "done"}
<1>1. /\ handler \in [Sockets -> HandlerSteps] /\ registered \in SUBSET Drivers
      /\ connections \in [Gateways -> [Users -> Sockets \cup {None}]]
      /\ consuming \in [Gateways -> SUBSET {"rider", "driver"}]
      /\ live \in SUBSET Sockets /\ lingering \in SUBSET Users
  BY DEF TypeOK
<1>2. /\ handler' = [s \in Sockets |-> IF s \in ended THEN "done" ELSE handler[s]]
      /\ live' = live \ ended
      /\ connections' = [connections EXCEPT ![g] = [u \in Users |-> None]]
      /\ consuming' = [consuming EXCEPT ![g] = {}]
      /\ lingering' = lingering \cup ({user[s] : s \in ended} \cap registered)
      /\ UNCHANGED <<user, home, registered, letters, overlapped, leaked, forgotten, missed>>
  BY DEF GatewayEnds
<1>3. \A s \in Sockets : handler'[s] \in {handler[s], "done"}
                        /\ (handler'[s] # "done" => home[s] # g)
  BY <1>2
<1>4. \A h \in Gateways, u \in Users :
        connections'[h][u] = IF h = g THEN None ELSE connections[h][u]
  BY <1>1, <1>2
<1>5. TypeOK'
  <2>1. handler' \in [Sockets -> HandlerSteps]
    BY <1>1, <1>2 DEF HandlerSteps
  <2>2. connections' \in [Gateways -> [Users -> Sockets \cup {None}]]
    BY <1>1, <1>2
  <2>3. consuming' \in [Gateways -> SUBSET {"rider", "driver"}]
    BY <1>1, <1>2
  <2>4. lingering' \in SUBSET Users /\ live' \in SUBSET Sockets
    BY <1>1, <1>2 DEF Users
  <2> QED BY <1>2, <2>1, <2>2, <2>3, <2>4 DEF TypeOK
<1>6. OpenedHasUser' /\ DriversOnly'
  <2>1. ASSUME NEW s \in Sockets
        PROVE  handler'[s] = "none" <=> handler[s] = "none"
    <3>1. CASE s \in ended
      <4>1. handler[s] # "none"
        BY <3>1, GatewayAssumption DEF OpenedHasUser
      <4> QED BY <1>2, <3>1, <4>1
    <3>2. CASE s \notin ended
      BY <1>2, <3>2
    <3> QED BY <3>1, <3>2
  <2>2. OpenedHasUser'
    BY <1>2, <2>1 DEF OpenedHasUser
  <2>3. DriversOnly'
    BY <1>2, <1>3 DEF DriversOnly
  <2> QED BY <2>2, <2>3
<1>7. OneHandler' /\ RegistrationIsKept'
  BY <1>2, <1>3 DEF OneHandler, RegistrationIsKept
<1>8. EntryIsKept'
  <2> SUFFICES ASSUME NEW s \in Sockets, handler'[s] \in Entered, user[s] \notin overlapped
               PROVE  connections'[home[s]][user[s]] = s
    BY <1>2 DEF EntryIsKept
  <2>1. handler[s] \in Entered /\ home[s] # g
    BY <1>3 DEF Entered
  <2>2. user[s] \in Users /\ home[s] \in Gateways
    BY <2>1 DEF OpenedHasUser, Entered
  <2> QED BY <1>4, <2>1, <2>2 DEF EntryIsKept
<1>9. EntriesHaveHandlers'
  <2> SUFFICES ASSUME NEW h \in Gateways, NEW u \in Users \ leaked, connections'[h][u] # None
               PROVE  LET s == connections'[h][u] IN
                      user[s] = u /\ home[s] = h
                      /\ handler'[s] \notin {"none", "unregistering", "done"}
    BY <1>2 DEF EntriesHaveHandlers
  <2> DEFINE s == connections[h][u]
  <2>1. connections'[h][u] = s /\ h # g /\ s # None /\ s \in Sockets
    BY <1>1, <1>4
  <2>2. user[s] = u /\ home[s] = h /\ handler[s] \notin {"none", "unregistering", "done"}
    BY <2>1 DEF EntriesHaveHandlers
  <2>3. handler'[s] = handler[s]
    BY <1>2, <2>1, <2>2
  <2> QED BY <2>1, <2>2, <2>3
<1>10. SentHasAddressee' /\ MissedIsSent' /\ (OneInstance => ServedIsReached)'
  BY <1>2 DEF SentHasAddressee, MissedIsSent, ServedIsReached, OneInstance
<1> QED BY <1>5, <1>6, <1>7, <1>8, <1>9, <1>10

\* A restart of driver-service forgets whom it has registered.
LEMMA DriverServiceEndsInv ==
  ASSUME Inv, DriverServiceEnds
  PROVE  Inv'
PROOF
<1> USE DEF Inv, letters, sockets
<1>1. /\ registered' = {} /\ lingering' = {} /\ forgotten' = forgotten \cup registered
      /\ UNCHANGED <<sockets, connections, consuming, letters, overlapped, leaked, missed>>
  BY DEF DriverServiceEnds
<1>2. TypeOK'
  BY <1>1 DEF TypeOK
<1>3. RegistrationIsKept'
  BY <1>1 DEF RegistrationIsKept
<1>4. OpenedHasUser' /\ DriversOnly' /\ OneHandler' /\ EntryIsKept' /\ EntriesHaveHandlers'
  BY <1>1 DEF OpenedHasUser, DriversOnly, OneHandler, EntryIsKept, EntriesHaveHandlers
<1>5. SentHasAddressee' /\ MissedIsSent' /\ (OneInstance => ServedIsReached)'
  BY <1>1 DEF SentHasAddressee, MissedIsSent, ServedIsReached, OneInstance
<1> QED BY <1>2, <1>3, <1>4, <1>5

-----------------------------------------------------------------------------
(* Messages *)

\* A message goes its way; a consumer that does not find a user who is served has
\* come upon sockets that have overlapped.
LEMMA MessageInv ==
  ASSUME Inv,
         \/ \E m \in Messages, u \in Users : Publish(m, u)
         \/ \E m \in Messages, g \in Gateways : Take(g, m)
         \/ \E m \in Messages : Write(m)
  PROVE  Inv'
PROOF
<1> USE DEF Inv, sockets, history
<1> DEFINE Stages == {"unsent", "queued", "writing", "delivered", "lost"}
<1>1. UNCHANGED <<sockets, connections, registered, consuming, overlapped, leaked, lingering,
                  forgotten>>
  BY DEF Publish, Take, Write
<1>2. OpenedHasUser' /\ DriversOnly' /\ OneHandler' /\ EntryIsKept' /\ RegistrationIsKept'
      /\ EntriesHaveHandlers'
  BY <1>1
  DEF OpenedHasUser, DriversOnly, OneHandler, EntryIsKept, RegistrationIsKept, EntriesHaveHandlers
<1>3. /\ mail \in [Messages -> [at : Stages, socket : Sockets \cup {None}]]
      /\ addressee \in [Messages -> Users \cup {None}] /\ missed \in SUBSET Messages
      /\ connections \in [Gateways -> [Users -> Sockets \cup {None}]]
  BY DEF TypeOK
<1>4. SUFFICES /\ mail' \in [Messages -> [at : Stages, socket : Sockets \cup {None}]]
               /\ addressee' \in [Messages -> Users \cup {None}] /\ missed' \in SUBSET Messages
               /\ SentHasAddressee' /\ MissedIsSent' /\ (OneInstance => ServedIsReached)'
  BY <1>1, <1>2 DEF TypeOK
<1>5. ASSUME NEW m \in Messages, NEW u \in Users, Publish(m, u) PROVE <1>4!1
  <2>1. /\ mail[m].at = "unsent" /\ addressee' = [addressee EXCEPT ![m] = u]
        /\ mail' = [mail EXCEPT ![m].at = "queued"] /\ missed' = missed
    BY <1>5 DEF Publish
  <2>2. m \notin missed
    BY <2>1 DEF MissedIsSent
  <2>3. \A n \in Messages : n # m => mail'[n] = mail[n] /\ addressee'[n] = addressee[n]
    BY <1>3, <2>1
  <2>4. mail'[m].at = "queued" /\ addressee'[m] = u
    BY <1>3, <2>1
  <2>5. SentHasAddressee' /\ MissedIsSent'
    BY <1>3, <2>1, <2>2, <2>3, <2>4 DEF SentHasAddressee, MissedIsSent
  <2>6. (OneInstance => ServedIsReached)'
    BY <1>1, <1>3, <2>1, <2>2, <2>3 DEF ServedIsReached, OneInstance
  <2> QED BY <1>3, <2>1, <2>5, <2>6
<1>6. ASSUME NEW m \in Messages, NEW g \in Gateways, Take(g, m) PROVE <1>4!1
  <2> DEFINE u == addressee[m]
             found == connections[g][u]
             at == IF found = None THEN "lost" ELSE "writing"
  <2>1. /\ mail[m].at = "queued" /\ mail' = [mail EXCEPT ![m] = [at |-> at, socket |-> found]]
        /\ missed' = IF found \notin live /\ Served(u) THEN missed \cup {m} ELSE missed
        /\ addressee' = addressee
    BY <1>6 DEF Take
  <2>2. u \in Users /\ found \in Sockets \cup {None}
    BY <1>3, <2>1 DEF SentHasAddressee
  <2>3. \A n \in Messages : mail'[n] = IF n = m THEN [at |-> at, socket |-> found] ELSE mail[n]
    BY <1>3, <2>1
  <2>4. SentHasAddressee' /\ MissedIsSent'
    BY <1>3, <2>1, <2>2, <2>3 DEF SentHasAddressee, MissedIsSent
  <2>5. ASSUME OneInstance, found \notin live, Served(u) PROVE u \in overlapped
    <3>1. PICK s \in Sockets : user[s] = u /\ s \in live /\ handler[s] = "serving"
      BY <2>5 DEF Served, HandlersOf
    <3>2. home[s] = g
      BY <2>5, <3>1 DEF OneInstance, OpenedHasUser
    <3> QED BY <2>5, <3>1, <3>2 DEF EntryIsKept, Entered
  <2>6. (OneInstance => ServedIsReached)'
    BY <1>1, <2>1, <2>5 DEF ServedIsReached, OneInstance
  <2>7. mail' \in [Messages -> [at : Stages, socket : Sockets \cup {None}]]
    BY <1>3, <2>1, <2>2
  <2> QED BY <1>3, <2>1, <2>4, <2>6, <2>7
<1>7. ASSUME NEW m \in Messages, Write(m) PROVE <1>4!1
  <2> DEFINE at == IF mail[m].socket \in live THEN "delivered" ELSE "lost"
  <2>1. /\ mail[m].at = "writing"
        /\ mail' = [mail EXCEPT ![m] = [at |-> at, socket |-> None]]
        /\ missed' = missed /\ addressee' = addressee
    BY <1>7 DEF Write, letters
  <2>2. \A n \in Messages : mail'[n].at = IF n = m THEN at ELSE mail[n].at
    BY <1>3, <2>1
  <2>3. SentHasAddressee' /\ MissedIsSent'
    BY <1>3, <2>1, <2>2 DEF SentHasAddressee, MissedIsSent
  <2>4. (OneInstance => ServedIsReached)'
    BY <1>1, <2>1 DEF ServedIsReached, OneInstance
  <2> QED BY <1>3, <2>1, <2>3, <2>4
<1> QED BY <1>5, <1>6, <1>7

-----------------------------------------------------------------------------
(* Registrations *)

\* The steps of a handler that has registered its driver and not unregistered it.
Holding == {"registered", "greeted", "serving", "leaving", "unregistering"}

Held(d) == \E s \in Sockets : user[s] = d /\ handler[s] \in Holding

\* RegistrationHasHandler says this of the drivers who are registered.
LEMMA HeldHasHandler ==
  RegistrationHasHandler <=> \A d \in registered \ lingering : Held(d)
PROOF
<1> QED BY DEF RegistrationHasHandler, HandlersOf, Held, Holding

\* A handler that registers, holds or gives up the registration of its own driver
\* leaves those of the others alone.
LEMMA StaysHeld ==
  ASSUME RegistrationHasHandler, NEW s \in Sockets, user' = user,
         \A t \in Sockets : t # s => handler'[t] = handler[t],
         registered' \ lingering' \subseteq (registered \ lingering) \cup {user[s]},
         user[s] \in registered' \ lingering' =>
           \/ handler'[s] \in Holding
           \/ user[s] \in registered \ lingering /\ handler[s] \notin Holding
  PROVE  RegistrationHasHandler'
PROOF
<1> SUFFICES ASSUME NEW d \in registered' \ lingering' PROVE Held(d)'
  BY HeldHasHandler DEF RegistrationHasHandler, HandlersOf, Held, Holding
<1>1. CASE d = user[s] /\ handler'[s] \in Holding
  BY <1>1 DEF Held
<1>2. CASE ~(d = user[s] /\ handler'[s] \in Holding)
  <2>1. d \in registered \ lingering
    BY <1>2
  <2>2. PICK t \in Sockets : user[t] = d /\ handler[t] \in Holding
    BY <2>1, HeldHasHandler DEF Held
  <2>3. t # s
    BY <1>2, <2>2
  <2> QED BY <2>2, <2>3 DEF Held
<1> QED BY <1>1, <1>2

\* However the handlers of a driver overlap, the last one to hold a registration
\* gives it up.
LEMMA HandlerHolds ==
  ASSUME Inv, RegistrationHasHandler, NEW s \in Sockets, Handler(s)
  PROVE  RegistrationHasHandler'
PROOF
<1> USE DEF history, Goto
<1>1. handler \in [Sockets -> HandlerSteps] /\ registered \in SUBSET Drivers
  BY DEF Inv, TypeOK
<1>2. user' = user /\ \A t \in Sockets : t # s => handler'[t] = handler[t]
  BY <1>1 DEF Handler, MakeClient, MakeClientFails, Register, RegisterFails, Greet,
     StartConsumers, ReadFails, Remove, Unregister, UnregisterFails
<1>3. CASE \/ MakeClient(s) \/ MakeClientFails(s) \/ RegisterFails(s) \/ Greet(s)
           \/ StartConsumers(s) \/ ReadFails(s) \/ Remove(s)
  <2>1. UNCHANGED <<registered, lingering>>
    BY <1>3 DEF MakeClient, MakeClientFails, RegisterFails, Greet, StartConsumers,
       ReadFails, Remove
  <2>2. user[s] \in Drivers => handler'[s] \in Holding \/ handler[s] \notin Holding
    BY <1>1, <1>3, GatewayAssumption
       DEF MakeClient, MakeClientFails, RegisterFails, Greet, StartConsumers, ReadFails,
           Remove, Holding
  <2> QED BY <1>1, <1>2, <2>1, <2>2, StaysHeld
<1>4. CASE Register(s)
  <2>1. registered' = registered \cup {user[s]} /\ lingering' = lingering
        /\ handler'[s] \in Holding
    BY <1>1, <1>4 DEF Register, Holding
  <2> QED BY <1>2, <2>1, StaysHeld
<1>5. CASE Unregister(s)
  <2>1. registered' = registered \ {user[s]} /\ lingering' = lingering \ {user[s]}
    BY <1>5 DEF Unregister
  <2> QED BY <1>2, <2>1, StaysHeld
<1>6. CASE UnregisterFails(s)
  <2>1. registered' = registered /\ lingering' = lingering \cup ({user[s]} \cap registered)
    BY <1>6 DEF UnregisterFails
  <2> QED BY <1>2, <2>1, StaysHeld
<1> QED BY <1>3, <1>4, <1>5, <1>6 DEF Handler

LEMMA NextHolds ==
  Inv /\ RegistrationHasHandler /\ [Next]_vars => RegistrationHasHandler'
PROOF
<1> SUFFICES ASSUME Inv, RegistrationHasHandler, [Next]_vars PROVE RegistrationHasHandler'
  OBVIOUS
<1>1. user \in [Sockets -> Users \cup {None}]
  BY DEF Inv, TypeOK
<1>2. ASSUME NEW s \in Sockets, NEW g \in Gateways, NEW u \in Users, Open(s, g, u)
      PROVE  RegistrationHasHandler'
  <2>1. /\ handler[s] = "none" /\ UNCHANGED <<registered, lingering>>
        /\ \A t \in Sockets : t # s => handler'[t] = handler[t] /\ user'[t] = user[t]
    BY <1>1, <1>2 DEF Open, Goto, IsNext, Inv, TypeOK
  <2>2. ASSUME NEW d \in registered \ lingering PROVE Held(d)'
    <3>1. PICK t \in Sockets : user[t] = d /\ handler[t] \in Holding
      BY HeldHasHandler DEF Held
    <3>2. t # s
      BY <2>1, <3>1 DEF Holding
    <3> QED BY <2>1, <3>1, <3>2 DEF Held
  <2> QED BY <2>1, <2>2 DEF RegistrationHasHandler, HandlersOf, Held, Holding
<1>3. ASSUME NEW g \in Gateways, GatewayEnds(g) PROVE RegistrationHasHandler'
  <2> DEFINE ended == {s \in Sockets : home[s] = g /\ handler[s] # "done"}
  <2>1. /\ \A s \in Sockets : s \notin ended => handler'[s] = handler[s]
        /\ lingering' = lingering \cup ({user[s] : s \in ended} \cap registered)
        /\ UNCHANGED <<user, registered>>
    BY <1>3 DEF GatewayEnds
  <2>2. ASSUME NEW d \in registered \ lingering' PROVE Held(d)'
    <3>1. PICK t \in Sockets : user[t] = d /\ handler[t] \in Holding
      BY <2>1, HeldHasHandler DEF Held
    <3>2. t \notin ended
      BY <2>1, <3>1
    <3> HIDE DEF ended
    <3> QED BY <2>1, <3>1, <3>2 DEF Held
  <2> HIDE DEF ended
  <2> QED BY <2>1, <2>2 DEF RegistrationHasHandler, HandlersOf, Held, Holding
<1>4. CASE DriverServiceEnds
  BY <1>4 DEF DriverServiceEnds, RegistrationHasHandler
<1>5. CASE UNCHANGED <<user, handler, registered, lingering>>
  BY <1>5 DEF RegistrationHasHandler, HandlersOf
<1>6. CASE \/ \E s \in Sockets : Hangup(s)
           \/ \E m \in Messages, u \in Users : Publish(m, u)
           \/ \E m \in Messages, g \in Gateways : Take(g, m)
           \/ \E m \in Messages : Write(m)
           \/ UNCHANGED vars
  BY <1>5, <1>6 DEF Hangup, Publish, Take, Write, vars, sockets, history
<1> QED BY <1>2, <1>3, <1>4, <1>6, HandlerHolds DEF Next

-----------------------------------------------------------------------------
(* The theorems *)

LEMMA NextInv == Inv /\ [Next]_vars => Inv'
PROOF
<1> SUFFICES ASSUME Inv, [Next]_vars PROVE Inv'
  OBVIOUS
<1>1. CASE \E s \in Sockets, g \in Gateways, u \in Users : Open(s, g, u)
  BY <1>1, OpenInv
<1>2. CASE \E s \in Sockets : Handler(s)
  BY <1>2, HandlerInv, RemoveInv
<1>3. CASE UNCHANGED <<user, home, handler, connections, registered, consuming, letters, history>>
           /\ live' \in SUBSET live
  <2> USE DEF Inv, letters, history
  <2>1. TypeOK'
    BY <1>3 DEF TypeOK
  <2>2. OpenedHasUser' /\ DriversOnly' /\ OneHandler' /\ EntryIsKept' /\ RegistrationIsKept'
        /\ EntriesHaveHandlers'
    BY <1>3
    DEF OpenedHasUser, DriversOnly, OneHandler, EntryIsKept, RegistrationIsKept,
        EntriesHaveHandlers
  <2>3. SentHasAddressee' /\ MissedIsSent' /\ (OneInstance => ServedIsReached)'
    BY <1>3 DEF SentHasAddressee, MissedIsSent, ServedIsReached, OneInstance
  <2> QED BY <2>1, <2>2, <2>3
<1>4. CASE \E s \in Sockets : Hangup(s)
  BY <1>3, <1>4 DEF Hangup
<1>5. CASE \/ \E m \in Messages, u \in Users : Publish(m, u)
           \/ \E m \in Messages, g \in Gateways : Take(g, m)
           \/ \E m \in Messages : Write(m)
  BY <1>5, MessageInv
<1>6. CASE \E g \in Gateways : GatewayEnds(g)
  BY <1>6, GatewayEndsInv
<1>7. CASE DriverServiceEnds
  BY <1>7, DriverServiceEndsInv
<1>8. CASE UNCHANGED vars
  BY <1>3, <1>8 DEF vars, sockets
<1> QED BY <1>1, <1>2, <1>4, <1>5, <1>6, <1>7, <1>8 DEF Next

\* The strengthening holds in every reachable state of the gateway's websockets.
THEOREM Invariance == Spec => []Inv
PROOF
<1> QED BY InitInv, NextInv, PTL DEF Spec

\* Every variable stays in its domain; in particular only drivers are registered.
THEOREM TypeCorrect == Spec => []TypeOK
PROOF
<1>1. Inv => TypeOK
  BY DEF Inv
<1> QED BY <1>1, Invariance, PTL

\* No entry of any manager outlives its handler, unless a handler returned before
\* its cleanup.
THEOREM EntriesBelongToHandlers == Spec => []EntriesHaveHandlers
PROOF
<1>1. Inv => EntriesHaveHandlers
  BY DEF Inv
<1> QED BY <1>1, Invariance, PTL

\* A user who is served is found by the manager, and a driver by the matching,
\* unless sockets of that user have overlapped or driver-service was restarted.
THEOREM ServedUsersAreFound == Spec => []ServedIsFound
PROOF
<1>1. Inv => ServedIsFound
  BY DEF Inv, ServedIsFound, EntryIsKept, RegistrationIsKept, Entered
<1> QED BY <1>1, Invariance, PTL

\* With one instance of the gateway, a message misses a user who is served only if
\* sockets of that user have overlapped.
THEOREM ServedUsersAreReached == ASSUME OneInstance PROVE Spec => []ServedIsReached
PROOF
<1>1. Inv => ServedIsReached
  BY DEF Inv
<1> QED BY <1>1, Invariance, PTL

\* In whatever order the handlers of a driver register and clean up, a registration
\* that none of them will give up is there only after an unregistering has failed or
\* a gateway has ended.
THEOREM RegistrationsAreHeld == Spec => []RegistrationHasHandler
PROOF
<1>1. Init => RegistrationHasHandler
  BY DEF Init, RegistrationHasHandler
<1> QED BY <1>1, NextHolds, Invariance, PTL DEF Spec

=============================================================================

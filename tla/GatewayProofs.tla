----------------------------- MODULE GatewayProofs -----------------------------
(***************************************************************************)
(* Proofs about Gateway, for any number of calls of connect(), identities  *)
(* and events.                                                             *)
(***************************************************************************)
EXTENDS Gateway, TLAPS

Types == TypeOK /\ SessionIsAlive
Alone == Types /\ OneRuns /\ StoredIsHeld

\* What a step may do to the chains: at most one moves, to a place where it
\* holds credentials or not as its type says; only Connect starts one running.
Moved(k, pc, c) ==
  /\ k \in Chains /\ [pc |-> pc, creds |-> c] \in Chain
  /\ pc \in Made \cup {"making"} <=> c # NULL
  /\ Go(k, pc, c)

LEMMA MovedType ==
  ASSUME TypeOK, NEW k, NEW pc, NEW c, Moved(k, pc, c)
  PROVE  /\ chain' \in [Chains -> Chain]
         /\ \A j \in Chains : chain'[j].pc \in Made \cup {"making"} <=> chain'[j].creds # NULL
         /\ chain'[k] = [pc |-> pc, creds |-> c]
         /\ \A j \in Chains \ {k} : chain'[j] = chain[j]
BY DEF TypeOK, Moved, Go, In, Chain

\* Credentials in memory are credentials; a chain that is not idle, called or
\* starting holds some.
LEMMA HeldCreds ==
  ASSUME TypeOK, NEW k \in Chains
  PROVE  /\ chain[k] \in Chain /\ chain[k] = [pc |-> chain[k].pc, creds |-> chain[k].creds]
         /\ In(k, Made \cup {"making"}) => chain[k].creds \in Creds /\ chain[k].creds # NULL
         /\ Holds(k, TRUE) \/ Holds(k, FALSE) => chain[k].creds # NULL
BY DEF TypeOK, Chain, Holds

\* setStatus keeps the session's socket.
LEMMA ShownType ==
  ASSUME TypeOK, NEW s \in Statuses
  PROVE  /\ Shown(s) \in [of: Chains, status: Statuses] \cup {NULL}
         /\ Shown(s) # NULL => session # NULL /\ Shown(s).of = session.of
BY DEF TypeOK, Shown

\* How a step moves the chain it is about.
LEMMA StartMoves ==
  ASSUME TypeOK, NEW k \in Chains
  PROVE  /\ Reconnect(k) => Moved(k, "called", NULL)
         /\ WritePending(k) => Moved(k, "checking", NULL)
         /\ Connect(k) => Moved(k, "idle", NULL) \/ Moved(k, "loading", NULL)
         /\ LoadFails(k) => Moved(k, "idle", NULL)
         /\ TimerFires(k) => Moved(k, "loading", NULL)
<1> USE DEF Moved, Step, End, At, In, Chain, Calling, Running, Made, Alive
<1>1. \A j \in Chains : chain[j].pc \in {"idle", "called", "checking", "loading"} => chain[j].creds = NULL
  BY DEF TypeOK
<1>2. Reconnect(k) => Moved(k, "called", NULL)
  BY <1>1 DEF Reconnect
<1>3. WritePending(k) => Moved(k, "checking", NULL)
  BY <1>1 DEF WritePending
<1>4. Connect(k) => Moved(k, "idle", NULL) \/ Moved(k, "loading", NULL)
  BY <1>1 DEF Connect
<1>5. LoadFails(k) => Moved(k, "idle", NULL)
  BY DEF LoadFails
<1>6. TimerFires(k) => Moved(k, "loading", NULL)
  BY DEF TimerFires
<1> QED BY <1>2, <1>3, <1>4, <1>5, <1>6

LEMMA ResumeMoves ==
  ASSUME TypeOK, ResumeAll
  PROVE  UNCHANGED chain \/ \E k \in Chains : Moved(k, "called", NULL)
<1>1. \A k \in Chains : At(k, "idle") => chain[k].creds = NULL
  BY DEF TypeOK, At, In, Made, Alive
<1> QED BY <1>1 DEF ResumeAll, Moved, Step, Chain, Calling, Made, Alive

LEMMA SocketMoves ==
  ASSUME TypeOK, NEW k \in Chains
  PROVE  /\ LoadAuth(k) => \E c \in Creds : Moved(k, "making", c)
         /\ MakeSocket(k) => Moved(k, "opening", chain[k].creds)
         /\ Qr(k) => Moved(k, "qr", chain[k].creds)
         /\ Scan(k) => \E c \in Creds : Moved(k, "restarting", c) /\ auth' = c
         /\ Opens(k) => Moved(k, "open", chain[k].creds)
         /\ Drops(k) => Moved(k, "waiting", chain[k].creds)
         /\ LoggedOut(k) => Moved(k, "idle", NULL)
<1> USE DEF Moved, Step, End, At, Chain, Calling, Running, Made, Alive
<1>1. LoadAuth(k) => \E c \in Creds : Moved(k, "making", c)
  <2> HAVE LoadAuth(k)
  <2>1. CASE auth # NULL
    BY <2>1, GatewayAssumption DEF LoadAuth, TypeOK, GatewayAssumption
  <2>2. CASE auth = NULL
    <3> PICK d \in Devices : Go(k, "making", [device |-> d, paired |-> FALSE])
      BY <2>2 DEF LoadAuth
    <3>1. [device |-> d, paired |-> FALSE] \in Creds
      BY DEF Creds
    <3> HIDE DEF Creds
    <3> QED BY <3>1, GatewayAssumption DEF GatewayAssumption
  <2> QED BY <2>1, <2>2
<1>2. MakeSocket(k) => Moved(k, "opening", chain[k].creds)
  BY HeldCreds DEF MakeSocket, In
<1>3. Qr(k) => Moved(k, "qr", chain[k].creds)
  BY HeldCreds DEF Qr, In
<1>4. Scan(k) => \E c \in Creds : Moved(k, "restarting", c) /\ auth' = c
  <2> HAVE Scan(k)
  <2> DEFINE c == [chain[k].creds EXCEPT !.paired = TRUE]
  <2>1. chain[k].creds \in Creds
    BY HeldCreds DEF Scan, In
  <2>2. c \in Creds
    BY <2>1 DEF Creds
  <2>3. Go(k, "restarting", c) /\ auth' = c
    BY DEF Scan
  <2> HIDE DEF c
  <2> QED BY <2>2, <2>3, GatewayAssumption DEF GatewayAssumption
<1>5. Opens(k) => Moved(k, "open", chain[k].creds)
  BY HeldCreds DEF Opens, In
<1>6. Drops(k) => Moved(k, "waiting", chain[k].creds)
  BY HeldCreds DEF Drops, ScheduleReconnect, In
<1>7. LoggedOut(k) => Moved(k, "idle", NULL)
  BY DEF LoggedOut
<1> QED BY <1>1, <1>2, <1>3, <1>4, <1>5, <1>6, <1>7

\* A step keeps the types when it moves one chain, keeps the others' types, and
\* leaves the session with a socket that is still there.
LEMMA KeepsTypes ==
  ASSUME Types,
         UNCHANGED chain \/ \E k \in Chains : \E pc, c : Moved(k, pc, c),
         row' \in Statuses, auth' \in Creds \cup {NULL},
         session' \in [of: Chains, status: Statuses] \cup {NULL},
         session' # NULL => chain'[session'.of].pc \in Made,
         linked' \subseteq Devices, events' \in 0..MaxEvents,
         logout' \in {"none", "asked", "delete", "clear", "out", "mark"},
         booting' \in BOOLEAN, failed' \in BOOLEAN, overlapped' \in BOOLEAN
  PROVE  Types'
<1>1. chain' \in [Chains -> Chain]
      /\ \A j \in Chains : chain'[j].pc \in Made \cup {"making"} <=> chain'[j].creds # NULL
  <2>1. CASE UNCHANGED chain
    BY <2>1 DEF Types, TypeOK, In
  <2>2. CASE \E k \in Chains : \E pc, c : Moved(k, pc, c)
    BY <2>2, MovedType DEF Types
  <2> QED BY <2>1, <2>2
<1> QED BY <1>1 DEF Types, TypeOK, SessionIsAlive, In

\* The session's socket is still there after a step that moves chain k to a
\* place with a socket, or that moves a chain that had none.
LEMMA SessionStays ==
  ASSUME Types, NEW k \in Chains, NEW pc, NEW c, Moved(k, pc, c),
         pc \in Made \/ ~In(k, Made)
  PROVE  session # NULL => chain'[session.of].pc \in Made
<1>1. session # NULL => session.of \in Chains /\ chain[session.of].pc \in Made
  BY DEF Types, TypeOK, SessionIsAlive, In
<1>2. chain'[k] = [pc |-> pc, creds |-> c] /\ \A j \in Chains \ {k} : chain'[j] = chain[j]
  BY MovedType DEF Types
<1>3. chain'[k].pc = pc
  BY <1>2
<1> QED BY <1>1, <1>2, <1>3 DEF In

LEMMA EventType ==
  ASSUME TypeOK, Event \/ UNCHANGED events
  PROVE  events' \in 0..MaxEvents
BY GatewayAssumption DEF GatewayAssumption, TypeOK, Event

LEMMA TypesStart ==
  ASSUME Types, NEW k \in Chains, Start(k) \/ Reconnect(k) \/ LoadFails(k)
  PROVE  Types'
<1> USE DEF Types
<1>1. CASE Reconnect(k)
  <2>1. Moved(k, "called", NULL) /\ ~In(k, Made)
    BY <1>1, StartMoves DEF Reconnect, At, In, Made, Alive
  <2>2. session' # NULL => chain'[session'.of].pc \in Made
    BY <1>1, <2>1, SessionStays DEF Reconnect
  <2> QED BY <1>1, <2>1, <2>2, KeepsTypes, EventType DEF Reconnect, TypeOK
<1>2. CASE WritePending(k)
  <2>1. Moved(k, "checking", NULL) /\ ~In(k, Made)
    BY <1>2, StartMoves DEF WritePending, At, In, Made, Alive
  <2>2. row' \in Statuses
    BY <1>2 DEF WritePending, TypeOK, Statuses
  <2>3. session' # NULL => chain'[session'.of].pc \in Made
    BY <1>2, <2>1, SessionStays DEF WritePending
  <2> QED BY <1>2, <2>1, <2>2, <2>3, KeepsTypes DEF WritePending, TypeOK
<1>3. CASE Connect(k)
  <2>1. PICK pc : Moved(k, pc, NULL) /\ ~In(k, Made)
    BY <1>3, StartMoves DEF Connect, At, In, Made, Alive
  <2>2. session' # NULL => chain'[session'.of].pc \in Made
    BY <1>3, <2>1, SessionStays DEF Connect
  <2>3. failed' \in BOOLEAN /\ overlapped' \in BOOLEAN
    BY <1>3 DEF Connect, TypeOK
  <2> QED BY <1>3, <2>1, <2>2, <2>3, KeepsTypes DEF Connect, TypeOK
<1>4. CASE LoadAuth(k)
  <2>1. PICK c \in Creds : Moved(k, "making", c)
    BY <1>4, SocketMoves
  <2>2. ~In(k, Made) /\ linked' \subseteq Devices
    BY <1>4 DEF LoadAuth, TypeOK, At, In, Made, Alive
  <2>3. session' # NULL => chain'[session'.of].pc \in Made
    BY <1>4, <2>1, <2>2, SessionStays DEF LoadAuth
  <2> QED BY <1>4, <2>1, <2>2, <2>3, KeepsTypes DEF LoadAuth, TypeOK
<1>5. CASE MakeSocket(k)
  <2>1. PICK c : Moved(k, "opening", c)
    BY <1>5, SocketMoves
  <2>0. chain'[k] = [pc |-> "opening", creds |-> c]
    BY <2>1, MovedType
  <2>2. session' = [of |-> k, status |-> "PENDING"] /\ chain'[k].pc \in Made
    BY <1>5, <2>0 DEF MakeSocket, Made, Alive
  <2>3. session' \in [of: Chains, status: Statuses] /\ session'.of = k
    BY <2>2 DEF Statuses
  <2>4. auth' \in Creds \cup {NULL}
    BY <1>5, HeldCreds DEF MakeSocket, At, In
  <2>5. chain'[session'.of].pc \in Made
    BY <2>2, <2>3
  <2> HIDE DEF Types
  <2>6. /\ row' \in Statuses /\ linked' \subseteq Devices /\ events' \in 0..MaxEvents
        /\ logout' \in {"none", "asked", "delete", "clear", "out", "mark"}
        /\ booting' \in BOOLEAN /\ failed' \in BOOLEAN /\ overlapped' \in BOOLEAN
    BY <1>5 DEF MakeSocket, Types, TypeOK
  <2> QED BY <2>1, <2>3, <2>4, <2>5, <2>6, KeepsTypes
<1>6. CASE TimerFires(k)
  <2>1. Moved(k, "loading", NULL)
    BY <1>6, StartMoves
  <2> QED BY <1>6, <2>1, KeepsTypes DEF TimerFires, TypeOK
<1>7. CASE LoadFails(k)
  <2>1. Moved(k, "idle", NULL) /\ ~In(k, Made)
    BY <1>7, StartMoves DEF LoadFails, At, In, Made, Alive
  <2>2. session' # NULL => chain'[session'.of].pc \in Made
    BY <1>7, <2>1, SessionStays DEF LoadFails
  <2> QED BY <1>7, <2>1, <2>2, KeepsTypes, EventType DEF LoadFails, TypeOK
<1> QED BY <1>1, <1>2, <1>3, <1>4, <1>5, <1>6, <1>7 DEF Start

\* The events of a socket.
LEMMA TypesSocket ==
  ASSUME Types, NEW k \in Chains,
         Persist(k) \/ Qr(k) \/ Scan(k) \/ Opens(k) \/ Expelled(k) \/ Drops(k)
  PROVE  Types'
<1> USE DEF Types
<1>0. ASSUME NEW s \in Statuses, NEW pc \in Made, NEW c, SetStatus(s), Moved(k, pc, c)
      PROVE  /\ row' \in Statuses /\ session' \in [of: Chains, status: Statuses] \cup {NULL}
             /\ session' # NULL => chain'[session'.of].pc \in Made
  BY <1>0, ShownType, SessionStays DEF SetStatus
<1>1. CASE Persist(k)
  <2>1. auth' \in Creds \cup {NULL}
    BY <1>1, HeldCreds DEF Persist, In, Made
  <2>2. session' # NULL => chain'[session'.of].pc \in Made
    BY <1>1 DEF Persist, SessionIsAlive, In
  <2> QED BY <1>1, <2>1, <2>2, KeepsTypes DEF Persist, TypeOK
<1>2. CASE Qr(k)
  <2>1. PICK c : Moved(k, "qr", c)
    BY <1>2, SocketMoves
  <2>2. SetStatus("QR") /\ "QR" \in Statuses /\ "qr" \in Made
    BY <1>2 DEF Qr, Statuses, Made, Alive
  <2> QED BY <1>0, <1>2, <2>1, <2>2, KeepsTypes DEF Qr, TypeOK
<1>3. CASE Scan(k)
  <2>1. PICK c \in Creds : Moved(k, "restarting", c) /\ auth' = c
    BY <1>3, SocketMoves
  <2>2. session' # NULL => chain'[session'.of].pc \in Made
    BY <1>3, <2>1, SessionStays DEF Scan, Made, Alive
  <2>3. linked' \subseteq Devices
    <3>1. chain[k].creds \in Creds
      BY <1>3, HeldCreds DEF Scan, At, In, Made, Alive
    <3>2. [chain[k].creds EXCEPT !.paired = TRUE].device \in Devices
      BY <3>1 DEF Creds
    <3> QED BY <1>3, <3>2 DEF Scan, TypeOK
  <2>4. /\ row' \in Statuses /\ session' \in [of: Chains, status: Statuses] \cup {NULL}
        /\ events' \in 0..MaxEvents /\ logout' \in {"none", "asked", "delete", "clear", "out", "mark"}
        /\ booting' \in BOOLEAN /\ failed' \in BOOLEAN /\ overlapped' \in BOOLEAN
    BY <1>3 DEF Scan, TypeOK
  <2> QED BY <2>1, <2>2, <2>3, <2>4, KeepsTypes
<1>4. CASE Opens(k)
  <2>1. PICK c : Moved(k, "open", c)
    BY <1>4, SocketMoves
  <2>2. SetStatus("CONNECTED") /\ "CONNECTED" \in Statuses /\ "open" \in Made
    BY <1>4 DEF Opens, Statuses, Made, Alive
  <2> QED BY <1>0, <1>4, <2>1, <2>2, KeepsTypes DEF Opens, TypeOK
<1>5. CASE Expelled(k)
  <2>1. Moved(k, "idle", NULL)
    BY <1>5, SocketMoves DEF Expelled
  <2> QED BY <1>5, <2>1, KeepsTypes DEF Expelled, LoggedOut, TypeOK, Statuses
<1>6. CASE Drops(k)
  <2>1. PICK c : Moved(k, "waiting", c)
    BY <1>6, SocketMoves
  <2>2. SetStatus("DISCONNECTED") /\ "DISCONNECTED" \in Statuses /\ "waiting" \in Made
    BY <1>6 DEF Drops, ScheduleReconnect, Statuses, Made
  <2>3. events' \in 0..MaxEvents
    BY <1>6, EventType DEF Drops
  <2> QED BY <1>0, <1>6, <2>1, <2>2, <2>3, KeepsTypes DEF Drops, ScheduleReconnect, TypeOK
<1> QED BY <1>1, <1>2, <1>3, <1>4, <1>5, <1>6

\* Unlinking, logging out, crashing and resuming.
LEMMA TypesOther ==
  ASSUME Types, (\E d \in Devices : Unlinks(d)) \/ Logout \/ Crash \/ ResumeAll
  PROVE  Types'
<1> USE DEF Types
<1>1. CASE \E d \in Devices : Unlinks(d)
  BY <1>1, EventType DEF Unlinks, TypeOK, SessionIsAlive, In
<1>2. CASE AskLogout \/ NothingToUnlink \/ MarkLoggedOut
  BY <1>2, EventType DEF AskLogout, NothingToUnlink, MarkLoggedOut, TypeOK, SessionIsAlive, In, Statuses
<1>3. CASE ClearAuth
  BY <1>3 DEF ClearAuth, TypeOK, SessionIsAlive, In
<1>4. CASE SetLoggedOut
  <2>1. row' \in Statuses /\ session' \in [of: Chains, status: Statuses] \cup {NULL}
        /\ (session' # NULL => session # NULL /\ session'.of = session.of)
    BY <1>4, ShownType DEF SetLoggedOut, SetStatus, Statuses
  <2>2. session' # NULL => chain'[session'.of].pc \in Made
    BY <1>4, <2>1 DEF SetLoggedOut, SessionIsAlive, In
  <2> QED BY <1>4, <2>1, <2>2, KeepsTypes DEF SetLoggedOut, TypeOK
<1>5. ASSUME NEW k \in Chains, Unlink(k)
      PROVE  Types'
  <2>1. Moved(k, "idle", NULL)
    BY <1>5, SocketMoves DEF Unlink
  <2> QED BY <1>5, <2>1, KeepsTypes DEF Unlink, LoggedOut, TypeOK, Statuses
<1>6. ASSUME NEW k \in Chains, UnlinkFails(k)
      PROVE  Types'
  BY <1>6 DEF UnlinkFails, TypeOK, SessionIsAlive, In
<1>7. CASE Crash
  <2>1. chain' \in [Chains -> Chain]
        /\ \A k \in Chains : ~In(k, Made \cup {"making"})' /\ chain'[k].creds = NULL
    BY <1>7 DEF Crash, Chain, In, Made, Alive
  <2>2. events' \in 0..MaxEvents
    BY <1>7, EventType DEF Crash
  <2>3. logout' \in {"none", "mark"}
    BY <1>7 DEF Crash
  <2> QED BY <1>7, <2>1, <2>2, <2>3 DEF Crash, TypeOK, SessionIsAlive
<1>8. CASE ResumeAll
  <2>1. CASE UNCHANGED chain
    BY <1>8, <2>1 DEF ResumeAll, TypeOK, SessionIsAlive, In
  <2>2. ASSUME NEW j \in Chains, At(j, "idle"), Step(j, "called")
        PROVE  Types'
    <3>1. Moved(j, "called", NULL) /\ ~In(j, Made)
      BY <2>2 DEF Moved, Step, TypeOK, At, In, Made, Alive, Chain, Calling
    <3>2. session' # NULL => chain'[session'.of].pc \in Made
      BY <1>8, <3>1, SessionStays DEF ResumeAll
    <3> QED BY <1>8, <3>1, <3>2, KeepsTypes DEF ResumeAll, TypeOK
  <2> QED BY <1>8, <2>1, <2>2 DEF ResumeAll
<1> QED BY <1>1, <1>2, <1>3, <1>4, <1>5, <1>6, <1>7, <1>8 DEF Logout

LEMMA TypesInit ==
  ASSUME Init
  PROVE  Types
<1> PICK S : chain = [k \in Chains |-> [pc |-> IF k \in S THEN "called" ELSE "idle", creds |-> NULL]]
  BY DEF Init
<1>1. \A k \in Chains : chain[k] = [pc |-> IF k \in S THEN "called" ELSE "idle", creds |-> NULL]
  OBVIOUS
<1>2. \A k \in Chains : chain[k] \in Chain /\ ~In(k, Made \cup {"making"}) /\ chain[k].creds = NULL
  BY <1>1 DEF Chain, Calling, In, Made, Alive
<1>3. chain \in [Chains -> Chain]
  BY <1>2
<1>4. /\ row = "PENDING" /\ auth = NULL /\ session = NULL /\ linked = {} /\ logout = "none"
      /\ booting = FALSE /\ events = 0 /\ failed = FALSE /\ overlapped = FALSE
  BY DEF Init
<1>5. row \in Statuses /\ events \in 0..MaxEvents
  BY <1>4, GatewayAssumption DEF GatewayAssumption, Statuses
<1>6. \A k \in Chains : In(k, Made \cup {"making"}) <=> chain[k].creds # NULL
  BY <1>2
<1> QED BY <1>3, <1>4, <1>5, <1>6 DEF Types, TypeOK, SessionIsAlive

LEMMA TypesStep ==
  ASSUME Types, [Next]_vars
  PROVE  Types'
<1>1. CASE Next
  BY <1>1, TypesStart, TypesSocket, TypesOther DEF Next
<1>2. CASE UNCHANGED vars
  BY <1>2 DEF vars, Types, TypeOK, SessionIsAlive, In
<1> QED BY <1>1, <1>2

\* For every number of calls, identities and events: the types hold.
THEOREM TypeCorrect == Spec => []TypeOK
<1>1. Spec => []Types
  BY TypesInit, TypesStep, PTL DEF Spec
<1>2. Types => TypeOK
  BY DEF Types
<1> QED BY <1>1, <1>2, PTL

\* connect() is never turned away by a socket that is gone for good.
THEOREM SessionsAreAlive == Spec => []SessionIsAlive
<1>1. Spec => []Types
  BY TypesInit, TypesStep, PTL DEF Spec
<1>2. Types => SessionIsAlive
  BY DEF Types
<1> QED BY <1>1, <1>2, PTL

-------------------------------------------------------------------------------
\* After a step that moves a chain anywhere but to its end, somebody is at work.
LEMMA MovedTends ==
  ASSUME Types, NEW k, NEW pc, NEW c, Moved(k, pc, c), pc # "idle"
  PROVE  Tended'
<1>1. k \in Chains /\ chain'[k] = [pc |-> pc, creds |-> c]
  BY MovedType DEF Types, Moved
<1>2. chain'[k].pc # "idle"
  BY <1>1
<1> QED BY <1>1, <1>2 DEF Tended, At

LEMMA TendedStep ==
  ASSUME Types, Tended, [Next]_vars
  PROVE  Tended'
<1> TypeOK /\ SessionIsAlive
  BY DEF Types
<1>1. ASSUME NEW k \in Chains, Start(k) \/ Reconnect(k), ~Connect(k)
      PROVE  Tended'
  <2>1. \E pc, c : Moved(k, pc, c) /\ pc # "idle"
    BY <1>1, StartMoves, SocketMoves DEF Start
  <2> QED BY <2>1, MovedTends
<1>2. ASSUME NEW k \in Chains, Connect(k)
      PROVE  Tended'
  <2>1. CASE AlreadyLive
    <3>1. session.of \in Chains /\ In(session.of, Made)
      BY <2>1 DEF AlreadyLive, TypeOK, SessionIsAlive
    <3>2. session.of # k
      BY <1>2, <3>1 DEF Connect, At, In, Made, Alive
    <3>3. chain'[session.of] = chain[session.of]
      BY <1>2, <2>1, <3>1, <3>2 DEF Connect, End, Go, TypeOK
    <3>4. chain'[session.of].pc # "idle"
      BY <3>1, <3>3 DEF In, Made, Alive
    <3> QED BY <3>1, <3>4 DEF Tended, At
  <2>2. CASE ~AlreadyLive
    <3>1. Moved(k, "idle", NULL) \/ Moved(k, "loading", NULL)
      BY <1>2, StartMoves
    <3>2. chain' = [chain EXCEPT ![k] = [pc |-> "loading", creds |-> chain[k].creds]]
      BY <1>2, <2>2 DEF Connect, Step, Go
    <3>3. chain'[k].pc # "idle"
      BY <3>2 DEF TypeOK
    <3> QED BY <3>3 DEF Tended, At
  <2> QED BY <2>1, <2>2
<1>3. ASSUME NEW k \in Chains, LoadFails(k)
      PROVE  Tended'
  BY <1>3 DEF LoadFails, Tended
<1>4. ASSUME NEW k \in Chains, Qr(k) \/ Scan(k) \/ Opens(k) \/ Drops(k)
      PROVE  Tended'
  <2>1. \E pc, c : Moved(k, pc, c) /\ pc # "idle"
    BY <1>4, SocketMoves
  <2> QED BY <2>1, MovedTends
<1>5. ASSUME NEW k \in Chains, Expelled(k) \/ Unlink(k)
      PROVE  Tended'
  BY <1>5 DEF Expelled, Unlink, LoggedOut, Tended
<1>6. ASSUME NEW k \in Chains, Persist(k) \/ UnlinkFails(k)
      PROVE  Tended'
  BY <1>6 DEF Persist, UnlinkFails, Tended, At
<1>7. CASE (\E d \in Devices : Unlinks(d)) \/ AskLogout \/ NothingToUnlink \/ ClearAuth
  BY <1>7 DEF Unlinks, AskLogout, NothingToUnlink, ClearAuth, Tended, At
<1>8. CASE SetLoggedOut \/ MarkLoggedOut
  BY <1>8 DEF SetLoggedOut, SetStatus, MarkLoggedOut, Tended
<1>9. CASE Crash
  BY <1>9 DEF Crash, Tended
<1>10. CASE ResumeAll
  <2>1. CASE row \in Resumed
    <3> PICK j \in Chains : At(j, "idle") /\ Step(j, "called")
      BY <1>10, <2>1 DEF ResumeAll
    <3>1. chain'[j].pc = "called"
      BY DEF Step, Go, TypeOK
    <3> QED BY <3>1 DEF Tended, At
  <2>2. CASE row \notin Resumed
    BY <1>10, <2>2 DEF ResumeAll, Resumed, Tended
  <2> QED BY <2>1, <2>2
<1>11. CASE UNCHANGED vars
  BY <1>11 DEF vars, Tended, At
<1> QED BY <1>1, <1>2, <1>3, <1>4, <1>5, <1>6, <1>7, <1>8, <1>9, <1>10, <1>11 DEF Next, Logout, Start

\* A number shown as connected, pairing or disconnected is worked on, or
\* startSocket() has failed, however calls, drops, log outs and restarts
\* follow each other.
THEOREM NumbersAreTended == Spec => []Tended
<1>1. Init => Types /\ Tended
  BY TypesInit DEF Init, Tended
<1>2. Types /\ Tended /\ [Next]_vars => (Types /\ Tended)'
  BY TypesStep, TendedStep
<1> QED BY <1>1, <1>2, PTL DEF Spec

-------------------------------------------------------------------------------
\* A step other than Connect keeps one chain running: it starts none.
LEMMA MovedAlone ==
  ASSUME Types, OneRuns, NEW k, NEW pc, NEW c, Moved(k, pc, c), UNCHANGED overlapped,
         pc \in Running => In(k, Running)
  PROVE  OneRuns'
<1>1. \A j \in Chains : chain'[j].pc \in Running => chain[j].pc \in Running
  <2>1. chain'[k] = [pc |-> pc, creds |-> c] /\ \A j \in Chains \ {k} : chain'[j] = chain[j]
    BY MovedType DEF Types
  <2>2. chain'[k].pc = pc
    BY <2>1
  <2> QED BY <2>1, <2>2 DEF In
<1> QED BY <1>1 DEF OneRuns, In

LEMMA OneRunsStep ==
  ASSUME Types, OneRuns, [Next]_vars
  PROVE  OneRuns'
<1> TypeOK
  BY DEF Types
<1>1. ASSUME NEW k \in Chains, Connect(k)
      PROVE  OneRuns'
  <2> SUFFICES ASSUME ~overlapped', NEW i \in Chains, NEW j \in Chains,
                      chain'[i].pc \in Running, chain'[j].pc \in Running
               PROVE  i = j
    BY DEF OneRuns, In
  <2>1. \A l \in Chains \ {k} : chain'[l] = chain[l]
    BY <1>1 DEF Connect, End, Step, Go, TypeOK
  <2>2. CASE AlreadyLive
    <3>1. chain'[k].pc = "idle" /\ ~overlapped
      BY <1>1, <2>2 DEF Connect, End, Go, TypeOK
    <3>2. i # k /\ j # k
      BY <3>1 DEF Running, Made, Alive
    <3> QED BY <2>1, <3>1, <3>2 DEF OneRuns, In
  <2>3. CASE ~AlreadyLive
    <3>1. \A l \in Chains : ~In(l, Running)
      BY <1>1, <2>3 DEF Connect
    <3> QED BY <2>1, <3>1 DEF In
  <2> QED BY <2>2, <2>3
<1>2. ASSUME NEW k \in Chains, Reconnect(k) \/ WritePending(k) \/ LoadFails(k) \/ TimerFires(k)
      PROVE  OneRuns'
  <2>1. \E pc : Moved(k, pc, NULL) /\ (pc \in Running => In(k, Running))
    BY <1>2, StartMoves DEF TimerFires, At, In, Running, Made, Alive
  <2> QED BY <1>2, <2>1, MovedAlone DEF Reconnect, WritePending, LoadFails, TimerFires
<1>3. ASSUME NEW k \in Chains, LoadAuth(k) \/ MakeSocket(k) \/ Qr(k) \/ Scan(k) \/ Opens(k) \/ Drops(k)
      PROVE  OneRuns'
  <2>1. (\E pc, c : Moved(k, pc, c)) /\ In(k, Running)
    BY <1>3, SocketMoves DEF LoadAuth, MakeSocket, Qr, Scan, Opens, Drops, At, In, Running, Made, Alive
  <2> QED BY <1>3, <2>1, MovedAlone
          DEF LoadAuth, MakeSocket, Qr, Scan, Opens, Drops, ScheduleReconnect
<1>4. ASSUME NEW k \in Chains, Expelled(k) \/ Unlink(k)
      PROVE  OneRuns'
  <2>1. Moved(k, "idle", NULL)
    BY <1>4, SocketMoves DEF Expelled, Unlink
  <2> QED BY <1>4, <2>1, MovedAlone DEF Expelled, Unlink, Running, Made, Alive
<1>5. CASE Crash
  BY <1>5 DEF Crash, OneRuns, In, Running, Made, Alive
<1>6. CASE ResumeAll
  <2>1. CASE UNCHANGED chain
    BY <1>6, <2>1 DEF ResumeAll, OneRuns, In
  <2>2. ASSUME NEW j \in Chains, Moved(j, "called", NULL)
        PROVE  OneRuns'
    BY <1>6, <2>2, MovedAlone DEF ResumeAll, Running, Made, Alive
  <2> QED BY <1>6, <2>1, <2>2, ResumeMoves
<1>7. CASE UNCHANGED <<chain, overlapped>>
  BY <1>7 DEF OneRuns, In
<1>8. ASSUME NEW k \in Chains, Persist(k) \/ UnlinkFails(k)
      PROVE  UNCHANGED <<chain, overlapped>>
  BY <1>8 DEF Persist, UnlinkFails
<1>9. ASSUME \/ \E d \in Devices : Unlinks(d)
             \/ AskLogout \/ NothingToUnlink \/ ClearAuth \/ SetLoggedOut \/ MarkLoggedOut
             \/ UNCHANGED vars
      PROVE  UNCHANGED <<chain, overlapped>>
  BY <1>9 DEF Unlinks, AskLogout, NothingToUnlink, ClearAuth, SetLoggedOut, MarkLoggedOut, vars
<1> QED BY <1>1, <1>2, <1>3, <1>4, <1>5, <1>6, <1>7, <1>8, <1>9 DEF Next, Start, Logout

\* Nobody but the one running chain holds credentials.
LEMMA OthersHoldNone ==
  ASSUME TypeOK, OneRuns, ~overlapped, NEW k \in Chains, In(k, Running)
  PROVE  \A j \in Chains \ {k} : chain[j].creds = NULL
BY DEF TypeOK, OneRuns, In, Running

\* A chain that moves without new credentials, while the stored ones stay.
LEMMA MovedHolds ==
  ASSUME Types, StoredIsHeld, NEW k, NEW pc, NEW c, Moved(k, pc, c), c = NULL \/ c = chain[k].creds,
         UNCHANGED auth, ~overlapped' => ~overlapped
  PROVE  StoredIsHeld'
<1>1. chain'[k] = [pc |-> pc, creds |-> c] /\ \A j \in Chains \ {k} : chain'[j] = chain[j]
  BY MovedType DEF Types
<1>2. \A j \in Chains : chain'[j].creds = NULL \/ chain'[j].creds = chain[j].creds
  BY <1>1
<1> QED BY <1>2 DEF StoredIsHeld

\* The one running chain stores what it holds.
LEMMA StoresHeld ==
  ASSUME Types, OneRuns, NEW k \in Chains, In(k, Running), UNCHANGED overlapped,
         \A j \in Chains \ {k} : chain'[j] = chain[j], chain'[k].creds = auth'
  PROVE  StoredIsHeld'
BY OthersHoldNone DEF Types, StoredIsHeld

LEMMA StoredStep ==
  ASSUME Alone, [Next]_vars
  PROVE  StoredIsHeld'
<1> Types /\ TypeOK /\ OneRuns /\ StoredIsHeld
  BY DEF Alone, Types
<1>1. ASSUME NEW k \in Chains,
             Reconnect(k) \/ WritePending(k) \/ Connect(k) \/ LoadFails(k) \/ TimerFires(k)
      PROVE  StoredIsHeld'
  <2>1. \E pc : Moved(k, pc, NULL)
    BY <1>1, StartMoves
  <2>2. UNCHANGED auth
    BY <1>1 DEF Reconnect, WritePending, Connect, LoadFails, TimerFires
  <2>3. \/ UNCHANGED overlapped
        \/ overlapped' = (overlapped \/ \E j \in Chains : In(j, Running))
    BY <1>1 DEF Reconnect, WritePending, Connect, LoadFails, TimerFires
  <2>4. ~overlapped' => ~overlapped
    BY <2>3, Zenon
  <2> QED BY <2>1, <2>2, <2>4, MovedHolds
<1>2. ASSUME NEW k \in Chains, LoadAuth(k)
      PROVE  StoredIsHeld'
  <2>1. CASE auth = NULL
    BY <1>2, <2>1 DEF LoadAuth, StoredIsHeld
  <2>2. CASE auth # NULL
    <3>1. chain' = [chain EXCEPT ![k] = [pc |-> "making", creds |-> auth]] /\ UNCHANGED <<auth, overlapped>>
      BY <1>2, <2>2 DEF LoadAuth, Go
    <3>2. \A j \in Chains : chain'[j].creds = auth \/ chain'[j].creds = chain[j].creds
      BY <3>1 DEF TypeOK
    <3> QED BY <3>1, <3>2 DEF StoredIsHeld
  <2> QED BY <2>1, <2>2
<1>3. ASSUME NEW k \in Chains, MakeSocket(k)
      PROVE  StoredIsHeld'
  <2>1. /\ chain' = [chain EXCEPT ![k] = [pc |-> "opening", creds |-> chain[k].creds]]
        /\ auth' = chain[k].creds /\ In(k, Running) /\ UNCHANGED overlapped
    BY <1>3 DEF MakeSocket, Step, Go, At, In, Running
  <2>2. chain'[k].creds = auth' /\ \A j \in Chains \ {k} : chain'[j] = chain[j]
    BY <2>1 DEF TypeOK
  <2> QED BY <2>1, <2>2, StoresHeld
<1>4. ASSUME NEW k \in Chains, Persist(k)
      PROVE  StoredIsHeld'
  <2>1. In(k, Running) /\ UNCHANGED <<chain, overlapped>> /\ auth' = chain[k].creds
    BY <1>4 DEF Persist, In, Running, Made
  <2> QED BY <2>1, StoresHeld
<1>5. ASSUME NEW k \in Chains, Scan(k)
      PROVE  StoredIsHeld'
  <2>1. PICK c \in Creds : Moved(k, "restarting", c) /\ auth' = c
    BY <1>5, SocketMoves
  <2>2. chain'[k] = [pc |-> "restarting", creds |-> c] /\ \A j \in Chains \ {k} : chain'[j] = chain[j]
    BY <2>1, MovedType
  <2>3. In(k, Running) /\ UNCHANGED overlapped
    BY <1>5 DEF Scan, At, In, Running, Made, Alive
  <2>4. chain'[k].creds = auth'
    BY <2>1, <2>2
  <2> QED BY <2>2, <2>3, <2>4, StoresHeld
<1>6. ASSUME NEW k \in Chains, Qr(k) \/ Opens(k) \/ Drops(k)
      PROVE  StoredIsHeld'
  <2>1. \E pc : Moved(k, pc, chain[k].creds)
    BY <1>6, SocketMoves
  <2>2. UNCHANGED <<auth, overlapped>>
    BY <1>6 DEF Qr, Opens, Drops, ScheduleReconnect
  <2> QED BY <2>1, <2>2, MovedHolds
<1>7. ASSUME (\E k \in Chains : Expelled(k) \/ Unlink(k)) \/ ClearAuth
      PROVE  StoredIsHeld'
  BY <1>7 DEF Expelled, Unlink, LoggedOut, ClearAuth, StoredIsHeld
<1>8. CASE Crash
  BY <1>8 DEF Crash, StoredIsHeld
<1>9. CASE ResumeAll
  <2>1. CASE UNCHANGED chain
    BY <1>9, <2>1 DEF ResumeAll, StoredIsHeld
  <2>2. ASSUME NEW j \in Chains, Moved(j, "called", NULL)
        PROVE  StoredIsHeld'
    BY <1>9, <2>2, MovedHolds DEF ResumeAll
  <2> QED BY <1>9, <2>1, <2>2, ResumeMoves
<1>10. ASSUME \/ \E d \in Devices : Unlinks(d)
              \/ AskLogout \/ NothingToUnlink \/ SetLoggedOut \/ MarkLoggedOut
              \/ \E k \in Chains : UnlinkFails(k)
              \/ UNCHANGED vars
      PROVE  StoredIsHeld'
  BY <1>10 DEF Unlinks, AskLogout, NothingToUnlink, SetLoggedOut, MarkLoggedOut, UnlinkFails, vars,
               StoredIsHeld
<1> QED BY <1>1, <1>2, <1>3, <1>4, <1>5, <1>6, <1>7, <1>8, <1>9, <1>10 DEF Next, Start, Logout

\* Without overlapping starts, what a socket holds is what a restart loads:
\* no write of the blob undoes a pairing.
THEOREM StoredCredentialsAreHeld == Spec => []StoredIsHeld
<1>1. Init => Alone
  <2> HAVE Init
  <2>1. auth = NULL
    BY DEF Init
  <2>2. \A k \in Chains : ~In(k, Running)
    <3> PICK S : chain = [k \in Chains |-> [pc |-> IF k \in S THEN "called" ELSE "idle", creds |-> NULL]]
      BY DEF Init
    <3>1. \A k \in Chains : chain[k].pc \in {"called", "idle"}
      OBVIOUS
    <3> QED BY <3>1 DEF In, Running, Made, Alive
  <2> QED BY <2>1, <2>2, TypesInit DEF Alone, OneRuns, StoredIsHeld
<1>2. Alone /\ [Next]_vars => Alone'
  BY TypesStep, OneRunsStep, StoredStep DEF Alone
<1>3. Alone => StoredIsHeld
  BY DEF Alone
<1> QED BY <1>1, <1>2, <1>3, PTL DEF Spec
================================================================================

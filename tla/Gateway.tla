-------------------------------- MODULE Gateway --------------------------------
(***************************************************************************)
(* One Baileys connection of the gateway: its database row, the session    *)
(* map's entry for it, and the sockets that are started, paired, dropped   *)
(* and reconnected on its behalf (whatsapp/src/baileys-provider.ts,        *)
(* gateway/src/manager.ts), under the dashboard's reconnect and log out.   *)
(*                                                                         *)
(* connect() and the reconnect timer both run startSocket(), which awaits  *)
(* the stored credentials and WhatsApp's version before it makes a socket. *)
(* Nothing ties those runs together but the session map, so they are       *)
(* separate chains here: a chain is one call of connect() and everything   *)
(* that follows from it, socket after socket.  A status and the database   *)
(* value written for it are one name (manager.ts:19-25).  A row is written *)
(* in the step that issues the write.  Cloud API connections have no       *)
(* socket and no session and are left out, as is disconnect(), which       *)
(* nothing in the repository calls.                                        *)
(***************************************************************************)
EXTENDS Naturals, FiniteSets

CONSTANTS
  NULL,
  Chains,    \* slots for calls of connect() and what follows from them
  Devices,   \* device identities that initAuthCreds() may make up
  MaxEvents  \* bound: clicks, drops, failures and restarts together

Creds == [device: Devices, paired: BOOLEAN]

ASSUME GatewayAssumption == NULL \notin Chains /\ NULL \notin Creds /\ MaxEvents \in Nat

VARIABLES
  row,        \* WhatsAppConnection.status
  auth,       \* WhatsAppConnection.authState
  session,    \* the session map's entry: whose socket, and its status
  chain,      \* where each chain is and the credentials its socket holds
  linked,     \* WhatsApp's side: devices linked to the phone
  logout,     \* how far the logout request has come
  booting,    \* the gateway is up again and has not resumed yet
  events,
  failed,     \* history: the last startSocket() failed
  overlapped  \* history: connect() has started a socket beside another chain

vars == <<row, auth, session, chain, linked, logout, booting, events, failed, overlapped>>

-------------------------------------------------------------------------------
(* Chains *)

Statuses == {"PENDING", "QR", "CONNECTED", "DISCONNECTED", "LOGGED_OUT"}
Alive == {"opening", "qr", "restarting", "open"}      \* the socket is not closed
Made == Alive \cup {"waiting"}                        \* its session was in the map
Running == Made \cup {"loading", "making"}
Calling == {"called", "checking"}
Chain == [pc: {"idle"} \cup Calling \cup Running, creds: Creds \cup {NULL}]

At(k, pc) == chain[k].pc = pc
In(k, S) == chain[k].pc \in S
Holds(k, paired) == chain[k].creds # NULL /\ chain[k].creds.paired = paired
Go(k, pc, c) == chain' = [chain EXCEPT ![k] = [pc |-> pc, creds |-> c]]
Step(k, pc) == Go(k, pc, chain[k].creds)
End(k) == Go(k, "idle", NULL)

Init ==
  /\ row = "PENDING" /\ auth = NULL /\ session = NULL
  /\ chain \in {[k \in Chains |-> [pc |-> IF k \in S THEN "called" ELSE "idle", creds |-> NULL]] :
                  S \in {{}} \cup {{k} : k \in Chains}}
  /\ linked = {} /\ logout = "none" /\ booting = FALSE
  /\ events = 0 /\ failed = FALSE /\ overlapped = FALSE

\* An event the environment may cause MaxEvents times.
Event == events < MaxEvents /\ events' = events + 1

\* setStatus: the event's status goes to whatever session is current.
Shown(s) == IF session = NULL THEN NULL ELSE [session EXCEPT !.status = s]
SetStatus(s) == row' = s /\ session' = Shown(s)

-------------------------------------------------------------------------------
(* connect() and startSocket() *)

\* The connections page offers the button in these two statuses only.
Reconnect(k) ==
  /\ At(k, "idle") /\ row \in {"DISCONNECTED", "LOGGED_OUT"} /\ Event
  /\ Step(k, "called")
  /\ UNCHANGED <<row, auth, session, linked, logout, booting, failed, overlapped>>

WritePending(k) ==
  /\ At(k, "called")
  /\ row' = IF row = "CONNECTED" THEN row ELSE "PENDING"
  /\ Step(k, "checking")
  /\ UNCHANGED <<auth, session, linked, logout, booting, events, failed, overlapped>>

AlreadyLive == session # NULL /\ session.status \in {"CONNECTED", "QR"}

Connect(k) ==
  /\ At(k, "checking")
  /\ IF AlreadyLive
     THEN End(k) /\ UNCHANGED <<failed, overlapped>>
     ELSE /\ Step(k, "loading")
          /\ failed' = FALSE
          /\ overlapped' = (overlapped \/ \E j \in Chains : In(j, Running))
  /\ UNCHANGED <<row, auth, session, linked, logout, booting, events>>

\* A new identity is one that nobody holds; WhatsApp has not linked it.
Held == {d \in Devices : (auth # NULL /\ auth.device = d)
                         \/ \E k \in Chains : chain[k].creds # NULL /\ chain[k].creds.device = d}

LoadAuth(k) ==
  /\ At(k, "loading")
  /\ IF auth # NULL
     THEN Go(k, "making", auth) /\ UNCHANGED linked
     ELSE \E d \in Devices \ Held :
            Go(k, "making", [device |-> d, paired |-> FALSE]) /\ linked' = linked \ {d}
  /\ UNCHANGED <<row, auth, session, logout, booting, events, failed, overlapped>>

\* The database does not answer: connect() rejects, a timer's failure is
\* swallowed.
LoadFails(k) ==
  /\ At(k, "loading") /\ Event
  /\ End(k) /\ failed' = TRUE
  /\ UNCHANGED <<row, auth, session, linked, logout, booting, overlapped>>

MakeSocket(k) ==
  /\ At(k, "making")
  /\ session' = [of |-> k, status |-> "PENDING"]
  /\ auth' = chain[k].creds
  /\ Step(k, "opening")
  /\ UNCHANGED <<row, linked, logout, booting, events, failed, overlapped>>

-------------------------------------------------------------------------------
(* Events of a socket *)

\* creds.update, and every change of a key: the whole blob is stored.
Persist(k) ==
  /\ In(k, Alive)
  /\ auth' = chain[k].creds
  /\ UNCHANGED <<row, session, chain, linked, logout, booting, events, failed, overlapped>>

QrInMemory(k) ==
  /\ In(k, {"opening", "qr"}) /\ Holds(k, FALSE)
  /\ session' = Shown("QR") /\ Step(k, "qr")
  /\ UNCHANGED <<row, auth, linked, logout, booting, events, failed, overlapped>>

Qr(k) ==
  /\ In(k, {"opening", "qr"}) /\ Holds(k, FALSE)
  /\ SetStatus("QR") /\ Step(k, "qr")
  /\ UNCHANGED <<auth, linked, logout, booting, events, failed, overlapped>>

ScanUnsaved(k) ==
  /\ At(k, "qr")
  /\ LET c == [chain[k].creds EXCEPT !.paired = TRUE]
     IN  Go(k, "restarting", c) /\ linked' = linked \cup {c.device}
  /\ UNCHANGED <<row, auth, session, logout, booting, events, failed, overlapped>>

\* The phone scans the code: the credentials are registered and stored, and
\* WhatsApp closes the stream for a restart.
Scan(k) ==
  /\ At(k, "qr")
  /\ LET c == [chain[k].creds EXCEPT !.paired = TRUE]
     IN  Go(k, "restarting", c) /\ auth' = c /\ linked' = linked \cup {c.device}
  /\ UNCHANGED <<row, session, logout, booting, events, failed, overlapped>>

Accepted(k) == Holds(k, TRUE) /\ chain[k].creds.device \in linked

Opens(k) ==
  /\ At(k, "opening") /\ Accepted(k)
  /\ SetStatus("CONNECTED") /\ Step(k, "open")
  /\ UNCHANGED <<auth, linked, logout, booting, events, failed, overlapped>>

\* close with loggedOut: what the handler does, for whichever session is current.
LoggedOut(k) ==
  /\ session' = NULL /\ auth' = NULL /\ row' = "LOGGED_OUT"
  /\ End(k)

\* WhatsApp refuses a device that is no longer linked.
Expelled(k) ==
  /\ In(k, {"opening", "open"}) /\ Holds(k, TRUE) /\ ~Accepted(k)
  /\ LoggedOut(k)
  /\ UNCHANGED <<linked, logout, booting, events, failed, overlapped>>

\* close for any other reason: scheduleReconnect.
ScheduleReconnect(k) ==
  /\ SetStatus("DISCONNECTED") /\ Step(k, "waiting")
  /\ UNCHANGED <<auth, linked, logout, booting, failed, overlapped>>

\* Two open sockets of one device: WhatsApp closes one of them.
Replaced(k) ==
  \E j \in Chains \ {k} : At(j, "open") /\ chain[j].creds.device = chain[k].creds.device

Drops(k) ==
  /\ In(k, Alive)
  /\ IF At(k, "restarting") \/ (At(k, "open") /\ Replaced(k)) THEN UNCHANGED events ELSE Event
  /\ ScheduleReconnect(k)

TimerFires(k) ==
  /\ At(k, "waiting")
  /\ session' = NULL
  /\ Go(k, "loading", NULL)
  /\ UNCHANGED <<row, auth, linked, logout, booting, events, failed, overlapped>>

\* The phone's owner removes the device.
Unlinks(d) ==
  /\ d \in linked /\ Event
  /\ linked' = linked \ {d}
  /\ UNCHANGED <<row, auth, session, chain, logout, booting, failed, overlapped>>

-------------------------------------------------------------------------------
(* Logging out, by logoutConnectionAction and logout().  One request at a  *)
(* time.                                                                   *)

AskLogout ==
  /\ logout = "none" /\ row # "LOGGED_OUT" /\ Event
  /\ logout' = "asked"
  /\ UNCHANGED <<row, auth, session, chain, linked, booting, failed, overlapped>>

NothingToUnlink ==
  /\ logout = "asked" /\ session = NULL
  /\ logout' = "clear"
  /\ UNCHANGED <<row, auth, session, chain, linked, booting, events, failed, overlapped>>

\* sock.logout() tells WhatsApp, if the device was paired, and closes the
\* socket with loggedOut.
Unlink(k) ==
  /\ logout = "asked" /\ session # NULL /\ session.of = k /\ In(k, Alive)
  /\ logout' = "delete"
  /\ linked' = linked \ {chain[k].creds.device}
  /\ LoggedOut(k)
  /\ UNCHANGED <<booting, events, failed, overlapped>>

\* It throws when the socket cannot send, and that is ignored: the socket
\* and its timer go on.
UnlinkFails(k) ==
  /\ logout = "asked" /\ session # NULL /\ session.of = k
  /\ At(k, "waiting") \/ Holds(k, TRUE)
  /\ logout' = "delete"
  /\ UNCHANGED <<row, auth, session, chain, linked, booting, events, failed, overlapped>>

ClearAuth ==
  /\ logout \in {"delete", "clear"}
  /\ session' = IF logout = "delete" THEN NULL ELSE session
  /\ auth' = NULL /\ logout' = "out"
  /\ UNCHANGED <<row, chain, linked, booting, events, failed, overlapped>>

SetLoggedOut ==
  /\ logout = "out"
  /\ SetStatus("LOGGED_OUT") /\ logout' = "mark"
  /\ UNCHANGED <<auth, chain, linked, booting, events, failed, overlapped>>

\* The dashboard marks the row whatever the gateway answered, if it did.
MarkLoggedOut ==
  /\ logout = "mark"
  /\ row' = "LOGGED_OUT" /\ logout' = "none"
  /\ UNCHANGED <<auth, session, chain, linked, booting, events, failed, overlapped>>

-------------------------------------------------------------------------------
(* Restarts *)

Crash ==
  /\ Event
  /\ chain' = [k \in Chains |-> [pc |-> "idle", creds |-> NULL]]
  /\ session' = NULL /\ booting' = TRUE /\ failed' = FALSE
  /\ logout' = IF logout = "none" THEN "none" ELSE "mark"
  /\ UNCHANGED <<row, auth, linked, overlapped>>

ResumedIfShown == {"CONNECTED", "QR"}

Resumed == {"CONNECTED", "QR", "DISCONNECTED"}

\* resumeAll; the server already takes requests.
ResumeAll ==
  /\ booting /\ booting' = FALSE
  /\ IF row \in Resumed
     THEN \E k \in Chains : At(k, "idle") /\ Step(k, "called")
     ELSE UNCHANGED chain
  /\ UNCHANGED <<row, auth, session, linked, logout, events, failed, overlapped>>

-------------------------------------------------------------------------------
Start(k) == WritePending(k) \/ Connect(k) \/ LoadAuth(k) \/ MakeSocket(k) \/ TimerFires(k)
Answered(k) == Qr(k) \/ Opens(k) \/ Expelled(k) \/ (At(k, "restarting") /\ Drops(k))
Logout == \/ AskLogout \/ NothingToUnlink \/ ClearAuth \/ SetLoggedOut \/ MarkLoggedOut
          \/ \E k \in Chains : Unlink(k) \/ UnlinkFails(k)

Next ==
  \/ \E k \in Chains : \/ Start(k) \/ Reconnect(k) \/ LoadFails(k) \/ Persist(k)
                       \/ Qr(k) \/ Scan(k) \/ Opens(k) \/ Expelled(k) \/ Drops(k)
  \/ \E d \in Devices : Unlinks(d)
  \/ Logout \/ Crash \/ ResumeAll

Spec == Init /\ [][Next]_vars

\* The gateway's own steps go on, and WhatsApp answers a socket that opens.
\* Nobody is made to scan, to click or to log out.
Fairness ==
  /\ \A k \in Chains : WF_vars(Start(k)) /\ WF_vars(Answered(k))
  /\ WF_vars(ResumeAll)
FairSpec == Spec /\ Fairness

-------------------------------------------------------------------------------
(* Properties *)

\* Every variable is of its type; only a chain that has got its credentials
\* holds some.
TypeOK ==
  /\ row \in Statuses
  /\ auth \in Creds \cup {NULL}
  /\ session \in [of: Chains, status: Statuses] \cup {NULL}
  /\ chain \in [Chains -> Chain]
  /\ \A k \in Chains : In(k, Made \cup {"making"}) <=> chain[k].creds # NULL
  /\ linked \subseteq Devices
  /\ logout \in {"none", "asked", "delete", "clear", "out", "mark"}
  /\ booting \in BOOLEAN /\ failed \in BOOLEAN /\ overlapped \in BOOLEAN
  /\ events \in 0..MaxEvents

\* The session map never keeps a socket that is gone for good: connect(),
\* which does nothing when the current session is connected or pairing, is
\* never turned away by a dead one (baileys-provider.ts:78-81).
SessionIsAlive == session # NULL => In(session.of, Made)

\* A number shown as connected, pairing or disconnected has somebody working
\* on it: a socket, a reconnect timer, a call of connect(), or resumeAll.
\* Only a startSocket() that failed leaves it alone (baileys-provider.ts:257).
Tended == row \in {"CONNECTED", "QR", "DISCONNECTED"} =>
            failed \/ booting \/ \E k \in Chains : ~At(k, "idle")

\* As long as connect() has not started a socket beside another one, what the
\* socket holds in memory is what a restart would load: the whole blob is
\* written over and over, and no write undoes a pairing (baileys-provider.ts:33-36).
StoredIsHeld == ~overlapped /\ auth # NULL =>
                  \A k \in Chains : chain[k].creds # NULL => chain[k].creds = auth

\* What makes it so: without such a start, one chain at a time is running.
OneRuns == ~overlapped => \A j, k \in Chains : In(j, Running) /\ In(k, Running) => j = k

\* Nobody is working on a connection that is still shown as pending: the
\* call of connect() was lost, with the gateway or before it got there.
Abandoned == row = "PENDING" /\ ~booting /\ \A k \in Chains : At(k, "idle")

\* A connection does not stay pending or disconnected: a QR is on offer again
\* even if a late connect() hid it, and a dropped number comes back or is
\* logged out, unless startSocket() fails (manager.ts:73-78,
\* baileys-provider.ts:250-261).
Settles == row \in {"PENDING", "DISCONNECTED"} ~>
             \/ row \notin {"PENDING", "DISCONNECTED"} \/ \E k \in Chains : At(k, "open")
             \/ failed \/ Abandoned

================================================================================

-------------------------------- MODULE Numbers --------------------------------
(***************************************************************************)
(* The WhatsApp numbers of one organization: how the Embedded Signup       *)
(* button, its route and the two forms of the connections page add them    *)
(* (EmbeddedSignupButton.tsx, api/whatsapp/embedded-signup/route.ts,       *)
(* packages/whatsapp/src/embedded-signup.ts, connections/actions.ts), how  *)
(* a Cloud API number is logged out and reconnected (manager.ts), what its *)
(* webhook queues (api/webhooks/whatsapp/route.ts) and, through Usage, the *)
(* cap on what is sent.                                                    *)
(*                                                                         *)
(* A tab is one browser tab with, once it submits, the request it waits    *)
(* for.  Meta's calls are awaited one by one and fail at most MaxFaults    *)
(* times, as do the popup and the web process.                             *)
(***************************************************************************)
EXTENDS Usage

CONSTANTS
  Conns,      \* ids for WhatsAppConnection rows
  Phones,     \* phone_number_ids the organization has at Meta
  Tabs,
  MaxConns,   \* connections of the organization's plan
  Incoming,   \* messages leads send
  PhoneOf,    \* PhoneOf[i]: the number message i is sent to
  Textless,   \* those of them without a text, such as images
  MaxFaults   \* bound: failures of Meta, of the popup and of the web process

\* phone = NULL: a Baileys row, whose status belongs to Gateway.
Row == [phone: Phones \cup {NULL}, status: {"PENDING", "CONNECTED", "LOGGED_OUT"}, signup: BOOLEAN]

ASSUME NumbersAssumption ==
  /\ NULL \notin Conns \cup Phones \cup Row
  /\ MaxConns \in Nat /\ MaxFaults \in Nat
  /\ IsFiniteSet(Tabs) /\ Tabs # {} /\ IsFiniteSet(Conns)
  /\ PhoneOf \in [Incoming -> Phones] /\ Textless \subseteq Incoming

VARIABLES
  conn,       \* conn[c]: the row, or NULL
  tab,
  meta,       \* what Meta has: numbers registered and subscribed for
  jobs,       \* <<c, i>>: the id of the inbound job of message i on row c
  faults

numberVars == <<conn, tab, meta, jobs, faults>>
vars == <<numberVars, usageVars>>

-------------------------------------------------------------------------------
\* picked: the number the popup's code stands for; info: the ids its FINISH
\* message has brought, kept in a ref until the next submit ends.
Tab == [pc: {"ready", "popup", "limit", "exchange", "register", "subscribe", "create", "connect"},
        picked: Phones \cup {NULL}, info: Phones \cup {NULL}, signup: BOOLEAN]
FreshTab == [pc |-> "ready", picked |-> NULL, info |-> NULL, signup |-> FALSE]

Rows == {c \in Conns : conn[c] # NULL}

\* (mutant) every Cloud API row is asked
HasAnyNumber(c, p) == conn[c].phone # NULL

HasNumber(c, p) == conn[c].phone = p

RowsOf(p) == {c \in Rows : HasNumber(c, p)}
Full == Cardinality(Rows) >= MaxConns

TypeOK ==
  /\ UsageTypeOK
  /\ conn \in [Conns -> Row \cup {NULL}]
  /\ tab \in [Tabs -> Tab]
  /\ meta \in [registered: SUBSET Phones, subscribed: SUBSET Phones]
  /\ jobs \subseteq Conns \X Incoming
  /\ faults \in Nat

NumbersInit ==
  /\ conn = [c \in Conns |-> NULL]
  /\ tab = [t \in Tabs |-> FreshTab]
  /\ meta = [registered |-> {}, subscribed |-> {}]
  /\ jobs = {}
  /\ faults = 0

At(t, pc) == tab[t].pc = pc
GoesTo(t, pc) == tab' = [tab EXCEPT ![t].pc = pc]
Answered(t) == tab' = [tab EXCEPT ![t] = FreshTab]
Fails == faults < MaxFaults /\ faults' = faults + 1

-------------------------------------------------------------------------------
(* The button: EmbeddedSignupButton.tsx *)

\* The popup opens and the user picks a number in it.
Launch(t, p) ==
  /\ At(t, "ready")
  /\ tab' = [tab EXCEPT ![t] = [@ EXCEPT !.pc = "popup", !.picked = p]]
  /\ UNCHANGED <<conn, meta, jobs, faults>>

\* The FINISH message of the popup.
Finish(t) ==
  /\ At(t, "popup") /\ tab[t].info # tab[t].picked
  /\ tab' = [tab EXCEPT ![t].info = tab[t].picked]
  /\ UNCHANGED <<conn, meta, jobs, faults>>

\* The popup is closed without a code; the ids it may have sent stay.
CancelPopup(t) ==
  /\ At(t, "popup") /\ Fails
  /\ tab' = [tab EXCEPT ![t] = [@ EXCEPT !.pc = "ready", !.picked = NULL]]
  /\ UNCHANGED <<conn, meta, jobs>>

\* FB.login's callback brings the code: it is submitted with the ids at hand,
\* which are missing or an older popup's when it has outrun this one's message.
Submit(t) ==
  /\ At(t, "popup")
  /\ IF tab[t].info = tab[t].picked THEN UNCHANGED faults ELSE Fails
  /\ IF tab[t].info = NULL THEN Answered(t)
     ELSE tab' = [tab EXCEPT ![t] = [@ EXCEPT !.pc = "limit", !.signup = TRUE]]
  /\ UNCHANGED <<conn, meta, jobs>>

-------------------------------------------------------------------------------
(* The route, and the two forms *)

\* A number added by its token, or a Baileys number (p = NULL) to pair.
AddByForm(t, p) ==
  /\ At(t, "ready") /\ tab[t].info = NULL
  /\ tab' = [tab EXCEPT ![t] = [FreshTab EXCEPT !.pc = "limit", !.info = p]]
  /\ UNCHANGED <<conn, meta, jobs, faults>>

\* (mutant) the plan's last connection is not the last
AtLimitLate == Cardinality(Rows) > MaxConns

\* existing >= limit: 402, or the billing page.
AtLimit == Full

CheckLimit(t) ==
  /\ At(t, "limit")
  /\ IF AtLimit THEN Answered(t)
     ELSE GoesTo(t, IF tab[t].signup THEN "exchange" ELSE "create")
  /\ UNCHANGED <<conn, meta, jobs, faults>>

\* A call to Meta that fails: 502, and nothing is undone.
MetaFails(t) ==
  /\ tab[t].pc \in {"exchange", "register", "subscribe"}
  /\ Answered(t) /\ Fails
  /\ UNCHANGED <<conn, meta, jobs>>

ExchangeCode(t) ==
  /\ At(t, "exchange")
  /\ GoesTo(t, "register")
  /\ UNCHANGED <<conn, meta, jobs, faults>>

\* A number that is already registered counts as registered now; the token of
\* another number's code is refused.
RegisterPhone(t) ==
  LET p == tab[t].info IN
  /\ At(t, "register")
  /\ IF tab[t].picked = p
     THEN meta' = [meta EXCEPT !.registered = @ \cup {p}] /\ GoesTo(t, "subscribe")
     ELSE Answered(t) /\ UNCHANGED meta
  /\ UNCHANGED <<conn, jobs, faults>>

\* (mutant) the row is created while Meta is still asked
SubscribeLater(t) ==
  /\ At(t, "subscribe")
  /\ GoesTo(t, "create")
  /\ UNCHANGED <<conn, meta, jobs, faults>>

\* The display number is asked for next, and done without when it is not given.
SubscribeApp(t) ==
  /\ At(t, "subscribe")
  /\ meta' = [meta EXCEPT !.subscribed = @ \cup {tab[t].info}]
  /\ GoesTo(t, "create")
  /\ UNCHANGED <<conn, jobs, faults>>

\* A Cloud API row is CONNECTED from the start; nothing asks whether the number
\* has a row already.
CreateRow(t) ==
  /\ At(t, "create")
  /\ \E c \in Conns \ Rows :
       conn' = [conn EXCEPT ![c] =
         [phone |-> tab[t].info, signup |-> tab[t].signup,
          status |-> IF tab[t].info = NULL THEN "PENDING" ELSE "CONNECTED"]]
  /\ GoesTo(t, "connect")
  /\ UNCHANGED <<meta, jobs, faults>>

\* gatewayConnect; for a Cloud API row it says CONNECTED once more, and a
\* gateway that is down is ignored.
ConnectRow(t) ==
  /\ At(t, "connect")
  /\ Answered(t)
  /\ UNCHANGED <<conn, meta, jobs, faults>>

\* The web process dies under a request.
WebDies(t) ==
  /\ tab[t].pc \notin {"ready", "popup"}
  /\ Answered(t) /\ Fails
  /\ UNCHANGED <<conn, meta, jobs>>

-------------------------------------------------------------------------------
(* Cloud API rows in use *)

SetStatus(c, from, to) ==
  /\ c \in Rows /\ conn[c].phone # NULL /\ conn[c].status = from
  /\ conn' = [conn EXCEPT ![c].status = to]
  /\ UNCHANGED <<tab, meta, jobs, faults>>

\* SessionManager.logout and logoutConnectionAction: the token is kept
\* (authState: undefined), so that reconnecting is SessionManager.connect alone.
LogoutCloud(c) == SetStatus(c, "CONNECTED", "LOGGED_OUT")
ReconnectCloud(c) == SetStatus(c, "LOGGED_OUT", "CONNECTED")

\* What parseCloudWebhook keeps: the messages with a text.
Queues(i) == i \notin Textless

\* Meta delivers message i, for the first time or again, once our app is
\* subscribed.  It goes to whichever row of its number the query returns last;
\* without one it is acknowledged all the same.
Deliver(i) ==
  /\ PhoneOf[i] \in meta.subscribed
  /\ IF Queues(i) /\ RowsOf(PhoneOf[i]) # {}
     THEN \E c \in RowsOf(PhoneOf[i]) : jobs' = jobs \cup {<<c, i>>}
     ELSE UNCHANGED jobs
  /\ UNCHANGED <<conn, tab, meta, faults>>

-------------------------------------------------------------------------------
Button(t) == \/ \E p \in Phones : Launch(t, p)
             \/ Finish(t) \/ CancelPopup(t) \/ Submit(t)

Serve(t) == \/ CheckLimit(t) \/ ExchangeCode(t) \/ RegisterPhone(t) \/ SubscribeApp(t)
            \/ CreateRow(t) \/ ConnectRow(t)

NumbersNext ==
  \/ \E t \in Tabs : \/ Button(t) \/ Serve(t) \/ MetaFails(t) \/ WebDies(t)
                     \/ \E p \in Phones \cup {NULL} : AddByForm(t, p)
  \/ \E c \in Conns : LogoutCloud(c) \/ ReconnectCloud(c)
  \/ \E i \in Incoming : Deliver(i)

Init == NumbersInit /\ UsageInit

Next == \/ NumbersNext /\ UNCHANGED usageVars
        \/ UsageNext /\ UNCHANGED numberVars

Spec == Init /\ [][Next]_vars

-------------------------------------------------------------------------------
(* Properties *)

\* The plan's limit is checked when a request starts and used up when it ends,
\* after four calls to Meta: it is passed by at most the other requests under
\* way (embedded-signup/route.ts:38-44, connections/actions.ts:12-17).
WithinPlan == Cardinality(Rows) <= MaxConns + Cardinality(Tabs) - 1

\* A number shown as connected by the signup can be written from and heard: it
\* is registered and our app subscribed, whatever failed on the way.
HeardOnceOnboarded ==
  \A c \in Rows : conn[c].signup =>
    conn[c].phone \in meta.registered \cap meta.subscribed

\* Delivered again, a message is the same job, so that the lead is answered
\* once: unless two rows hold the number it was sent to.
QueuedOnce ==
  \A i \in Incoming : LET queued == {c \in Conns : <<c, i>> \in jobs} IN
    queued \subseteq Rows /\ (Cardinality(queued) > 1 => Cardinality({c \in Rows : conn[c].phone = PhoneOf[i]}) > 1)
=============================================================================

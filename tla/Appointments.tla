----------------------------- MODULE Appointments -----------------------------
(***************************************************************************)
(* Meetings with the leads of Leads, from their two sources:               *)
(*   - the bot's own slots: a menu of open slots (booking.ts, the slot     *)
(*     generator of packages/scheduling), the lead's pick and what follows *)
(*     it (process-inbound.ts), reminders (process-reminder.ts);           *)
(*   - the organization's Cal.com page, whose bookings, moves and          *)
(*     cancellations arrive as webhook calls (api/webhooks/calcom) that    *)
(*     Cal.com may delay, repeat and reorder.                              *)
(***************************************************************************)
EXTENDS Leads

CONSTANTS
  Rules,       \* availability: [start, end, length, buffer] in minutes of a day
  GoogleBusy,  \* intervals of the connected calendar
  OfferCount,  \* OFFER_COUNT
  ApptIds,     \* ids for Appointment rows
  Replies,     \* one-shot jobs: a lead's reply to a menu
  Offers,      \* one-shot jobs: the flow reaches book_appointment
  Uids,        \* bookings made at Cal.com
  Times,       \* the intervals its page offers
  Calls,       \* one-shot calls of the webhook about a new booking
  MaxMoves     \* bound: reschedulings of a booking

ASSUME AppointmentsAssumption ==
  /\ NULL \notin ApptIds \cup Uids /\ MaxMoves \in Nat /\ OfferCount \in Nat
  /\ Calls \cap (Requests \cup Jobs \cup {NULL}) = {}
  /\ \A r \in Rules : r.length \in Nat \ {0} /\ r.buffer \in Nat

VARIABLES
  appt,        \* appt[a]: the row, or NULL
  menu,        \* menu[l]: the slots of the menu l is paused on
  offer, reply,
  timers,      \* <<appointment, kind>>: pending reminder jobs
  booking,     \* booking[u]: what happened to it at Cal.com, in order
  booker,      \* booker[u]: the lead who made it; known: by the bot's link or by phone
  delivered,   \* delivered[u]: history: positions in booking[u] delivered so far
  disorder,    \* history: bookings with an event delivered out of order
  call,
  confirmed    \* confirmed[u]: history: confirmations sent

slotVars == <<menu, offer, reply, timers>>
hookVars == <<booking, booker, delivered, disorder, call, confirmed>>
apptVars == <<appt, slotVars, hookVars>>

-------------------------------------------------------------------------------
(* Slots: packages/scheduling *)

Overlaps(a, b) == a[1] < b[2] /\ b[1] < a[2]

SlotsOf(r) == {<<m, m + r.length>> : m \in {r.start + k * (r.length + r.buffer) : k \in 0 .. r.end}}
SlotsWithin(r) == {s \in SlotsOf(r) : s[2] <= r.end}
Slots == UNION {SlotsWithin(r) : r \in Rules}

\* (mutant) what is busy stays on the menu
GenerateAll(busy) == Slots

GenerateSlots(busy) == {s \in Slots : \A b \in busy : ~Overlaps(s, b)}

\* slots.slice(0, OFFER_COUNT), of the slots in order.
FirstSlots(open) == {s \in open : Cardinality({o \in open : o[1] < s[1]}) < OfferCount}

Live == {a \in ApptIds : appt[a] # NULL /\ appt[a].status = "BOOKED"}
Booked == {appt[a].slot : a \in Live}

\* A menu: its slots, and which of them were taken after the slots were read.
Menu == [slots: SUBSET Slots, late: SUBSET Slots]
NoMenu == [slots |-> {}, late |-> {}]
Taking(m, s) == [m EXCEPT !.late = @ \cup {o \in m.slots : Overlaps(o, s)}]

Appt == [lead: LeadIds, slot: Slots \cup Times, status: {"BOOKED", "CANCELLED"}, uid: Uids \cup {NULL}]
Offer == [pc: {"send"}, lead: LeadIds, menu: Menu] \cup {New, Done}
Reply == [pc: {"book", "remind", "persist"}, lead: LeadIds, slot: Slots, late: BOOLEAN,
          row: ApptIds \cup {NULL}] \cup {New, Done}
Call == [pc: {"record", "confirm"}, uid: Uids, lead: LeadIds, advance: BOOLEAN,
         sure: BOOLEAN] \cup {New, Done}
Booker == [lead: LeadIds, known: BOOLEAN]
Event == [kind: {"created", "rescheduled", "cancelled"}, slot: Times]

ASSUME RowsAssumption == NULL \notin Appt \cup Booker

AppointmentsTypeOK ==
  /\ appt \in [ApptIds -> Appt \cup {NULL}]
  /\ menu \in [LeadIds -> Menu]
  /\ offer \in [Offers -> Offer] /\ reply \in [Replies -> Reply] /\ call \in [Calls -> Call]
  /\ timers \subseteq ApptIds \X {"24h", "1h"}
  /\ booking \in [Uids -> Seq(Event)] /\ booker \in [Uids -> Booker \cup {NULL}]
  /\ delivered \in [Uids -> SUBSET Nat] /\ \A u \in Uids : delivered[u] \subseteq DOMAIN booking[u]
  /\ disorder \subseteq Uids /\ confirmed \in [Uids -> Nat]

AppointmentsInit ==
  /\ appt = [a \in ApptIds |-> NULL]
  /\ menu = [l \in LeadIds |-> NoMenu]
  /\ offer = [o \in Offers |-> New] /\ reply = [x \in Replies |-> New] /\ call = [d \in Calls |-> New]
  /\ timers = {}
  /\ booking = [u \in Uids |-> <<>>] /\ booker = [u \in Uids |-> NULL]
  /\ delivered = [u \in Uids |-> {}] /\ disorder = {}
  /\ confirmed = [u \in Uids |-> 0]

\* A live row appears at s: whoever has read the slots before is late for it.
Takes(s, m, rp) ==
  /\ menu' = [l \in LeadIds |-> Taking(m[l], s)]
  /\ offer' = [o \in Offers |-> IF offer[o].pc = "send" THEN [offer[o] EXCEPT !.menu = Taking(@, s)] ELSE offer[o]]
  /\ reply' = [x \in Replies |-> IF rp[x].pc = "book" /\ Overlaps(rp[x].slot, s)
                              THEN [rp[x] EXCEPT !.late = TRUE] ELSE rp[x]]

Free(a) == appt[a] = NULL /\ a = CHOOSE b \in ApptIds : appt[b] = NULL
AddRow(a, l, s, u) ==
  /\ Free(a)
  /\ appt' = [appt EXCEPT ![a] = [lead |-> l, slot |-> s, status |-> "BOOKED", uid |-> u]]

-------------------------------------------------------------------------------
(* The bot's slots: applyAndPersist, handleBookingReply *)

\* offerSlots; Google's calendar is done without when it cannot be asked.
ReadSlots(o, l) ==
  /\ offer[o].pc = "new" /\ menu[l] = NoMenu
  /\ \E busy \in {{}, GoogleBusy} :
       LET open == FirstSlots(GenerateSlots(Booked \cup busy)) IN
       offer' = [offer EXCEPT ![o] = IF open = {} THEN Done
                                     ELSE [pc |-> "send", lead |-> l, menu |-> [slots |-> open, late |-> {}]]]
  /\ UNCHANGED <<appt, menu, reply, timers, hookVars, leadsVars>>

\* The menu is sent, and persisted with the conversation.
SendMenu(o) ==
  /\ offer[o].pc = "send"
  /\ menu' = [menu EXCEPT ![offer[o].lead] = offer[o].menu]
  /\ offer' = [offer EXCEPT ![o] = Done]
  /\ UNCHANGED <<appt, reply, timers, hookVars, leadsVars>>

\* The lead picks a slot of the menu in the conversation's state; any other
\* reply is answered with the same menu.
ReadPick(x, l, s) ==
  /\ reply[x].pc = "new" /\ s \in menu[l].slots
  /\ reply' = [reply EXCEPT ![x] = [pc |-> "book", lead |-> l, slot |-> s, late |-> s \in menu[l].late, row |-> NULL]]
  /\ UNCHANGED <<appt, menu, offer, timers, hookVars, leadsVars>>

\* The row is created; whether the slot is still free is not asked.
BookSlot(x) ==
  LET r == reply[x] IN
  /\ r.pc = "book"
  /\ \E a \in ApptIds :
       /\ AddRow(a, r.lead, r.slot, NULL)
       /\ Takes(r.slot, menu, [reply EXCEPT ![x] = [r EXCEPT !.pc = "remind", !.row = a]])
  /\ UNCHANGED <<timers, hookVars, leadsVars>>

\* After the calendar event, which may fail: the reminders whose time has not
\* passed; a timer is known by its row and kind.
ScheduleReminders(x) ==
  /\ reply[x].pc = "remind"
  /\ \E kinds \in {{}, {"1h"}, {"24h", "1h"}} : timers' = timers \cup ({reply[x].row} \X kinds)
  /\ reply' = [reply EXCEPT ![x].pc = "persist"]
  /\ UNCHANGED <<appt, menu, offer, hookVars, leadsVars>>

\* The flow goes on, and the menu leaves the conversation's state.
ResumeFlow(x) ==
  /\ reply[x].pc = "persist"
  /\ menu' = [menu EXCEPT ![reply[x].lead] = NoMenu]
  /\ reply' = [reply EXCEPT ![x] = Done]
  /\ UNCHANGED <<appt, offer, timers, hookVars, leadsVars>>

\* The worker dies: the job starts again, and reads the conversation again.
RerunReply(x) ==
  /\ reply[x].pc \notin {"new", "done"} /\ deaths < MaxDeaths
  /\ deaths' = deaths + 1
  /\ reply' = [reply EXCEPT ![x] = New]
  /\ UNCHANGED <<appt, menu, offer, timers, hookVars, rowVars, request, botVars, chaseVars, teamVars>>

\* processReminder; a meeting that is off is skipped.
FireReminder(t) ==
  /\ t \in timers
  /\ timers' = timers \ {t}
  /\ UNCHANGED <<appt, menu, offer, reply, hookVars, leadsVars>>

-------------------------------------------------------------------------------
(* Cal.com *)

Latest(u) == booking[u][Len(booking[u])]
Happens(u, kind, t) == booking' = [booking EXCEPT ![u] = Append(@, [kind |-> kind, slot |-> t])]
AtCalcom == UNCHANGED <<appt, slotVars, delivered, disorder, call, confirmed, leadsVars>>

BookAtCalcom(u, l, t, known) ==
  /\ booking[u] = <<>> /\ Happens(u, "created", t)
  /\ booker' = [booker EXCEPT ![u] = [lead |-> l, known |-> known]]
  /\ AtCalcom

MoveAtCalcom(u, t) ==
  /\ booking[u] # <<>> /\ Latest(u).kind # "cancelled" /\ Latest(u).slot # t
  /\ Len(booking[u]) <= MaxMoves
  /\ Happens(u, "rescheduled", t)
  /\ AtCalcom /\ UNCHANGED booker

CancelAtCalcom(u) ==
  /\ booking[u] # <<>> /\ Latest(u).kind # "cancelled"
  /\ Happens(u, "cancelled", Latest(u).slot)
  /\ AtCalcom /\ UNCHANGED booker

\* Event k of u arrives: late when it is new, or moves the meeting, and a later
\* one has been there.
Arrives(u, k) ==
  /\ delivered' = [delivered EXCEPT ![u] = @ \cup {k}]
  /\ disorder' = IF /\ \E later \in delivered[u] : later > k
                    /\ k \notin delivered[u] \/ booking[u][k].kind = "rescheduled"
                 THEN disorder \cup {u} ELSE disorder

RowOf(u) == {a \in ApptIds : appt[a] # NULL /\ appt[a].uid = u}

\* resolveBooker: by link or phone, or else a guess, which is confirmed when the
\* name fits or the link went to one lead only; with nobody to guess the booking
\* is dropped.
MatchBooker(d, u) ==
  /\ call[d].pc = "new" /\ booking[u] # <<>>
  /\ \E l \in LeadIds, sure \in BOOLEAN :
       /\ booker[u].known => l = booker[u].lead /\ sure
       /\ call' = [call EXCEPT ![d] = [pc |-> "record", uid |-> u, lead |-> l, sure |-> sure,
                                       advance |-> lead[l].status \in Open]]
       /\ Reads(d, {l})
  /\ KeepsRows
  /\ UNCHANGED <<appt, slotVars, booking, booker, delivered, disorder, confirmed>>
  /\ UNCHANGED <<timeline, unlogged, request, botVars, chaseVars, teamVars, deaths>>

MatchNobody(u) ==
  /\ booking[u] # <<>> /\ ~booker[u].known
  /\ Arrives(u, 1)
  /\ UNCHANGED <<appt, slotVars, booking, booker, call, confirmed, leadsVars>>

\* The unique calcomUid: asked for before the transaction, and enforced by it.
Recorded(u) == RowOf(u) # {}

Hangs(d) == call' = [call EXCEPT ![d] = Done]

\* The transaction: the appointment, the lead's new status and both entries.
RecordBooking(d) ==
  LET c == call[d]  new == [l \in LeadIds |-> [lead[l] EXCEPT !.status = "MEETING_SET"]] IN
  /\ call[d].pc = "record"
  /\ Arrives(c.uid, 1)
  /\ IF Recorded(c.uid)
     THEN Hangs(d) /\ Leaves(d) /\ KeepsRows /\ UNCHANGED <<appt, menu, offer, reply, timeline>>
     ELSE /\ \E a \in ApptIds : AddRow(a, c.lead, booking[c.uid][1].slot, c.uid)
          /\ Takes(booking[c.uid][1].slot, menu, reply)
          /\ Writes(d, IF c.advance THEN {c.lead} ELSE {}, new)
          /\ timeline' = IF c.advance THEN [timeline EXCEPT ![c.lead].status = "MEETING_SET"] ELSE timeline
          /\ call' = [call EXCEPT ![d].pc = "confirm"] /\ Leaves(d)
  /\ UNCHANGED <<timers, booking, booker, confirmed, unlogged, request, botVars, chaseVars, teamVars, deaths>>

\* sendBookingSummary, for a booker who is known.
ConfirmBooking(d) ==
  /\ call[d].pc = "confirm"
  /\ confirmed' = [confirmed EXCEPT ![call[d].uid] = IF call[d].sure THEN @ + 1 ELSE @]
  /\ Hangs(d)
  /\ UNCHANGED <<appt, slotVars, booking, booker, delivered, disorder, leadsVars>>

\* The web process dies under the call; Cal.com will call again.
HookDies(d) ==
  /\ call[d].pc \notin {"new", "done"} /\ deaths < MaxDeaths
  /\ deaths' = deaths + 1
  /\ call' = [call EXCEPT ![d] = New] /\ Leaves(d)
  /\ KeepsRows
  /\ UNCHANGED <<appt, slotVars, booking, booker, delivered, disorder, confirmed>>
  /\ UNCHANGED <<timeline, unlogged, request, botVars, chaseVars, teamVars>>

\* (mutant) the new times are forgotten
StatusOnly(row, e) == [row EXCEPT !.status = IF e.kind = "cancelled" THEN "CANCELLED" ELSE "BOOKED"]

Changed(row, e) == IF e.kind = "cancelled" THEN [row EXCEPT !.status = "CANCELLED"]
                   ELSE [row EXCEPT !.slot = e.slot, !.status = "BOOKED"]

\* A cancellation or a rescheduling, of the row with its uid; without one it is
\* dropped.
ReceiveChange(u, k) ==
  LET e == booking[u][k] IN
  /\ k \in DOMAIN booking[u] /\ e.kind # "created"
  /\ Arrives(u, k)
  /\ appt' = [a \in ApptIds |-> IF a \in RowOf(u) THEN Changed(appt[a], e) ELSE appt[a]]
  /\ IF e.kind = "rescheduled" /\ Recorded(u)
     THEN Takes(e.slot, menu, reply) ELSE UNCHANGED <<menu, offer, reply>>
  /\ UNCHANGED <<timers, booking, booker, call, confirmed, leadsVars>>

-------------------------------------------------------------------------------
BotNext ==
  \/ \E o \in Offers : SendMenu(o) \/ \E l \in LeadIds : ReadSlots(o, l)
  \/ \E x \in Replies :
       \/ \E l \in LeadIds : \E s \in menu[l].slots : ReadPick(x, l, s)
       \/ BookSlot(x) \/ ScheduleReminders(x) \/ ResumeFlow(x) \/ RerunReply(x)
  \/ \E t \in timers : FireReminder(t)

CalcomNext ==
  \/ \E u \in Uids :
       \/ \E l \in LeadIds, t \in Times, known \in BOOLEAN : BookAtCalcom(u, l, t, known)
       \/ \E t \in Times : MoveAtCalcom(u, t)
       \/ CancelAtCalcom(u)
       \/ \E k \in DOMAIN booking[u] : ReceiveChange(u, k)
       \/ MatchNobody(u) \/ \E d \in Calls : MatchBooker(d, u)
  \/ \E d \in Calls : RecordBooking(d) \/ ConfirmBooking(d) \/ HookDies(d)

vars == <<leadsVars, apptVars>>

Init == LeadsInit /\ AppointmentsInit
Next == \/ (LeadsNext \/ FollowUpsNext) /\ UNCHANGED apptVars
        \/ BotNext \/ CalcomNext

Spec == Init /\ [][Next]_vars

-------------------------------------------------------------------------------
(* Properties *)

\* The bot books over a live meeting, its own or Cal.com's, only for a lead who
\* picked from a menu read before that meeting was there
\* (process-inbound.ts:667): a menu never offers what is taken.
OnlyLateMenusClash ==
  [][\A x \in Replies :
       reply[x].pc = "book" /\ reply'[x].pc = "remind" =>
       reply[x].late \/ \A s \in Booked : ~Overlaps(reply[x].slot, s)]_vars

\* However often and however concurrently a booking's creation is delivered, it
\* has one row at most and is confirmed once (route.ts:322-327).  Once all that
\* happened to a known lead's booking has been delivered, each step no later than
\* the next, its row shows the time and the status it has at Cal.com, whatever
\* was delivered again (route.ts:15-16).
InSync ==
  \A u \in Uids :
    /\ Cardinality(RowOf(u)) <= 1 /\ confirmed[u] <= 1
    /\ u \notin disorder /\ booking[u] # <<>> /\ delivered[u] = DOMAIN booking[u] /\ booker[u].known =>
         \E a \in RowOf(u) : /\ appt[a].slot = Latest(u).slot
                             /\ (appt[a].status = "CANCELLED") = (Latest(u).kind = "cancelled")
=============================================================================

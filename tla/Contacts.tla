-------------------------------- MODULE Contacts --------------------------------
(***************************************************************************)
(* Who a message is from: the way of an inbound message from the gateway's *)
(* socket (normalizeInbound and withResolvedPhone of                       *)
(* baileys-provider.ts, onInbound of manager.ts) or the Cloud API's web-   *)
(* hook to the contact it is filed under (isForeignPlatformNumber and      *)
(* resolveContact of process-inbound.ts), beside the contacts that         *)
(* broadcasts and bookings bring in by phone.                              *)
(*                                                                         *)
(* A person is known by a phone number and, in chats that hide it, by an   *)
(* opaque id, the LID.  A contact is keyed by one of the two.  What the    *)
(* message says and what happens once it is filed is Conversations' part.  *)
(***************************************************************************)
EXTENDS Naturals

CONSTANTS
  People,        \* who writes to the organization
  Paired,        \* those whose number is another organization's paired phone
  Inbound,       \* messages with a text in a chat of two
  ByWhom,        \* ByWhom[m]: the sender
  ViaCloud,      \* those sent to a Cloud API number, the others to a paired one
  ContactIds,    \* ids for Contact rows
  MaxDeliveries  \* bound: times WhatsApp hands over a message

ASSUME ContactsAssumption ==
  /\ Paired \subseteq People
  /\ ByWhom \in [Inbound -> People] /\ ViaCloud \subseteq Inbound
  /\ "none" \notin People \cup ContactIds /\ MaxDeliveries \in Nat

VARIABLES
  arrivals,  \* history: times each message was handed over
  arriving,  \* messages whose sender the gateway is finding out
  inbox,     \* inbox[m]: the job of message m on the inbound queue
  contact,   \* contact[c]: the row
  campaign,  \* recipients a broadcast has yet to write to
  blurred    \* history: the people the next section says of

contactVars == <<arrivals, arriving, inbox, contact, campaign, blurred>>

-------------------------------------------------------------------------------
Number(p) == <<"number", p>>
Lid(p) == <<"lid", p>>
Address == {"number", "lid"} \X People
NoAddress == <<"none", "none">>
IsLid(a) == a[1] = "lid"
Person(a) == a[2]

\* phone and waJid of a Contact row.
Contact == [phone: Address, jid: Address \cup {NoAddress}]
NoContact == [phone |-> NoAddress, jid |-> NoAddress]
Existing == {c \in ContactIds : contact[c] # NoContact}
Under(a) == {c \in Existing : contact[c].phone = a}

\* The database has ids enough: no step is taken beyond ContactIds.
Freed == CHOOSE c \in ContactIds \ Existing : TRUE
HasFree == Existing # ContactIds

\* The alternate address on the message itself.
Chat == [message: Inbound, jid: Address, alt: BOOLEAN]

\* row: the contact read last, or the one the message is filed under.
Job == [pc: {"absent", "queued", "find", "legacy", "migrate", "refresh", "create", "conflict",
             "filed", "dropped", "failed"},
        from: Address \cup {NoAddress}, jid: Address \cup {NoAddress}, pn: Address \cup {NoAddress},
        row: ContactIds \cup {"none"}]
NoJob == [pc |-> "absent", from |-> NoAddress, jid |-> NoAddress, pn |-> NoAddress, row |-> "none"]

ContactsTypeOK ==
  /\ arrivals \in [Inbound -> 0..MaxDeliveries] /\ arriving \subseteq Chat
  /\ inbox \in [Inbound -> Job]
  /\ contact \in [ContactIds -> Contact \cup {NoContact}]
  /\ campaign \subseteq Address /\ blurred \subseteq People

ContactsInit ==
  /\ arrivals = [m \in Inbound |-> 0] /\ arriving = {}
  /\ inbox = [m \in Inbound |-> NoJob]
  /\ contact = [c \in ContactIds |-> NoContact]
  /\ campaign = {} /\ blurred = {}

\* What the program cannot see through: a message with the LID alone when the
\* number is known, one with the number alone when the LID is, two at once of
\* which one has the LID alone, and a number learnt from somewhere else.
Working(m) == inbox[m].pc \in {"find", "legacy", "migrate", "refresh", "create", "conflict"}
Blurs(m) ==
  \/ \E n \in Inbound \ {m} : ByWhom[n] = ByWhom[m] /\ Working(n) /\ inbox[n].from # inbox[m].from
  \/ IsLid(inbox[m].from) /\ Under(Number(ByWhom[m])) # {}
  \/ inbox[m].pn = NoAddress /\ ~IsLid(inbox[m].from) /\ Under(Lid(ByWhom[m])) # {}

-------------------------------------------------------------------------------
(* The gateway *)

\* messages.upsert, for a message that is new or that WhatsApp hands over again;
\* what is no text in a chat of two goes no further.
NormalizeInbound(m, jid, alt) ==
  /\ m \notin ViaCloud /\ arrivals[m] < MaxDeliveries /\ Person(jid) = ByWhom[m]
  /\ arrivals' = [arrivals EXCEPT ![m] = @ + 1]
  /\ arriving' = arriving \cup {[message |-> m, jid |-> jid, alt |-> alt]}
  /\ UNCHANGED <<inbox, contact, campaign, blurred>>

\* The number behind a LID, when the message or the mapping store tells it.
SenderPn(chat) ==
  IF ~IsLid(chat.jid) THEN {NoAddress}
  ELSE {Number(Person(chat.jid))} \cup (IF chat.alt THEN {} ELSE {NoAddress})

\* inboundQueue.add ignores a job id it has: jobs are not removed.
Add(m, from, jid, pn) ==
  inbox' = IF inbox[m] # NoJob THEN inbox
           ELSE [inbox EXCEPT ![m] = [NoJob EXCEPT !.pc = "queued", !.from = from, !.jid = jid, !.pn = pn]]

WithResolvedPhone(chat) ==
  /\ chat \in arriving
  /\ arriving' = arriving \ {chat}
  /\ \E pn \in SenderPn(chat) : Add(chat.message, IF pn = NoAddress THEN chat.jid ELSE pn, chat.jid, pn)
  /\ UNCHANGED <<arrivals, contact, campaign, blurred>>

\* The Cloud API names the sender by number and no chat.
Webhook(m) ==
  /\ m \in ViaCloud /\ arrivals[m] < MaxDeliveries
  /\ arrivals' = [arrivals EXCEPT ![m] = @ + 1]
  /\ Add(m, Number(ByWhom[m]), NoAddress, NoAddress)
  /\ UNCHANGED <<arriving, contact, campaign, blurred>>

-------------------------------------------------------------------------------
(* The worker, eight jobs at a time *)

JobAt(m, pc) == inbox[m].pc = pc
Goes(m, pc, row) == inbox' = [inbox EXCEPT ![m] = [@ EXCEPT !.pc = pc, !.row = row]]

\* A Cloud API row holds an id of Meta's or a number as it is displayed, which
\* no sender's digits are equal to.
IsForeignPlatformNumber(m) ==
  \E p \in Paired : Number(p) \in {inbox[m].from, inbox[m].jid}

StartJob(m) ==
  /\ JobAt(m, "queued")
  /\ Goes(m, IF IsForeignPlatformNumber(m) THEN "dropped" ELSE "find", "none")
  /\ blurred' = IF ~IsForeignPlatformNumber(m) /\ Blurs(m) THEN blurred \cup {ByWhom[m]} ELSE blurred
  /\ UNCHANGED <<arrivals, arriving, contact, campaign>>

\* (mutant) only a number's own contact is looked for
NoLegacyKey(m) == NoAddress

\* What an earlier contact of the sender was filed under.
LegacyKey(m) == IF inbox[m].pn # NoAddress /\ IsLid(inbox[m].jid) THEN inbox[m].jid ELSE NoAddress

\* The contact at hand, whose chat is noted if it is another now.
Settle(m, c) ==
  Goes(m, IF inbox[m].jid \notin {NoAddress, contact[c].jid} THEN "refresh" ELSE "filed", c)

FindContact(m) ==
  /\ JobAt(m, "find")
  /\ \/ \E c \in Under(inbox[m].from) : Settle(m, c)
     \/ /\ Under(inbox[m].from) = {}
        /\ Goes(m, IF LegacyKey(m) # NoAddress THEN "legacy" ELSE "create", "none")
  /\ UNCHANGED <<arrivals, arriving, contact, campaign, blurred>>

FindLegacy(m) ==
  /\ JobAt(m, "legacy")
  /\ \/ \E c \in Under(LegacyKey(m)) : Goes(m, "migrate", c)
     \/ Under(LegacyKey(m)) = {} /\ Goes(m, "create", "none")
  /\ UNCHANGED <<arrivals, arriving, contact, campaign, blurred>>

\* The contact under the LID gets the number; when another has it already both
\* are left, and the message goes to that one.
Migrate(m) ==
  LET others == Under(inbox[m].from) \ {inbox[m].row} IN
  /\ JobAt(m, "migrate")
  /\ IF others = {}
     THEN /\ contact' = [contact EXCEPT ![inbox[m].row] = [phone |-> inbox[m].from, jid |-> inbox[m].jid]]
          /\ Goes(m, "filed", inbox[m].row)
     ELSE (\E c \in others : Settle(m, c)) /\ UNCHANGED contact
  /\ UNCHANGED <<arrivals, arriving, campaign, blurred>>

RefreshJid(m) ==
  /\ JobAt(m, "refresh")
  /\ contact' = [contact EXCEPT ![inbox[m].row].jid = inbox[m].jid]
  /\ Goes(m, "filed", inbox[m].row)
  /\ UNCHANGED <<arrivals, arriving, campaign, blurred>>

CreateContact(m) ==
  /\ JobAt(m, "create")
  /\ IF Under(inbox[m].from) = {}
     THEN /\ HasFree
          /\ contact' = [contact EXCEPT ![Freed] = [phone |-> inbox[m].from, jid |-> inbox[m].jid]]
          /\ Goes(m, "filed", Freed)
     ELSE Goes(m, "conflict", "none") /\ UNCHANGED contact
  /\ UNCHANGED <<arrivals, arriving, campaign, blurred>>

\* (mutant) losing the race to create fails the job
FindNoWinner(m) ==
  /\ JobAt(m, "conflict")
  /\ Goes(m, "failed", "none")
  /\ UNCHANGED <<arrivals, arriving, contact, campaign, blurred>>

\* The contact that won the race to be created; the job fails for good when it
\* has got another key meanwhile.
FindWinner(m) ==
  /\ JobAt(m, "conflict")
  /\ \/ \E c \in Under(inbox[m].from) : Goes(m, "filed", c)
     \/ Under(inbox[m].from) = {} /\ Goes(m, "failed", "none")
  /\ UNCHANGED <<arrivals, arriving, contact, campaign, blurred>>

\* The worker dies: the jobs it had are found stalled and run again.
WorkerDies ==
  /\ \E m \in Inbound : Working(m)
  /\ inbox' = [m \in Inbound |-> IF Working(m) THEN [inbox[m] EXCEPT !.pc = "queued", !.row = "none"] ELSE inbox[m]]
  /\ UNCHANGED <<arrivals, arriving, contact, campaign, blurred>>

-------------------------------------------------------------------------------
(* Contacts by phone *)

\* contact.upsert by the phone alone.
Upsert(a) ==
  IF Under(a) # {} THEN UNCHANGED <<contact, blurred>>
  ELSE /\ HasFree
       /\ contact' = [contact EXCEPT ![Freed] = [phone |-> a, jid |-> NoAddress]]
       /\ blurred' = blurred \cup {Person(a)}

\* The leads that have a number, LIDs being longer than one, and those typed in.
CollectAudience(typed) ==
  {contact[c].phone : c \in {d \in Existing : ~IsLid(contact[d].phone)}} \cup {Number(p) : p \in typed}

CreateBroadcast(typed) ==
  /\ campaign = {}
  /\ campaign' = CollectAudience(typed)
  /\ UNCHANGED <<arrivals, arriving, inbox, contact, blurred>>

SendBroadcast(a) ==
  /\ a \in campaign
  /\ campaign' = campaign \ {a}
  /\ Upsert(a)
  /\ UNCHANGED <<arrivals, arriving, inbox>>

\* A booking of somebody no contact's phone ends like.
CreateFromBooking(p) ==
  /\ Upsert(Number(p))
  /\ UNCHANGED <<arrivals, arriving, inbox, campaign>>

-------------------------------------------------------------------------------
Resolving(m) == FindContact(m) \/ FindLegacy(m) \/ Migrate(m) \/ RefreshJid(m) \/ CreateContact(m) \/ FindWinner(m)

ContactsNext ==
  \/ \E m \in Inbound : \/ \E jid \in Address, alt \in BOOLEAN : NormalizeInbound(m, jid, alt)
                        \/ Webhook(m) \/ StartJob(m) \/ Resolving(m)
  \/ \E chat \in arriving : WithResolvedPhone(chat)
  \/ WorkerDies
  \/ \E typed \in SUBSET People : CreateBroadcast(typed)
  \/ \E a \in campaign : SendBroadcast(a)
  \/ \E p \in People : CreateFromBooking(p)

ContactsSpec == ContactsInit /\ [][ContactsNext]_contactVars

-------------------------------------------------------------------------------
(* Properties *)

\* Nobody forks into a second contact, "losing their conversation history at the
\* exact moment we finally learned who they are" (process-inbound.ts:393-397):
\* not when a hidden number comes to be known, nor by deliveries again, restarts
\* or messages at once, unless the program cannot see through it.
OneLeadEach ==
  \A c, d \in Existing : c # d /\ Person(contact[c].phone) = Person(contact[d].phone)
                           => Person(contact[c].phone) \in blurred

\* A message ends with a contact of its sender, at whom an answer can be
\* addressed, and fails only if that contact was given its number under it; the
\* bot of another organization's paired phone is a lead only behind a LID
\* (process-inbound.ts:399-459 and 62-84).
MessagesFindTheirLead ==
  /\ \A m \in Inbound :
       /\ JobAt(m, "filed") =>
            /\ Person(contact[inbox[m].row].phone) = ByWhom[m]
            /\ Person(contact[inbox[m].row].jid) \in {ByWhom[m], "none"}
            /\ (ByWhom[m] \in Paired => IsLid(inbox[m].from))
       /\ JobAt(m, "failed") => ByWhom[m] \in blurred
  /\ \A c \in Existing : IsLid(contact[c].phone) => IsLid(contact[c].jid)
================================================================================

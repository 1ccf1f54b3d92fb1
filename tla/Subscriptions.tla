----------------------------- MODULE Subscriptions -----------------------------
(***************************************************************************)
(* How a Grow charge becomes access: the webhook that records a charge,    *)
(* the claims that attach a parked one to an organization, the admin's     *)
(* activation, the tenant's switch to FREE and the self-healing plan check *)
(* (apps/web/src/lib/subscriptions.ts, plan.ts, billing/actions.ts).       *)
(*                                                                         *)
(* A web request is a sequence of database calls; each action is the code  *)
(* between two of them, and what a request read travels with it in         *)
(* req[r].  A Prisma transaction runs at READ COMMITTED, so applyCharge    *)
(* reads the subscription (ReadCovered) and commits its writes (Commit) in *)
(* two steps.  Time is whole months.                                       *)
(***************************************************************************)
EXTENDS Naturals, FiniteSets

CONSTANTS
  NULL,
  Orgs,
  Charges,      \* Grow transactions, the monthly ones of a standing order too
  Plans,        \* the paid plans
  FREE,
  PlanOf,       \* PlanOf[c]: the product charge c paid for
  MonthsOf,     \* MonthsOf[c]: payments the standing order was opened for
  PayerOf,      \* PayerOf[c]: the phone and email on the payment page
  ProcessOf,    \* ProcessOf[c]: Grow's process id of the standing order, or NULL
  Unnamed,      \* charges some delivery of which names no known product
  Claims,       \* <<o, p>>: a user of o logs in, or types, as payer p
  Handed,       \* <<o, c>>: the admin may hand parked charge c to organization o
  Manual,       \* <<o, p>>: the admin may set organization o to plan p
  Leavers,      \* organizations whose tenant may switch to FREE
  Requests,     \* slots for requests under way at once
  Leaps,        \* bound: how many months may pass between two events
  MaxTime,      \* bound: months
  MaxCrashes    \* bound: requests cut off half-way

ASSUME BillingAssumption ==
  /\ FREE \notin Plans /\ NULL \notin Orgs
  /\ PlanOf \in [Charges -> Plans]
  /\ MonthsOf \in [Charges -> 1..12]
  /\ NULL \notin Nat
  /\ Unnamed \subseteq Charges
  /\ Leaps \subseteq Nat \ {0} /\ MaxTime \in Nat /\ MaxCrashes \in Nat

VARIABLES
  plan,      \* Organization.plan: what the dashboard reads
  sub,       \* the Subscription row of each organization
  payments,  \* Payment rows
  event,     \* event[c]: the WebhookEvent row of charge c
  parked,    \* parked[c]: the UnclaimedGrowPayment row of charge c
  now,
  req,       \* the requests under way
  crashes

vars == <<plan, sub, payments, event, parked, now, req, crashes>>
rows == <<plan, sub, payments, event, parked>>

-------------------------------------------------------------------------------
(* Rows and requests *)

Time == Nat

\* until = NULL: the period has no end.
Subscription ==
  [status: {"ACTIVE", "CANCELED"}, plan: Plans, until: Time \cup {NULL},
   cancelAtPeriodEnd: BOOLEAN, process: {NULL} \cup {ProcessOf[c] : c \in Charges}]
NoSubscription == [status |-> "none", plan |-> FREE, until |-> NULL,
                   cancelAtPeriodEnd |-> FALSE, process |-> NULL]

Payment == [charge: Charges, org: Orgs, at: Time]

\* A parked charge, and the organization that has claimed it.
Parked == [there: BOOLEAN, at: Time, org: Orgs \cup {NULL}]
NotParked == [there |-> FALSE, at |-> 0, org |-> NULL]

Request == [pc: {"idle", "record", "lookup", "park", "claim", "read", "commit", "mark",
                 "heal", "cancel"},
            webhook: BOOLEAN, charge: Charges \cup {NULL}, org: Orgs \cup {NULL},
            at: Time, existing: Subscription \cup {NoSubscription}]
Idle == [pc |-> "idle", webhook |-> FALSE, charge |-> NULL, org |-> NULL, at |-> 0,
         existing |-> NoSubscription]

TypeOK ==
  /\ plan \in [Orgs -> Plans \cup {FREE}]
  /\ sub \in [Orgs -> Subscription \cup {NoSubscription}]
  /\ payments \subseteq Payment
  /\ event \in [Charges -> {"none", "received", "processed"}]
  /\ parked \in [Charges -> Parked]
  /\ now \in Time
  /\ req \in [Requests -> Request]
  /\ crashes \in Nat

Init ==
  /\ plan = [o \in Orgs |-> FREE]
  /\ sub = [o \in Orgs |-> NoSubscription]
  /\ payments = {}
  /\ event = [c \in Charges |-> "none"]
  /\ parked = [c \in Charges |-> NotParked]
  /\ now = 0
  /\ req = [r \in Requests |-> Idle]
  /\ crashes = 0

At(r, pc) == req[r].pc = pc
Done(r) == req' = [req EXCEPT ![r] = Idle]
GoesTo(r, pc) == req' = [req EXCEPT ![r].pc = pc]
GoesToMark(r) == req' = [req EXCEPT ![r] = [Idle EXCEPT !.pc = "mark", !.webhook = TRUE,
                                                        !.charge = req[r].charge]]

-------------------------------------------------------------------------------
(* The webhook: applyGrowPayment *)

\* A delivery arrives, for the first time or again; one already processed is
\* turned away.
Deliver(r, c) ==
  /\ At(r, "idle") /\ event[c] # "processed"
  /\ req' = [req EXCEPT ![r] = [Idle EXCEPT !.pc = "record", !.webhook = TRUE, !.charge = c]]
  /\ UNCHANGED <<rows, now, crashes>>

RecordProcessed(r) ==
  /\ At(r, "record")
  /\ event' = [event EXCEPT ![req[r].charge] = "processed"]
  /\ req' = [req EXCEPT ![r].pc = "lookup", ![r].at = now]
  /\ UNCHANGED <<plan, sub, payments, parked, now, crashes>>

\* The event row is created unless another delivery has; a delivery that names
\* no known product goes no further.
Record(r) ==
  LET c == req[r].charge IN
  /\ At(r, "record")
  /\ event' = [event EXCEPT ![c] = IF @ = "none" THEN "received" ELSE @]
  /\ \/ c \in Unnamed /\ Done(r)
     \/ req' = [req EXCEPT ![r].pc = "lookup", ![r].at = now]
  /\ UNCHANGED <<plan, sub, payments, parked, now, crashes>>

\* The organizations the code may name as the payer of c: one whose subscription
\* carries the process id, else the last to have claimed a charge of this payer.
ByProcess(c) == {o \in Orgs : ProcessOf[c] # NULL /\ sub[o].process = ProcessOf[c]}
Prior(c) == {d \in Charges : parked[d].org # NULL /\ PayerOf[d] = PayerOf[c]}
LastClaimed(c) == {d \in Prior(c) : \A e \in Prior(c) : parked[e].at <= parked[d].at}
RepeatPayer(c) ==
  IF ByProcess(c) # {} THEN ByProcess(c) ELSE {parked[d].org : d \in LastClaimed(c)}

LookUp(r) ==
  LET known == RepeatPayer(req[r].charge) IN
  /\ At(r, "lookup")
  /\ \/ known = {} /\ GoesTo(r, "park")
     \/ \E o \in known : req' = [req EXCEPT ![r].pc = "read", ![r].org = o]
  /\ UNCHANGED <<rows, now, crashes>>

Park(r) ==
  LET c == req[r].charge IN
  /\ At(r, "park")
  /\ parked' = [parked EXCEPT ![c] = IF @.there THEN @ ELSE [there |-> TRUE, at |-> req[r].at,
                                                           org |-> NULL]]
  /\ GoesToMark(r)
  /\ UNCHANGED <<plan, sub, payments, event, now, crashes>>

Mark(r) ==
  /\ At(r, "mark")
  /\ event' = [event EXCEPT ![req[r].charge] = "processed"]
  /\ Done(r)
  /\ UNCHANGED <<plan, sub, payments, parked, now, crashes>>

-------------------------------------------------------------------------------
(* Claims *)

\* A parked charge nobody has claimed.
Open(c) == parked[c].there /\ parked[c].org = NULL

Claim(r, o, c) ==
  /\ At(r, "idle")
  /\ req' = [req EXCEPT ![r] = [Idle EXCEPT !.pc = "claim", !.charge = c, !.org = o]]
  /\ UNCHANGED <<rows, now, crashes>>

\* A user of o claims as payer p: the latest open charge of p.
ClaimUnclaimed(r, o, p) ==
  \E c \in Charges :
    /\ <<o, p>> \in Claims
    /\ PayerOf[c] = p /\ Open(c)
    /\ \A d \in Charges : PayerOf[d] = p /\ Open(d) => parked[d].at <= parked[c].at
    /\ Claim(r, o, c)

\* The super admin hands one parked charge to an organization.
ClaimById(r, o, c) == <<o, c>> \in Handed /\ parked[c].there /\ Claim(r, o, c)

\* The conditional update both claims go by: only one of them finds claimedAt null.
WinClaim(r) ==
  LET c == req[r].charge IN
  /\ At(r, "claim")
  /\ IF Open(c)
     THEN /\ parked' = [parked EXCEPT ![c].org = req[r].org]
          /\ req' = [req EXCEPT ![r].pc = "read", ![r].at = parked[c].at]
     ELSE parked' = parked /\ Done(r)
  /\ UNCHANGED <<plan, sub, payments, event, now, crashes>>

-------------------------------------------------------------------------------
(* applyCharge *)

ReadCovered(r) ==
  /\ At(r, "read")
  /\ req' = [req EXCEPT ![r].pc = "commit", ![r].existing = sub[req[r].org]]
  /\ UNCHANGED <<rows, now, crashes>>

\* The charge falls in a period of the same plan that it has paid for already.
Covered(q) ==
  /\ q.existing.status = "ACTIVE" /\ q.existing.plan = PlanOf[q.charge]
  /\ q.existing.until # NULL /\ q.existing.until > q.at

ChargedLonger(q) ==
  [q.existing EXCEPT !.status = "ACTIVE", !.plan = PlanOf[q.charge],
     !.until = (IF Covered(q) THEN q.existing.until ELSE q.at) + MonthsOf[q.charge]]

\* The subscription a charge leaves: a renewal keeps the period it falls in.
Charged(q) ==
  LET process == IF q.webhook THEN ProcessOf[q.charge] ELSE NULL IN
  [status |-> "ACTIVE", plan |-> PlanOf[q.charge],
   until |-> IF Covered(q) THEN q.existing.until ELSE q.at + MonthsOf[q.charge],
   cancelAtPeriodEnd |-> FALSE,
   process |-> IF process # NULL THEN process ELSE q.existing.process]

FiledNowhere(c) == FALSE

\* growTransactionId is unique: a charge filed already rolls everything back.
Filed(c) == \E p \in payments : p.charge = c

Commit(r) ==
  LET q == req[r] IN
  /\ At(r, "commit") /\ ~Filed(q.charge)
  /\ sub' = [sub EXCEPT ![q.org] = Charged(q)]
  /\ payments' = payments \cup {[charge |-> q.charge, org |-> q.org, at |-> q.at]}
  /\ plan' = [plan EXCEPT ![q.org] = PlanOf[q.charge]]
  /\ IF q.webhook THEN GoesToMark(r) ELSE Done(r)
  /\ UNCHANGED <<event, parked, now, crashes>>

RollBack(r) ==
  /\ At(r, "commit") /\ Filed(req[r].charge)
  /\ Done(r)
  /\ UNCHANGED <<rows, now, crashes>>

-------------------------------------------------------------------------------
(* The admin, the tenant and the plan check *)

Comped(o, p) == [status |-> "ACTIVE", plan |-> p, until |-> NULL,
                 cancelAtPeriodEnd |-> FALSE, process |-> sub[o].process]

SetPlanOnly(o, p) ==
  /\ <<o, p>> \in Manual
  /\ plan' = [plan EXCEPT ![o] = p]
  /\ UNCHANGED <<sub, payments, event, parked, now, req, crashes>>

\* The super admin activates or ends a plan: no money, no end.
SetPlanManually(o, p) ==
  /\ <<o, p>> \in Manual
  /\ plan' = [plan EXCEPT ![o] = p]
  /\ sub' = IF p # FREE
            THEN [sub EXCEPT ![o] = Comped(o, p)]
            ELSE IF sub[o].status = "none" THEN sub
            ELSE [sub EXCEPT ![o].status = "CANCELED", ![o].cancelAtPeriodEnd = FALSE]
  /\ UNCHANGED <<payments, event, parked, now, req, crashes>>

EffectivePlan(o) ==
  IF sub[o].status = "ACTIVE" /\ ~(sub[o].until # NULL /\ sub[o].until < now)
  THEN plan[o] ELSE FREE

\* effectivePlanForOrg finds the plan lapsed; it writes FREE in a later call.
FindLapsed(r, o) ==
  /\ At(r, "idle") /\ plan[o] # FREE /\ EffectivePlan(o) = FREE
  /\ req' = [req EXCEPT ![r] = [Idle EXCEPT !.pc = "heal", !.org = o]]
  /\ UNCHANGED <<rows, now, crashes>>

Heal(r) ==
  /\ At(r, "heal")
  /\ plan' = [plan EXCEPT ![req[r].org] = FREE]
  /\ Done(r)
  /\ UNCHANGED <<sub, payments, event, parked, now, crashes>>

\* checkoutAction: the tenant switches to FREE.
Checkout(r, o) ==
  /\ At(r, "idle") /\ o \in Leavers
  /\ plan' = [plan EXCEPT ![o] = FREE]
  /\ req' = [req EXCEPT ![r] = [Idle EXCEPT !.pc = "cancel", !.org = o]]
  /\ UNCHANGED <<sub, payments, event, parked, now, crashes>>

Cancel(r) ==
  LET o == req[r].org IN
  /\ At(r, "cancel")
  /\ sub' = IF sub[o].status = "none" THEN sub ELSE [sub EXCEPT ![o].cancelAtPeriodEnd = TRUE]
  /\ Done(r)
  /\ UNCHANGED <<plan, payments, event, parked, now, crashes>>

-------------------------------------------------------------------------------
(* The environment *)

MonthsPass ==
  /\ \E n \in Leaps : now + n <= MaxTime /\ now' = now + n
  /\ UNCHANGED <<rows, req, crashes>>

\* The web process dies, or the database call fails: the request ends there.
Crash(r) ==
  /\ ~At(r, "idle") /\ crashes < MaxCrashes
  /\ crashes' = crashes + 1 /\ Done(r)
  /\ UNCHANGED <<rows, now>>

Webhook(r) == \/ \E c \in Charges : Deliver(r, c)
              \/ Record(r) \/ LookUp(r) \/ Park(r) \/ Mark(r)

Claiming(r) == \/ \E o \in Orgs, c \in Charges : ClaimUnclaimed(r, o, PayerOf[c]) \/ ClaimById(r, o, c)
               \/ WinClaim(r)

Charging(r) == ReadCovered(r) \/ Commit(r) \/ RollBack(r)

Gating(r) == \/ \E o \in Orgs : FindLapsed(r, o) \/ Checkout(r, o)
             \/ Heal(r) \/ Cancel(r)

Next ==
  \/ \E r \in Requests : Webhook(r) \/ Claiming(r) \/ Charging(r) \/ Gating(r) \/ Crash(r)
  \/ \E o \in Orgs, p \in Plans \cup {FREE} : SetPlanManually(o, p)
  \/ MonthsPass

Spec == Init /\ [][Next]_vars

-------------------------------------------------------------------------------
(* Properties *)

\* Whatever plan the dashboard reads, an active subscription to that very plan
\* stands behind it; otherwise the next plan check takes it away again
\* (subscriptions.ts:139-144).
PlanIsBacked ==
  \A o \in Orgs : plan[o] # FREE => sub[o].status = "ACTIVE" /\ sub[o].plan = plan[o]

\* Dated access was paid for: the period ends the bought number of months after
\* a charge for that plan, filed for that organization, however charges, admin
\* changes and redeliveries interleave (subscriptions.ts:46-60).
PaidFor(o, s) ==
  s.status = "ACTIVE" /\ s.until # NULL =>
    \E p \in payments : /\ p.org = o /\ PlanOf[p.charge] = s.plan
                        /\ s.until = p.at + MonthsOf[p.charge]
AccessIsPaidFor == \A o \in Orgs : PaidFor(o, sub[o])

\* A delivery that will be turned away from now on has left its charge in the
\* books, filed or parked (subscriptions.ts:245-317).
ProcessedIsKept ==
  \A c \in Charges : event[c] = "processed" => Filed(c) \/ parked[c].there

\* One charge, one payment, however often it is delivered and claimed
\* (schema.prisma:219).
ChargedOnce == \A p, q \in payments : p.charge = q.charge => p = q

=============================================================================

-------------------------- MODULE SubscriptionsProofs --------------------------
(***************************************************************************)
(* Proofs about Subscriptions, for any number of organizations, charges    *)
(* and requests at once, and about the Catalogue, for any prices.          *)
(***************************************************************************)
EXTENDS Subscriptions, Catalogue, TLAPS

\* A request has the charge and the organization its next step works on.
Ready(q) ==
  /\ q.pc \in {"record", "lookup", "park", "mark", "claim", "read", "commit"} => q.charge \in Charges
  /\ q.pc \in {"claim", "read", "commit", "heal", "cancel"} => q.org \in Orgs

TypeInv == TypeOK /\ \A r \in Requests : Ready(req[r])

LEMMA IdleType == Idle \in Request /\ Ready(Idle)
BY DEF Idle, Request, Ready, Time

LEMMA NoProcess == NoSubscription.process \in {NULL} \cup {ProcessOf[c] : c \in Charges}
BY DEF NoSubscription

\* What applyCharge writes is a subscription.
LEMMA ChargedType ==
  ASSUME NEW q \in Request, q.charge \in Charges
  PROVE  Charged(q) \in Subscription
<1> DEFINE u == IF Covered(q) THEN q.existing.until ELSE q.at + MonthsOf[q.charge]
           p == IF q.webhook THEN ProcessOf[q.charge] ELSE NULL
           pr == IF p # NULL THEN p ELSE q.existing.process
<1>1. q.existing \in Subscription \cup {NoSubscription} /\ q.at \in Nat
  BY DEF Request, Time
<1>2. ASSUME Covered(q) PROVE u \in Time \cup {NULL}
  <2>1. q.existing \in Subscription
    BY <1>1, <1>2 DEF Covered, NoSubscription
  <2> QED BY <1>2, <2>1 DEF Subscription
<1>3. ASSUME ~Covered(q) PROVE u \in Time \cup {NULL}
  <2>1. MonthsOf[q.charge] \in Nat
    BY BillingAssumption DEF BillingAssumption
  <2> QED BY <1>1, <1>3, <2>1 DEF Time
<1>4. u \in Time \cup {NULL}
  BY <1>2, <1>3
<1>5. q.existing.process \in {NULL} \cup {ProcessOf[c] : c \in Charges}
  BY <1>1, NoProcess DEF Subscription
<1>6. pr \in {NULL} \cup {ProcessOf[c] : c \in Charges}
  BY <1>5
<1>7. PlanOf[q.charge] \in Plans
  BY BillingAssumption DEF BillingAssumption
<1>8. Charged(q) = [status |-> "ACTIVE", plan |-> PlanOf[q.charge], until |-> u,
                    cancelAtPeriodEnd |-> FALSE, process |-> pr]
  BY DEF Charged
<1> HIDE DEF u, pr, p
<1> QED BY <1>4, <1>6, <1>7, <1>8 DEF Subscription

\* What holds of a request's new record, when nothing else about it changes.
LEMMA RequestReplaced ==
  ASSUME TypeInv, NEW r \in Requests, NEW q \in Request, Ready(q),
         req' = [req EXCEPT ![r] = q]
  PROVE  req' \in [Requests -> Request] /\ \A s \in Requests : Ready(req'[s])
<1>1. req \in [Requests -> Request]
  BY DEF TypeInv, TypeOK
<1>2. \A s \in Requests : Ready(req[s])
  BY DEF TypeInv
<1>3. \A s \in Requests : req'[s] = IF s = r THEN q ELSE req[s]
  BY <1>1
<1> QED BY <1>1, <1>2, <1>3

\* The actions that only move a request on.
LEMMA RequestSteps ==
  ASSUME TypeInv, NEW r \in Requests,
         \/ \E c \in Charges : Deliver(r, c)
         \/ LookUp(r)
         \/ \E o \in Orgs, c \in Charges : ClaimUnclaimed(r, o, PayerOf[c]) \/ ClaimById(r, o, c)
         \/ ReadCovered(r) \/ RollBack(r) \/ Crash(r)
         \/ \E o \in Orgs : FindLapsed(r, o)
  PROVE  TypeInv' /\ UNCHANGED rows
<1> DEFINE q == req[r]
<1>0. q \in Request /\ Ready(q) /\ req \in [Requests -> Request]
  BY DEF TypeInv, TypeOK
<1>1. SUFFICES UNCHANGED rows /\ now' = now /\ crashes' \in Nat
               /\ req' \in [Requests -> Request] /\ \A s \in Requests : Ready(req'[s])
  BY DEF TypeInv, TypeOK, rows
<1>2. CASE \E c \in Charges : Deliver(r, c)
  <2> PICK c \in Charges : Deliver(r, c) BY <1>2
  <2> DEFINE n == [Idle EXCEPT !.pc = "record", !.webhook = TRUE, !.charge = c]
  <2>1. n \in Request /\ Ready(n)
    BY IdleType DEF Idle, Request, Ready
  <2>2. req' = [req EXCEPT ![r] = n] /\ UNCHANGED <<rows, now, crashes>>
    BY DEF Deliver
  <2> HIDE DEF n
  <2> QED BY <2>1, <2>2, RequestReplaced DEF TypeInv, TypeOK
<1>3. CASE LookUp(r)
  <2>1. q.charge \in Charges
    BY <1>0, <1>3 DEF LookUp, At, Ready
  <2>2. UNCHANGED <<rows, now, crashes>>
    BY <1>3 DEF LookUp
  <2>3. CASE GoesTo(r, "park")
    <3> DEFINE n == [q EXCEPT !.pc = "park"]
    <3>1. n \in Request /\ Ready(n)
      BY <1>0, <2>1 DEF Request, Ready
    <3>2. req' = [req EXCEPT ![r] = n]
      BY <2>3, <1>0 DEF GoesTo
    <3> HIDE DEF n
    <3> QED BY <3>1, <3>2, <2>2, RequestReplaced DEF TypeInv, TypeOK
  <2>4. CASE \E o \in RepeatPayer(q.charge) : req' = [req EXCEPT ![r].pc = "read", ![r].org = o]
    <3> PICK o \in RepeatPayer(q.charge) : req' = [req EXCEPT ![r].pc = "read", ![r].org = o]
      BY <2>4
    <3>0. o \in Orgs
      BY DEF RepeatPayer, ByProcess, LastClaimed, Prior, TypeInv, TypeOK, Parked
    <3> DEFINE n == [q EXCEPT !.pc = "read", !.org = o]
    <3>1. n \in Request /\ Ready(n)
      BY <1>0, <2>1, <3>0 DEF Request, Ready
    <3>2. req' = [req EXCEPT ![r] = n]
      BY <1>0
    <3> HIDE DEF n
    <3> QED BY <3>1, <3>2, <2>2, RequestReplaced DEF TypeInv, TypeOK
  <2> QED BY <1>3, <2>3, <2>4 DEF LookUp
<1>4. CASE \E o \in Orgs, c \in Charges : ClaimUnclaimed(r, o, PayerOf[c]) \/ ClaimById(r, o, c)
  <2>1. PICK o \in Orgs, c \in Charges : Claim(r, o, c)
    BY <1>4 DEF ClaimUnclaimed, ClaimById
  <2> DEFINE n == [Idle EXCEPT !.pc = "claim", !.charge = c, !.org = o]
  <2>2. n \in Request /\ Ready(n)
    BY IdleType DEF Idle, Request, Ready
  <2>3. req' = [req EXCEPT ![r] = n] /\ UNCHANGED <<rows, now, crashes>>
    BY <2>1 DEF Claim
  <2> HIDE DEF n
  <2> QED BY <2>2, <2>3, RequestReplaced DEF TypeInv, TypeOK
<1>5. CASE ReadCovered(r)
  <2>1. q.charge \in Charges /\ q.org \in Orgs
    BY <1>0, <1>5 DEF ReadCovered, At, Ready
  <2> DEFINE n == [q EXCEPT !.pc = "commit", !.existing = sub[q.org]]
  <2>2. n \in Request /\ Ready(n)
    BY <1>0, <2>1 DEF Request, Ready, TypeInv, TypeOK
  <2>3. req' = [req EXCEPT ![r] = n] /\ UNCHANGED <<rows, now, crashes>>
    BY <1>5, <1>0 DEF ReadCovered
  <2> HIDE DEF n
  <2> QED BY <2>2, <2>3, RequestReplaced DEF TypeInv, TypeOK
<1>6. CASE RollBack(r) \/ Crash(r)
  <2>1. req' = [req EXCEPT ![r] = Idle] /\ UNCHANGED <<rows, now>> /\ crashes' \in Nat
    BY <1>6 DEF RollBack, Crash, Done, TypeInv, TypeOK
  <2> QED BY <2>1, IdleType, RequestReplaced
<1>7. CASE \E o \in Orgs : FindLapsed(r, o)
  <2> PICK o \in Orgs : FindLapsed(r, o) BY <1>7
  <2> DEFINE n == [Idle EXCEPT !.pc = "heal", !.org = o]
  <2>1. n \in Request /\ Ready(n)
    BY IdleType DEF Idle, Request, Ready
  <2>2. req' = [req EXCEPT ![r] = n] /\ UNCHANGED <<rows, now, crashes>>
    BY DEF FindLapsed
  <2> HIDE DEF n
  <2> QED BY <2>1, <2>2, RequestReplaced DEF TypeInv, TypeOK
<1> QED BY <1>2, <1>3, <1>4, <1>5, <1>6, <1>7

\* The actions that write a row.
LEMMA WebhookWrites ==
  ASSUME TypeInv, NEW r \in Requests, Record(r) \/ Park(r) \/ Mark(r)
  PROVE  TypeInv'
<1> DEFINE q == req[r]
<1>0. /\ q \in Request /\ Ready(q) /\ req \in [Requests -> Request]
      /\ event \in [Charges -> {"none", "received", "processed"}]
      /\ parked \in [Charges -> Parked] /\ now \in Time
  BY DEF TypeInv, TypeOK
<1>1. q.charge \in Charges
  BY <1>0 DEF Record, Park, Mark, At, Ready
<1>2. q.at \in Time
  BY <1>0 DEF Request
<1> DEFINE m == [Idle EXCEPT !.pc = "mark", !.webhook = TRUE, !.charge = q.charge]
           l == [q EXCEPT !.pc = "lookup", !.at = now]
<1>3. m \in Request /\ Ready(m)
  BY <1>1, IdleType DEF Idle, Request, Ready
<1>4. l \in Request /\ Ready(l)
  BY <1>0, <1>1 DEF Request, Ready
<1>5. CASE Record(r)
  <2>1. event' \in [Charges -> {"none", "received", "processed"}]
    BY <1>0, <1>5 DEF Record
  <2>2. \/ req' = [req EXCEPT ![r] = Idle]
        \/ req' = [req EXCEPT ![r] = l]
    BY <1>0, <1>5 DEF Record, Done
  <2> HIDE DEF l
  <2>3. req' \in [Requests -> Request] /\ \A s \in Requests : Ready(req'[s])
    BY <2>2, <1>4, IdleType, RequestReplaced
  <2> QED BY <1>5, <2>1, <2>3 DEF Record, TypeInv, TypeOK
<1>6. CASE Park(r)
  <2>1. parked' \in [Charges -> Parked]
    BY <1>0, <1>1, <1>2, <1>6 DEF Park, Parked
  <2>2. req' = [req EXCEPT ![r] = m]
    BY <1>6 DEF Park, GoesToMark
  <2> HIDE DEF m
  <2>3. req' \in [Requests -> Request] /\ \A s \in Requests : Ready(req'[s])
    BY <2>2, <1>3, RequestReplaced
  <2> QED BY <1>6, <2>1, <2>3 DEF Park, TypeInv, TypeOK
<1>7. CASE Mark(r)
  <2>1. event' \in [Charges -> {"none", "received", "processed"}]
    BY <1>0, <1>7 DEF Mark
  <2>2. req' \in [Requests -> Request] /\ \A s \in Requests : Ready(req'[s])
    BY <1>7, IdleType, RequestReplaced DEF Mark, Done
  <2> QED BY <1>7, <2>1, <2>2 DEF Mark, TypeInv, TypeOK
<1> QED BY <1>5, <1>6, <1>7

LEMMA ChargeWrites ==
  ASSUME TypeInv, NEW r \in Requests, WinClaim(r) \/ Commit(r)
  PROVE  TypeInv'
<1> DEFINE q == req[r]
<1>0. /\ q \in Request /\ Ready(q) /\ req \in [Requests -> Request]
      /\ sub \in [Orgs -> Subscription \cup {NoSubscription}]
      /\ plan \in [Orgs -> Plans \cup {FREE}] /\ payments \subseteq Payment
      /\ parked \in [Charges -> Parked]
  BY DEF TypeInv, TypeOK
<1>1. q.charge \in Charges /\ q.org \in Orgs
  BY <1>0 DEF WinClaim, Commit, At, Ready
<1>2. q.at \in Time
  BY <1>0 DEF Request
<1>3. CASE WinClaim(r)
  <2> DEFINE n == [q EXCEPT !.pc = "read", !.at = parked[q.charge].at]
  <2>1. n \in Request /\ Ready(n)
    BY <1>0, <1>1 DEF Request, Ready, Parked
  <2>2. parked' \in [Charges -> Parked]
    BY <1>0, <1>1, <1>3 DEF WinClaim, Parked
  <2>3. req' = [req EXCEPT ![r] = n] \/ req' = [req EXCEPT ![r] = Idle]
    BY <1>0, <1>3 DEF WinClaim, Done
  <2> HIDE DEF n
  <2>4. req' \in [Requests -> Request] /\ \A s \in Requests : Ready(req'[s])
    BY <2>1, <2>3, IdleType, RequestReplaced
  <2> QED BY <1>3, <2>2, <2>4 DEF WinClaim, TypeInv, TypeOK
<1>4. CASE Commit(r)
  <2> DEFINE m == [Idle EXCEPT !.pc = "mark", !.webhook = TRUE, !.charge = q.charge]
  <2>1. m \in Request /\ Ready(m)
    BY <1>1, IdleType DEF Idle, Request, Ready
  <2>2. Charged(q) \in Subscription
    BY <1>0, <1>1, ChargedType
  <2>3. sub' \in [Orgs -> Subscription \cup {NoSubscription}]
    BY <1>0, <2>2, <1>4 DEF Commit
  <2>4. [charge |-> q.charge, org |-> q.org, at |-> q.at] \in Payment
    BY <1>1, <1>2 DEF Payment
  <2>5. payments' \subseteq Payment
    BY <1>0, <2>4, <1>4 DEF Commit
  <2>6. plan' \in [Orgs -> Plans \cup {FREE}]
    BY <1>0, <1>1, <1>4, BillingAssumption DEF Commit, BillingAssumption
  <2>7. req' = [req EXCEPT ![r] = m] \/ req' = [req EXCEPT ![r] = Idle]
    BY <1>4 DEF Commit, GoesToMark, Done
  <2> HIDE DEF m
  <2>8. req' \in [Requests -> Request] /\ \A s \in Requests : Ready(req'[s])
    BY <2>1, <2>7, IdleType, RequestReplaced
  <2> QED BY <1>4, <2>3, <2>5, <2>6, <2>8 DEF Commit, TypeInv, TypeOK
<1> QED BY <1>3, <1>4

LEMMA PlanWrites ==
  ASSUME TypeInv,
         \/ \E r \in Requests : Heal(r) \/ Cancel(r) \/ \E o \in Orgs : Checkout(r, o)
         \/ \E o \in Orgs, p \in Plans \cup {FREE} : SetPlanManually(o, p)
         \/ MonthsPass
  PROVE  TypeInv'
<1>0. /\ req \in [Requests -> Request] /\ \A s \in Requests : Ready(req[s])
      /\ sub \in [Orgs -> Subscription \cup {NoSubscription}]
      /\ plan \in [Orgs -> Plans \cup {FREE}]
  BY DEF TypeInv, TypeOK
<1>1. ASSUME NEW o \in Orgs, sub[o].status # "none" PROVE sub[o] \in Subscription
  BY <1>0, <1>1 DEF NoSubscription
<1>2. CASE \E r \in Requests : Heal(r) \/ Cancel(r)
  <2> PICK r \in Requests : Heal(r) \/ Cancel(r) BY <1>2
  <2>1. req[r].org \in Orgs
    BY <1>0 DEF Heal, Cancel, At, Ready
  <2>2. req' \in [Requests -> Request] /\ \A s \in Requests : Ready(req'[s])
    BY IdleType, RequestReplaced DEF Heal, Cancel, Done
  <2>3. plan' \in [Orgs -> Plans \cup {FREE}]
    BY <1>0 DEF Heal, Cancel
  <2>4. sub' \in [Orgs -> Subscription \cup {NoSubscription}]
    <3>1. CASE Cancel(r) /\ sub[req[r].org].status # "none"
      <4>0. \A q \in Subscription : [q EXCEPT !.cancelAtPeriodEnd = TRUE] \in Subscription
        BY DEF Subscription
      <4>1. [sub[req[r].org] EXCEPT !.cancelAtPeriodEnd = TRUE] \in Subscription
        BY <1>1, <2>1, <3>1, <4>0
      <4>2. sub' = [sub EXCEPT ![req[r].org] = [sub[req[r].org] EXCEPT !.cancelAtPeriodEnd = TRUE]]
        BY <1>0, <3>1 DEF Cancel
      <4> QED BY <1>0, <4>1, <4>2
    <3> QED BY <1>0, <3>1 DEF Heal, Cancel
  <2> QED BY <2>2, <2>3, <2>4 DEF Heal, Cancel, TypeInv, TypeOK
<1>3. CASE \E r \in Requests, o \in Orgs : Checkout(r, o)
  <2> PICK r \in Requests, o \in Orgs : Checkout(r, o) BY <1>3
  <2> DEFINE n == [Idle EXCEPT !.pc = "cancel", !.org = o]
  <2>1. n \in Request /\ Ready(n)
    BY IdleType DEF Idle, Request, Ready
  <2>2. req' = [req EXCEPT ![r] = n]
    BY DEF Checkout
  <2> HIDE DEF n
  <2>3. req' \in [Requests -> Request] /\ \A s \in Requests : Ready(req'[s])
    BY <2>1, <2>2, RequestReplaced
  <2>4. plan' \in [Orgs -> Plans \cup {FREE}]
    BY <1>0 DEF Checkout
  <2> QED BY <2>3, <2>4 DEF Checkout, TypeInv, TypeOK
<1>4. CASE \E o \in Orgs, p \in Plans \cup {FREE} : SetPlanManually(o, p)
  <2> PICK o \in Orgs, p \in Plans \cup {FREE} : SetPlanManually(o, p) BY <1>4
  <2>1. plan' \in [Orgs -> Plans \cup {FREE}]
    BY <1>0 DEF SetPlanManually
  <2>2. sub' \in [Orgs -> Subscription \cup {NoSubscription}]
    <3>1. CASE p # FREE
      <4>1. sub[o].process \in {NULL} \cup {ProcessOf[c] : c \in Charges}
        BY <1>0, NoProcess DEF Subscription
      <4>2. Comped(o, p) \in Subscription
        BY <3>1, <4>1 DEF Comped, Subscription
      <4> QED BY <1>0, <3>1, <4>2 DEF SetPlanManually
    <3>2. CASE p = FREE /\ sub[o].status # "none"
      <4> DEFINE s == [sub[o] EXCEPT !.status = "CANCELED", !.cancelAtPeriodEnd = FALSE]
      <4>1. s \in Subscription
        BY <1>1, <3>2 DEF Subscription
      <4>2. sub' = [sub EXCEPT ![o] = s]
        BY <1>0, <3>2 DEF SetPlanManually
      <4> HIDE DEF s
      <4> QED BY <1>0, <4>1, <4>2
    <3>3. CASE p = FREE /\ sub[o].status = "none"
      BY <1>0, <3>3 DEF SetPlanManually
    <3> QED BY <3>1, <3>2, <3>3
  <2> QED BY <2>1, <2>2 DEF SetPlanManually, TypeInv, TypeOK
<1>5. CASE MonthsPass
  BY <1>5, BillingAssumption DEF MonthsPass, rows, TypeInv, TypeOK, Time, BillingAssumption
<1> QED BY <1>2, <1>3, <1>4, <1>5

LEMMA InitTypes == Init => TypeInv
<1> SUFFICES ASSUME Init PROVE TypeInv
  OBVIOUS
<1>1. NotParked \in Parked
  BY DEF NotParked, Parked, Time
<1> QED BY <1>1, IdleType DEF Init, TypeInv, TypeOK, Time

LEMMA NextTypes == TypeInv /\ [Next]_vars => TypeInv'
<1> SUFFICES ASSUME TypeInv, [Next]_vars PROVE TypeInv'
  OBVIOUS
<1>1. CASE UNCHANGED vars
  BY <1>1 DEF vars, TypeInv, TypeOK
<1>2. CASE Next
  <2>1. ASSUME NEW r \in Requests, Webhook(r) PROVE TypeInv'
    BY <2>1, RequestSteps, WebhookWrites DEF Webhook
  <2>2. ASSUME NEW r \in Requests, Claiming(r) PROVE TypeInv'
    BY <2>2, RequestSteps, ChargeWrites DEF Claiming
  <2>3. ASSUME NEW r \in Requests, Charging(r) PROVE TypeInv'
    BY <2>3, RequestSteps, ChargeWrites DEF Charging
  <2>4. ASSUME NEW r \in Requests, Gating(r) PROVE TypeInv'
    BY <2>4, RequestSteps, PlanWrites DEF Gating
  <2>5. ASSUME NEW r \in Requests, Crash(r) PROVE TypeInv'
    BY <2>5, RequestSteps
  <2> QED BY <1>2, <2>1, <2>2, <2>3, <2>4, <2>5, PlanWrites DEF Next
<1> QED BY <1>1, <1>2

\* Rows and requests keep their types, and every request under way has what its
\* next step works on, whatever interleaves and wherever a request is cut off.
THEOREM TypeCorrect == Spec => []TypeOK
<1>1. Spec => []TypeInv
  BY InitTypes, NextTypes, PTL DEF Spec
<1>2. TypeInv => TypeOK
  BY DEF TypeInv
<1> QED BY <1>1, <1>2, PTL

-------------------------------------------------------------------------------
(* The books *)

Kept(c) == Filed(c) \/ parked[c].there

\* What the requests under way add to the invariants: the copy of a subscription
\* a transaction decides on was paid for, and a charge about to be marked
\* processed is in the books.
CopiesPaidFor ==
  \A r \in Requests : req[r].pc = "commit" => PaidFor(req[r].org, req[r].existing)
MarksKept == \A r \in Requests : req[r].pc = "mark" => Kept(req[r].charge)

BooksInv ==
  PlanIsBacked /\ AccessIsPaidFor /\ ProcessedIsKept /\ CopiesPaidFor /\ MarksKept

\* Nothing is ever taken out of the books.
BooksGrow ==
  /\ payments \subseteq payments'
  /\ \A c \in Charges : parked[c].there => parked'[c].there

LEMMA PaidForStays ==
  ASSUME BooksGrow, NEW o, NEW s, PaidFor(o, s)
  PROVE  PaidFor(o, s)'
BY DEF BooksGrow, PaidFor

LEMMA KeptStays ==
  ASSUME BooksGrow, NEW c \in Charges, Kept(c)
  PROVE  Kept(c)'
BY DEF BooksGrow, Kept, Filed

\* A request either was as it is, or its new step is neither of the two above.
NothingNew(r) ==
  \A s \in Requests : req'[s] = req[s] \/ (s = r /\ req'[s].pc \notin {"commit", "mark"})

LEMMA RequestsStay ==
  ASSUME TypeInv, BooksInv, BooksGrow, NEW r, NothingNew(r)
  PROVE  CopiesPaidFor' /\ MarksKept'
<1>1. ASSUME NEW s \in Requests, req'[s].pc = "commit"
      PROVE  PaidFor(req[s].org, req[s].existing)'
  <2>1. req'[s] = req[s]
    BY <1>1 DEF NothingNew
  <2>2. PaidFor(req[s].org, req[s].existing)
    BY <1>1, <2>1 DEF BooksInv, CopiesPaidFor
  <2> QED BY <2>1, <2>2 DEF BooksGrow, PaidFor
<1>2. ASSUME NEW s \in Requests, req'[s].pc = "mark"
      PROVE  Kept(req[s].charge)'
  <2>1. req'[s] = req[s]
    BY <1>2 DEF NothingNew
  <2>2. req[s].charge \in Charges /\ Kept(req[s].charge)
    BY <1>2, <2>1 DEF BooksInv, MarksKept, TypeInv, Ready
  <2> QED BY <2>1, <2>2 DEF BooksGrow, Kept, Filed
<1> QED BY <1>1, <1>2 DEF CopiesPaidFor, MarksKept

\* A request that ends, or goes on to anything but those steps.
LEMMA NothingNewIf ==
  ASSUME TypeInv, NEW r \in Requests, NEW q, req' = [req EXCEPT ![r] = q],
         q.pc \notin {"commit", "mark"}
  PROVE  NothingNew(r)
BY DEF NothingNew, TypeInv, TypeOK

LEMMA RowsUnchanged ==
  ASSUME BooksInv, UNCHANGED rows
  PROVE  /\ PlanIsBacked' /\ AccessIsPaidFor' /\ ProcessedIsKept' /\ BooksGrow
BY DEF BooksInv, rows, PlanIsBacked, AccessIsPaidFor, PaidFor, ProcessedIsKept, Filed, BooksGrow

LEMMA ReadingKeepsBooks ==
  ASSUME TypeInv, BooksInv, NEW r \in Requests,
         \/ \E c \in Charges : Deliver(r, c)
         \/ LookUp(r)
         \/ \E o \in Orgs, c \in Charges : ClaimUnclaimed(r, o, PayerOf[c]) \/ ClaimById(r, o, c)
         \/ RollBack(r) \/ Crash(r)
         \/ \E o \in Orgs : FindLapsed(r, o)
  PROVE  BooksInv'
<1>1. UNCHANGED rows
  BY DEF Deliver, LookUp, ClaimUnclaimed, ClaimById, Claim, RollBack, Crash, FindLapsed
<1>2. req \in [Requests -> Request] /\ req[r] \in Request
  BY DEF TypeInv, TypeOK
<1>3. \E q : req' = [req EXCEPT ![r] = q] /\ q.pc \notin {"commit", "mark"}
  <2>1. CASE LookUp(r)
    <3>1. CASE GoesTo(r, "park")
      <4> WITNESS [req[r] EXCEPT !.pc = "park"]
      <4> QED BY <1>2, <3>1 DEF GoesTo, Request
    <3>2. CASE \E o \in RepeatPayer(req[r].charge) :
                 req' = [req EXCEPT ![r].pc = "read", ![r].org = o]
      <4> PICK o \in RepeatPayer(req[r].charge) :
                 req' = [req EXCEPT ![r].pc = "read", ![r].org = o]
        BY <3>2
      <4> WITNESS [req[r] EXCEPT !.pc = "read", !.org = o]
      <4> QED BY <1>2 DEF Request
    <3> QED BY <2>1, <3>1, <3>2 DEF LookUp
  <2>2. CASE RollBack(r) \/ Crash(r)
    <3> WITNESS Idle
    <3> QED BY <2>2 DEF RollBack, Crash, Done, Idle
  <2>3. ASSUME NEW c \in Charges, Deliver(r, c)
        PROVE  \E q : req' = [req EXCEPT ![r] = q] /\ q.pc \notin {"commit", "mark"}
    <3> WITNESS [Idle EXCEPT !.pc = "record", !.webhook = TRUE, !.charge = c]
    <3> QED BY <2>3 DEF Deliver, Idle
  <2>4. ASSUME NEW o \in Orgs, NEW c \in Charges, Claim(r, o, c)
        PROVE  \E q : req' = [req EXCEPT ![r] = q] /\ q.pc \notin {"commit", "mark"}
    <3> WITNESS [Idle EXCEPT !.pc = "claim", !.charge = c, !.org = o]
    <3> QED BY <2>4 DEF Claim, Idle
  <2>5. ASSUME NEW o \in Orgs, FindLapsed(r, o)
        PROVE  \E q : req' = [req EXCEPT ![r] = q] /\ q.pc \notin {"commit", "mark"}
    <3> WITNESS [Idle EXCEPT !.pc = "heal", !.org = o]
    <3> QED BY <2>5 DEF FindLapsed, Idle
  <2> QED BY <2>1, <2>2, <2>3, <2>4, <2>5 DEF ClaimUnclaimed, ClaimById
<1>4. NothingNew(r)
  BY <1>3, NothingNewIf
<1> QED BY <1>1, <1>4, RowsUnchanged, RequestsStay DEF BooksInv

\* The steps that leave subscriptions, plans and payments alone.
LEMMA ReadCoveredKeepsBooks ==
  ASSUME TypeInv, BooksInv, NEW r \in Requests, ReadCovered(r)
  PROVE  BooksInv'
<1>1. UNCHANGED rows /\ req \in [Requests -> Request] /\ req[r].org \in Orgs
  BY DEF ReadCovered, At, TypeInv, TypeOK, Ready
<1>2. /\ req' = [req EXCEPT ![r] = [req[r] EXCEPT !.pc = "commit", !.existing = sub[req[r].org]]]
      /\ req'[r].pc = "commit" /\ req'[r].existing = sub[req[r].org] /\ req'[r].org = req[r].org
  BY <1>1 DEF ReadCovered, Request
<1>3. PlanIsBacked' /\ AccessIsPaidFor' /\ ProcessedIsKept' /\ BooksGrow
  BY <1>1, RowsUnchanged
<1>4. \A s \in Requests \ {r} : req'[s] = req[s]
  BY <1>1, <1>2
<1>5. PaidFor(req[r].org, req[r].existing)'
  BY <1>1, <1>2 DEF BooksInv, AccessIsPaidFor, PaidFor, rows
<1>6. CopiesPaidFor'
  BY <1>1, <1>4, <1>5 DEF BooksInv, CopiesPaidFor, PaidFor, rows
<1>7. MarksKept'
  BY <1>1, <1>2, <1>4 DEF BooksInv, MarksKept, Kept, Filed, rows
<1> QED BY <1>3, <1>6, <1>7 DEF BooksInv

LEMMA WebhookKeepsBooks ==
  ASSUME TypeInv, BooksInv, NEW r \in Requests, Record(r) \/ Park(r) \/ Mark(r) \/ WinClaim(r)
  PROVE  BooksInv'
<1>0. /\ req \in [Requests -> Request] /\ req[r] \in Request /\ req[r].charge \in Charges
      /\ event \in [Charges -> {"none", "received", "processed"}]
      /\ parked \in [Charges -> Parked]
  BY DEF Record, Park, Mark, WinClaim, At, TypeInv, TypeOK, Ready
<1>1. UNCHANGED <<plan, sub, payments>>
  BY DEF Record, Park, Mark, WinClaim
<1>2. PlanIsBacked' /\ AccessIsPaidFor'
  BY <1>1 DEF BooksInv, PlanIsBacked, AccessIsPaidFor, PaidFor
<1>3. BooksGrow
  BY <1>0 DEF Record, Park, Mark, WinClaim, BooksGrow, Parked
<1>4. CASE Record(r)
  <2>1. NothingNew(r)
    <3>1. CASE Done(r)
      BY <3>1, NothingNewIf DEF Done, Idle
    <3>2. CASE req' = [req EXCEPT ![r].pc = "lookup", ![r].at = now]
      <4> DEFINE q == [req[r] EXCEPT !.pc = "lookup", !.at = now]
      <4>1. q.pc \notin {"commit", "mark"} /\ req' = [req EXCEPT ![r] = q]
        BY <1>0, <3>2 DEF Request
      <4> QED BY <4>1, NothingNewIf
    <3> QED BY <1>4, <3>1, <3>2 DEF Record
  <2>2. ProcessedIsKept'
    BY <1>0, <1>1, <1>4 DEF Record, BooksInv, ProcessedIsKept, Filed
  <2> QED BY <1>2, <1>3, <2>1, <2>2, RequestsStay DEF BooksInv
<1>5. CASE Park(r)
  <2>1. req' = [req EXCEPT ![r] = [Idle EXCEPT !.pc = "mark", !.webhook = TRUE,
                                               !.charge = req[r].charge]]
    BY <1>5 DEF Park, GoesToMark
  <2>2. /\ \A s \in Requests \ {r} : req'[s] = req[s]
        /\ req'[r].pc = "mark" /\ req'[r].charge = req[r].charge
    BY <1>0, <2>1 DEF Idle
  <2>3. Kept(req[r].charge)'
    <3>1. parked'[req[r].charge].there
      BY <1>0, <1>5 DEF Park
    <3> QED BY <2>2, <3>1 DEF Kept
  <2>4. ProcessedIsKept'
    BY <1>1, <1>3, <1>5 DEF Park, BooksGrow, BooksInv, ProcessedIsKept, Filed
  <2>5. CopiesPaidFor'
    BY <1>1, <2>2 DEF BooksInv, CopiesPaidFor, PaidFor
  <2>6. MarksKept'
    <3> SUFFICES ASSUME NEW s \in Requests, req'[s].pc = "mark" PROVE Kept(req[s].charge)'
      BY DEF MarksKept
    <3>1. CASE s = r
      BY <2>3, <3>1
    <3>2. CASE s # r
      BY <1>1, <1>3, <2>2, <3>2 DEF BooksInv, MarksKept, Kept, Filed, BooksGrow, TypeInv, Ready
    <3> QED BY <3>1, <3>2
  <2> QED BY <1>2, <2>4, <2>5, <2>6 DEF BooksInv
<1>6. CASE Mark(r)
  <2>1. NothingNew(r)
    BY <1>6, NothingNewIf DEF Mark, Done, Idle
  <2>2. Kept(req[r].charge)
    BY <1>6 DEF Mark, At, BooksInv, MarksKept
  <2>3. ProcessedIsKept'
    BY <1>0, <1>1, <1>6, <2>2 DEF Mark, BooksInv, ProcessedIsKept, Kept, Filed
  <2> QED BY <1>2, <1>3, <2>1, <2>3, RequestsStay DEF BooksInv
<1>7. CASE WinClaim(r)
  <2> DEFINE q == [req[r] EXCEPT !.pc = "read", !.at = parked[req[r].charge].at]
  <2>1. NothingNew(r)
    <3>1. CASE req' = [req EXCEPT ![r] = q]
      <4>1. q.pc \notin {"commit", "mark"}
        BY <1>0 DEF Request
      <4> QED BY <3>1, <4>1, NothingNewIf
    <3>2. CASE Done(r)
      BY <3>2, NothingNewIf DEF Done, Idle
    <3> QED BY <1>0, <1>7, <3>1, <3>2 DEF WinClaim
  <2>2. ProcessedIsKept'
    BY <1>1, <1>3, <1>7 DEF WinClaim, BooksGrow, BooksInv, ProcessedIsKept, Filed
  <2> QED BY <1>2, <1>3, <2>1, <2>2, RequestsStay DEF BooksInv
<1> QED BY <1>4, <1>5, <1>6, <1>7

\* A charge is committed: it pays for the period it opens, and the period it
\* leaves alone was paid for when the transaction read it.
LEMMA CommitKeepsBooks ==
  ASSUME TypeInv, BooksInv, NEW r \in Requests, Commit(r)
  PROVE  BooksInv'
<1> PICK q \in Request : q = req[r]
  BY DEF TypeInv, TypeOK
<1> DEFINE p == [charge |-> q.charge, org |-> q.org, at |-> q.at]
<1>0. /\ req \in [Requests -> Request] /\ q.charge \in Charges /\ q.org \in Orgs
      /\ sub \in [Orgs -> Subscription \cup {NoSubscription}]
      /\ plan \in [Orgs -> Plans \cup {FREE}] /\ PaidFor(q.org, q.existing)
  BY DEF Commit, At, TypeInv, TypeOK, Ready, BooksInv, CopiesPaidFor
<1>1. /\ payments' = payments \cup {p} /\ sub' = [sub EXCEPT ![q.org] = Charged(q)]
      /\ plan' = [plan EXCEPT ![q.org] = PlanOf[q.charge]] /\ UNCHANGED <<event, parked>>
  BY DEF Commit
<1>2. BooksGrow /\ p \in payments' /\ p.org = q.org /\ p.charge = q.charge /\ p.at = q.at
  BY <1>1 DEF BooksGrow
<1> HIDE DEF p
<1>3. /\ Charged(q).status = "ACTIVE" /\ Charged(q).plan = PlanOf[q.charge]
      /\ Charged(q).until = IF Covered(q) THEN q.existing.until ELSE q.at + MonthsOf[q.charge]
  BY DEF Charged
<1>4. PlanIsBacked'
  BY <1>0, <1>1, <1>3 DEF BooksInv, PlanIsBacked
<1>5. PaidFor(q.org, Charged(q))'
  <2>1. CASE Covered(q)
    <3>1. PICK pay \in payments : /\ pay.org = q.org /\ PlanOf[pay.charge] = q.existing.plan
                                  /\ q.existing.until = pay.at + MonthsOf[pay.charge]
      BY <1>0, <2>1 DEF Covered, PaidFor
    <3>2. pay \in payments'
      BY <1>1
    <3>3. /\ PlanOf[pay.charge] = Charged(q).plan
          /\ Charged(q).until = pay.at + MonthsOf[pay.charge]
      BY <1>3, <2>1, <3>1 DEF Covered
    <3> QED BY <3>1, <3>2, <3>3 DEF PaidFor
  <2>2. CASE ~Covered(q)
    BY <1>2, <1>3, <2>2 DEF PaidFor
  <2> QED BY <2>1, <2>2
<1>6. AccessIsPaidFor'
  <2> SUFFICES ASSUME NEW o \in Orgs PROVE PaidFor(o, sub[o])'
    BY DEF AccessIsPaidFor
  <2>1. CASE o = q.org
    BY <1>0, <1>1, <1>5, <2>1 DEF PaidFor
  <2>2. CASE o # q.org
    <3>1. sub'[o] = sub[o] /\ PaidFor(o, sub[o])
      BY <1>0, <1>1, <2>2 DEF BooksInv, AccessIsPaidFor
    <3> QED BY <1>2, <3>1 DEF PaidFor, BooksGrow
  <2> QED BY <2>1, <2>2
<1>7. ProcessedIsKept'
  BY <1>1 DEF BooksInv, ProcessedIsKept, Filed
<1>8. Kept(q.charge)'
  BY <1>2 DEF Kept, Filed
<1> DEFINE m == [Idle EXCEPT !.pc = "mark", !.webhook = TRUE, !.charge = q.charge]
<1>9. /\ req' = [req EXCEPT ![r] = Idle] \/ req' = [req EXCEPT ![r] = m]
      /\ Idle.pc = "idle" /\ m.pc = "mark" /\ m.charge = q.charge
  BY DEF Commit, Done, GoesToMark, Idle
<1> HIDE DEF m
<1>10. /\ \A s \in Requests \ {r} : req'[s] = req[s]
       /\ req'[r].pc # "commit" /\ (req'[r].pc = "mark" => req'[r].charge = q.charge)
  BY <1>0, <1>9
<1>11. CopiesPaidFor'
  BY <1>2, <1>10 DEF BooksInv, CopiesPaidFor, PaidFor, BooksGrow
<1>12. MarksKept'
  <2> SUFFICES ASSUME NEW s \in Requests, req'[s].pc = "mark" PROVE Kept(req[s].charge)'
    BY DEF MarksKept
  <2>1. CASE s = r
    <3>1. req'[s].charge = q.charge
      BY <1>10, <2>1, <1>8
    <3> QED BY <1>8, <3>1 DEF Kept, Filed
  <2>2. CASE s # r
    BY <1>2, <1>10, <2>2 DEF BooksInv, MarksKept, Kept, Filed, BooksGrow, TypeInv, Ready
  <2> QED BY <2>1, <2>2
<1> QED BY <1>4, <1>6, <1>7, <1>11, <1>12 DEF BooksInv

LEMMA GatingKeepsBooks ==
  ASSUME TypeInv, BooksInv,
         \/ \E r \in Requests : Heal(r) \/ Cancel(r) \/ \E o \in Orgs : Checkout(r, o)
         \/ \E o \in Orgs, p \in Plans \cup {FREE} : SetPlanManually(o, p)
         \/ MonthsPass
  PROVE  BooksInv'
<1>0. /\ req \in [Requests -> Request]
      /\ sub \in [Orgs -> Subscription \cup {NoSubscription}]
      /\ plan \in [Orgs -> Plans \cup {FREE}]
  BY DEF TypeInv, TypeOK
<1>1. UNCHANGED <<payments, event, parked>>
  BY DEF Heal, Cancel, Checkout, SetPlanManually, MonthsPass, rows
<1>2. BooksGrow /\ ProcessedIsKept'
  BY <1>1 DEF BooksGrow, BooksInv, ProcessedIsKept, Filed
<1>3. \E r : NothingNew(r)
  <2>1. ASSUME NEW r \in Requests, Heal(r) \/ Cancel(r) PROVE NothingNew(r)
    BY <2>1, NothingNewIf DEF Heal, Cancel, Done, Idle
  <2>2. ASSUME NEW r \in Requests, NEW o \in Orgs, Checkout(r, o) PROVE NothingNew(r)
    <3> DEFINE q == [Idle EXCEPT !.pc = "cancel", !.org = o]
    <3>1. q.pc \notin {"commit", "mark"} /\ req' = [req EXCEPT ![r] = q]
      BY <2>2 DEF Checkout, Idle
    <3> QED BY <3>1, NothingNewIf
  <2>3. CASE UNCHANGED req
    BY <2>3 DEF NothingNew
  <2> QED BY <2>1, <2>2, <2>3 DEF SetPlanManually, MonthsPass
<1>4. CopiesPaidFor' /\ MarksKept'
  BY <1>2, <1>3, RequestsStay
<1>5. \A o \in Orgs : \/ sub'[o] = sub[o]
                      \/ /\ sub'[o].status = sub[o].status /\ sub'[o].plan = sub[o].plan
                         /\ sub'[o].until = sub[o].until
                      \/ sub'[o].status = "CANCELED" \/ sub'[o].until = NULL
  <2>1. CASE UNCHANGED sub
    BY <2>1
  <2>2. ASSUME NEW r \in Requests, Cancel(r), ~UNCHANGED sub
        PROVE  \A o \in Orgs : /\ sub'[o].status = sub[o].status /\ sub'[o].plan = sub[o].plan
                               /\ sub'[o].until = sub[o].until
    <3>1. sub' = [sub EXCEPT ![req[r].org].cancelAtPeriodEnd = TRUE] /\ req[r].org \in Orgs
          /\ sub[req[r].org] \in Subscription
      BY <1>0, <2>2 DEF Cancel, At, TypeInv, Ready, NoSubscription
    <3> QED BY <1>0, <3>1 DEF Subscription
  <2>3. ASSUME NEW o \in Orgs, NEW p \in Plans \cup {FREE}, SetPlanManually(o, p), ~UNCHANGED sub
        PROVE  \A u \in Orgs : sub'[u] = sub[u] \/ sub'[u].status = "CANCELED" \/ sub'[u].until = NULL
    <3>1. CASE p # FREE
      BY <1>0, <2>3, <3>1 DEF SetPlanManually, Comped
    <3>2. CASE p = FREE
      <4>1. /\ sub' = [sub EXCEPT ![o].status = "CANCELED", ![o].cancelAtPeriodEnd = FALSE]
            /\ sub[o] \in Subscription
        BY <1>0, <2>3, <3>2 DEF SetPlanManually, NoSubscription
      <4> QED BY <1>0, <4>1 DEF Subscription
    <3> QED BY <3>1, <3>2
  <2> QED BY <2>1, <2>2, <2>3 DEF Heal, Checkout, MonthsPass, rows
<1>6. AccessIsPaidFor'
  <2> SUFFICES ASSUME NEW o \in Orgs PROVE PaidFor(o, sub[o])'
    BY DEF AccessIsPaidFor
  <2>1. PaidFor(o, sub[o])
    BY DEF BooksInv, AccessIsPaidFor
  <2> QED BY <1>1, <1>5, <2>1 DEF PaidFor
<1>7. PlanIsBacked'
  <2>1. ASSUME NEW r \in Requests, Heal(r) \/ \E o \in Orgs : Checkout(r, o)
        PROVE  PlanIsBacked'
    BY <1>0, <2>1 DEF Heal, Checkout, BooksInv, PlanIsBacked
  <2>2. ASSUME NEW r \in Requests, Cancel(r) PROVE PlanIsBacked'
    <3>1. plan' = plan
      BY <2>2 DEF Cancel
    <3>2. \A o \in Orgs : sub'[o].status = sub[o].status /\ sub'[o].plan = sub[o].plan
      <4>1. CASE UNCHANGED sub
        BY <4>1
      <4>2. CASE sub' = [sub EXCEPT ![req[r].org].cancelAtPeriodEnd = TRUE]
                 /\ sub[req[r].org].status # "none"
        <5>1. sub[req[r].org] \in Subscription /\ req[r].org \in Orgs
          BY <1>0, <2>2, <4>2 DEF Cancel, At, TypeInv, Ready, NoSubscription
        <5> QED BY <1>0, <4>2, <5>1 DEF Subscription
      <4> QED BY <2>2, <4>1, <4>2 DEF Cancel
    <3> QED BY <3>1, <3>2 DEF BooksInv, PlanIsBacked
  <2>3. ASSUME NEW o \in Orgs, NEW p \in Plans \cup {FREE}, SetPlanManually(o, p)
        PROVE  PlanIsBacked'
    <3>1. \A u \in Orgs \ {o} : sub'[u] = sub[u] /\ plan'[u] = plan[u]
      BY <1>0, <2>3 DEF SetPlanManually
    <3>2. plan'[o] = p
      BY <1>0, <2>3 DEF SetPlanManually
    <3>3. p # FREE => sub'[o].status = "ACTIVE" /\ sub'[o].plan = p
      BY <1>0, <2>3 DEF SetPlanManually, Comped
    <3> QED BY <3>1, <3>2, <3>3 DEF BooksInv, PlanIsBacked
  <2>4. CASE MonthsPass
    BY <2>4 DEF MonthsPass, rows, BooksInv, PlanIsBacked
  <2> QED BY <2>1, <2>2, <2>3, <2>4
<1> QED BY <1>2, <1>4, <1>6, <1>7 DEF BooksInv

LEMMA BooksInit == Init => BooksInv
BY DEF Init, BooksInv, PlanIsBacked, AccessIsPaidFor, PaidFor, ProcessedIsKept, CopiesPaidFor,
       MarksKept, NoSubscription, Idle

LEMMA BooksNext == TypeInv /\ BooksInv /\ [Next]_vars => BooksInv'
<1> SUFFICES ASSUME TypeInv, BooksInv, [Next]_vars PROVE BooksInv'
  OBVIOUS
<1>1. CASE UNCHANGED vars
  <2>1. UNCHANGED rows /\ \A r \in Requests : req'[r] = req[r]
    BY <1>1 DEF vars, rows
  <2>2. PlanIsBacked' /\ AccessIsPaidFor' /\ ProcessedIsKept' /\ BooksGrow
    BY <2>1, RowsUnchanged
  <2>3. CopiesPaidFor' /\ MarksKept'
    BY <2>1, <2>2, RequestsStay DEF NothingNew
  <2> QED BY <2>2, <2>3 DEF BooksInv
<1>2. CASE Next
  <2>1. ASSUME NEW r \in Requests, Webhook(r) PROVE BooksInv'
    BY <2>1, ReadingKeepsBooks, WebhookKeepsBooks DEF Webhook
  <2>2. ASSUME NEW r \in Requests, Claiming(r) PROVE BooksInv'
    BY <2>2, ReadingKeepsBooks, WebhookKeepsBooks DEF Claiming
  <2>3. ASSUME NEW r \in Requests, Charging(r) PROVE BooksInv'
    BY <2>3, ReadingKeepsBooks, ReadCoveredKeepsBooks, CommitKeepsBooks DEF Charging
  <2>4. ASSUME NEW r \in Requests, Gating(r) PROVE BooksInv'
    BY <2>4, ReadingKeepsBooks, GatingKeepsBooks DEF Gating
  <2>5. ASSUME NEW r \in Requests, Crash(r) PROVE BooksInv'
    BY <2>5, ReadingKeepsBooks
  <2> QED BY <1>2, <2>1, <2>2, <2>3, <2>4, <2>5, GatingKeepsBooks DEF Next
<1> QED BY <1>1, <1>2

LEMMA Books == Spec => []BooksInv
BY InitTypes, NextTypes, BooksInit, BooksNext, PTL DEF Spec

\* A plan the dashboard shows always has an active subscription to it behind it.
THEOREM PlansAreBacked == Spec => []PlanIsBacked
<1>1. BooksInv => PlanIsBacked
  BY DEF BooksInv
<1> QED BY <1>1, Books, PTL

\* Dated access was paid for by a charge filed for that organization, for any
\* number of charges, requests and admin changes at once.
THEOREM AccessWasPaidFor == Spec => []AccessIsPaidFor
<1>1. BooksInv => AccessIsPaidFor
  BY DEF BooksInv
<1> QED BY <1>1, Books, PTL

\* A charge whose deliveries are turned away is in the books.
THEOREM ProcessedChargesAreKept == Spec => []ProcessedIsKept
<1>1. BooksInv => ProcessedIsKept
  BY DEF BooksInv
<1> QED BY <1>1, Books, PTL

\* A charge is in the books once: a payment is added only while there is none of
\* its charge, however many requests have got as far as adding it.
THEOREM ChargesCountOnce == Spec => []ChargedOnce
<1>1. Init => ChargedOnce
  BY DEF Init, ChargedOnce
<1>2. ChargedOnce /\ [Next]_vars => ChargedOnce'
  <2> SUFFICES ASSUME ChargedOnce, [Next]_vars PROVE ChargedOnce'
    OBVIOUS
  <2>1. CASE UNCHANGED payments
    BY <2>1 DEF ChargedOnce
  <2>2. ASSUME NEW r \in Requests, Commit(r) PROVE ChargedOnce'
    BY <2>2 DEF Commit, ChargedOnce, Filed
  <2>3. ASSUME NEW r \in Requests, Webhook(r) PROVE UNCHANGED payments
    BY <2>3 DEF Webhook, Deliver, Record, LookUp, Park, Mark, rows
  <2>4. ASSUME NEW r \in Requests, Claiming(r) PROVE UNCHANGED payments
    BY <2>4 DEF Claiming, ClaimUnclaimed, ClaimById, Claim, WinClaim, rows
  <2>5. ASSUME NEW r \in Requests, ReadCovered(r) \/ RollBack(r) \/ Gating(r) \/ Crash(r) PROVE UNCHANGED payments
    BY <2>5 DEF ReadCovered, RollBack, Gating, FindLapsed, Checkout, Heal, Cancel, Crash, rows
  <2>6. ASSUME \/ \E o \in Orgs, p \in Plans \cup {FREE} : SetPlanManually(o, p)
               \/ MonthsPass
               \/ UNCHANGED vars
        PROVE  UNCHANGED payments
    BY <2>6 DEF SetPlanManually, MonthsPass, vars, rows
  <2> QED BY <2>1, <2>2, <2>3, <2>4, <2>5, <2>6 DEF Next, Charging
<1> QED BY <1>1, <1>2, PTL DEF Spec

-------------------------------------------------------------------------------
(* The catalogue: what an amount tells *)

\* The least of some numbers up to two.
LEMMA MinOfTwo ==
  ASSUME NEW S, S \subseteq 1..2, S # {}
  PROVE  Min(S) \in S /\ (1 \in S => Min(S) = 1)
<1>1. \A x \in S : x \in Int /\ (x = 1 \/ x = 2)
  OBVIOUS
<1>2. \E x \in S : \A y \in S : x =< y
  <2>1. CASE 1 \in S
    BY <1>1, <2>1
  <2>2. CASE 1 \notin S
    <3>1. \A x \in S : x = 2
      BY <1>1, <2>2
    <3>2. PICK x \in S : TRUE
      OBVIOUS
    <3>3. x \in Int /\ \A y \in S : y = x
      BY <1>1, <3>1
    <3> QED
      BY <3>3
  <2> QED
    BY <2>1, <2>2
<1>3. Min(S) \in S /\ \A y \in S : Min(S) =< y
  BY <1>2 DEF Min
<1>4. 1 \in S => Min(S) = 1
  <2> SUFFICES ASSUME 1 \in S PROVE Min(S) = 1
    OBVIOUS
  <2>1. Min(S) =< 1
    BY <1>3
  <2>2. Min(S) = 1 \/ Min(S) = 2
    BY <1>1, <1>3
  <2> QED
    BY <2>1, <2>2
<1> QED
  BY <1>3, <1>4

LEMMA MinOf ==
  ASSUME NEW a \in Int, NEW b \in Int
  PROVE  Min({a, b}) = IF a <= b THEN a ELSE b
<1>1. \E x \in {a, b} : \A y \in {a, b} : x =< y
  OBVIOUS
<1>2. Min({a, b}) \in {a, b} /\ \A y \in {a, b} : Min({a, b}) =< y
  BY <1>1 DEF Min
<1> QED
  BY <1>2

LEMMA MaxOf ==
  ASSUME NEW a \in Int, NEW b \in Int
  PROVE  Max({a, b}) = IF a >= b THEN a ELSE b
<1>1. \E x \in {a, b} : \A y \in {a, b} : x >= y
  OBVIOUS
<1>2. Max({a, b}) \in {a, b} /\ \A y \in {a, b} : Max({a, b}) >= y
  BY <1>1 DEF Max
<1> QED
  BY <1>2

\* What a tolerance of 1% or half a shekel is, without the larger of two numbers.
LEMMA WithinMeans ==
  ASSUME NEW charge \in Int, NEW num \in Int, NEW den \in Int
  PROVE  Within(charge, num, den) <=>
           LET off == charge * den - num
           IN  \/ 100 * off <= 5000 * den /\ -100 * off <= 5000 * den
               \/ 100 * off <= num /\ -100 * off <= num
<1> DEFINE off == charge * den - num
<1>1. off \in Int /\ 5000 * den \in Int
  OBVIOUS
<1>2. Within(charge, num, den) <=> 100 * Max({off, -off}) <= Max({5000 * den, num})
  BY DEF Within
<1>3. /\ Max({off, -off}) = IF off >= -off THEN off ELSE -off
      /\ Max({5000 * den, num}) = IF 5000 * den >= num THEN 5000 * den ELSE num
  BY <1>1, MaxOf
<1> DEFINE d == 5000 * den
<1>4. d \in Int
  BY <1>1
<1> HIDE DEF off, d
<1>5. 100 * (IF off >= -off THEN off ELSE -off) <= (IF d >= num THEN d ELSE num)
        <=> \/ 100 * off <= d /\ -100 * off <= d
            \/ 100 * off <= num /\ -100 * off <= num
  BY <1>1, <1>4
<1> QED
  BY <1>2, <1>3, <1>5 DEF d, off

\* Half an agora more or less comes from rounding the VAT.
LEMMA SumsAre ==
  ASSUME NEW p \in Nat \ {0}, NEW c \in Sums(p)
  PROVE  /\ c \in Nat \ {0}
         /\ \/ c = p
            \/ 100 * c <= 118 * p + 50 /\ 118 * p <= 100 * c + 49
            \/ 118 * c <= 100 * p + 59 /\ 100 * p <= 118 * c + 58
BY DEF Sums

\* A charge is recognised as the price it was made from ...
LEMMA OwnPrice ==
  ASSUME NEW p \in Nat \ {0}, NEW c \in Sums(p)
  PROVE  IsPrice(p, c)
<1>1. c \in Nat \ {0}
  BY SumsAre
<1>2. CASE c = p
  BY <1>1, <1>2, WithinMeans DEF IsPrice
<1>3. CASE 100 * c <= 118 * p + 50 /\ 118 * p <= 100 * c + 49
  <2>1. 118 * p \in Int
    OBVIOUS
  <2>2. Within(c, 118 * p, 100)
    BY <1>1, <1>3, <2>1, WithinMeans
  <2> QED
    BY <2>2 DEF IsPrice
<1>4. CASE 118 * c <= 100 * p + 59 /\ 100 * p <= 118 * c + 58
  <2>1. 100 * p \in Int
    OBVIOUS
  <2>2. Within(c, 100 * p, 118)
    BY <1>1, <1>4, <2>1, WithinMeans
  <2> QED
    BY <2>2 DEF IsPrice
<1> QED
  BY <1>2, <1>3, <1>4, SumsAre

\* ... and as no price that lies apart from it.
LEMMA OtherPrice ==
  ASSUME NEW p \in Nat \ {0}, NEW c \in Sums(p), NEW q \in Int, Apart(p, q)
  PROVE  ~IsPrice(q, c)
<1> SUFFICES ASSUME IsPrice(q, c) PROVE FALSE
  OBVIOUS
<1>1. /\ c \in Nat \ {0} /\ q > 0
      /\ \/ c = p
         \/ 100 * c <= 118 * p + 50 /\ 118 * p <= 100 * c + 49
         \/ 118 * c <= 100 * p + 59 /\ 100 * p <= 118 * c + 58
  BY SumsAre DEF IsPrice
<1>2. \/ 2 * p > 3 * q + 200
      \/ 2 * q > 3 * p + 200
  BY DEF Apart
<1>3. CASE Within(c, q, 1)
  <2>1. \/ 100 * (c * 1 - q) <= 5000 * 1 /\ -100 * (c * 1 - q) <= 5000 * 1
        \/ 100 * (c * 1 - q) <= q /\ -100 * (c * 1 - q) <= q
    BY <1>1, <1>3, WithinMeans
  <2> QED
    BY <1>1, <1>2, <2>1
<1>4. CASE Within(c, 118 * q, 100)
  <2>1. \/ 100 * (c * 100 - 118 * q) <= 5000 * 100 /\ -100 * (c * 100 - 118 * q) <= 5000 * 100
        \/ 100 * (c * 100 - 118 * q) <= 118 * q /\ -100 * (c * 100 - 118 * q) <= 118 * q
    BY <1>1, <1>4, WithinMeans
  <2> QED
    BY <1>1, <1>2, <2>1
<1>5. CASE Within(c, 100 * q, 118)
  <2>1. \/ 100 * (c * 118 - 100 * q) <= 5000 * 118 /\ -100 * (c * 118 - 100 * q) <= 5000 * 118
        \/ 100 * (c * 118 - 100 * q) <= 100 * q /\ -100 * (c * 118 - 100 * q) <= 100 * q
    BY <1>1, <1>5, WithinMeans
  <2> QED
    BY <1>1, <1>2, <2>1
<1> QED
  BY <1>3, <1>4, <1>5 DEF IsPrice


\* What Pick finds in a pair of keys, and in a key that may come second.
LEMMA PickOfPair ==
  ASSUME NEW a \in Int, NEW b \in Int
  PROVE  Pick(<<a, b>>) = IF a # Absent THEN a ELSE b
<1> DEFINE given == {i \in DOMAIN <<a, b>> : <<a, b>>[i] # Absent}
<1>1. /\ given \subseteq 1..2
      /\ 1 \in given <=> a # Absent
      /\ 2 \in given <=> b # Absent
  OBVIOUS
<1>2. Pick(<<a, b>>) = IF given = {} THEN Absent ELSE <<a, b>>[Min(given)]
  BY DEF Pick
<1> HIDE DEF given
<1>3. CASE a # Absent
  <2>1. given # {} /\ Min(given) = 1
    BY <1>1, <1>3, MinOfTwo
  <2> QED
    BY <1>2, <1>3, <2>1
<1>4. CASE a = Absent /\ b # Absent
  <2>1. given # {} /\ Min(given) \in given /\ Min(given) # 1
    BY <1>1, <1>4, MinOfTwo
  <2>2. \A i \in given : i = 1 \/ i = 2
    BY <1>1
  <2>3. Min(given) = 2
    BY <2>1, <2>2
  <2> QED
    BY <1>2, <1>4, <2>1, <2>3
<1>5. CASE a = Absent /\ b = Absent
  <2>1. given = {}
    BY <1>1, <1>5
  <2> QED
    BY <1>2, <1>5, <2>1
<1> QED
  BY <1>3, <1>4, <1>5

LEMMA PickOfSums ==
  ASSUME NEW k \in 0..1, NEW sum \in Int \ {Absent}
  PROVE  Pick([i \in 1..k |-> Absent] \o <<sum>>) = sum
<1>1. CASE k = 0
  <2> DEFINE values == [i \in 1..k |-> Absent] \o <<sum>>
             given == {i \in DOMAIN values : values[i] # Absent}
  <2>1. DOMAIN values = {1} /\ values[1] = sum
    BY <1>1
  <2>2. given = {1}
    BY <2>1
  <2>3. Pick(values) = IF given = {} THEN Absent ELSE values[Min(given)]
    BY DEF Pick
  <2> HIDE DEF given, values
  <2>4. Min(given) = 1
    BY <2>2, MinOfTwo
  <2> QED
    BY <2>1, <2>2, <2>3, <2>4 DEF values
<1>2. CASE k = 1
  <2> DEFINE values == [i \in 1..k |-> Absent] \o <<sum>>
             given == {i \in DOMAIN values : values[i] # Absent}
  <2>1. DOMAIN values = 1..2 /\ values[1] = Absent /\ values[2] = sum
    BY <1>2
  <2>2. given = {2}
    BY <2>1
  <2>3. Pick(values) = IF given = {} THEN Absent ELSE values[Min(given)]
    BY DEF Pick
  <2> HIDE DEF given, values
  <2>4. Min(given) = 2
    BY <2>2, MinOfTwo
  <2> QED
    BY <2>1, <2>2, <2>3, <2>4 DEF values
<1> QED
  BY <1>1, <1>2

-------------------------------------------------------------------------------
Sale == [plan: PaidPlan, price: Nat \ {0}, months: 1..12]

CatalogueInv ==
  /\ override \in [PaidPlan -> Int]
  /\ sale = NoSale \/ sale \in Sale
  /\ PlanPaidFor

\* What two keys of a delivery may hold: nonsense or the order's count, or
\* nothing, in the first; the count or nothing in the second.
IsCount(counts, a, b) ==
  /\ counts = <<a, b>>
  /\ a = Absent \/ a < 1 \/ a = sale.months
  /\ a = Absent => (b = Absent \/ b = sale.months)

\* The months a delivery of an order opens.
LEMMA MonthsRead ==
  ASSUME CatalogueInv, sale # NoSale, NEW counts \in Counts
  PROVE  GrowPayments(counts) = IF Pick(counts) = sale.months THEN sale.months ELSE 1
<1>1. sale.months \in 1..12
  BY DEF CatalogueInv, Sale
<1>2. \E a, b \in Int : IsCount(counts, a, b)
  <2>1. CASE counts = <<Absent, Absent>>
    BY <2>1 DEF Absent, IsCount
  <2>2. ASSUME NEW n \in Noise, counts = <<n, Absent>>
        PROVE  \E a, b \in Int : IsCount(counts, a, b)
    BY <2>2, CatalogueAssumption DEF CatalogueAssumption, Absent, IsCount
  <2>3. ASSUME NEW m \in Noise \cup {Absent}, counts = <<sale.months, m>>
        PROVE  \E a, b \in Int : IsCount(counts, a, b)
    BY <1>1, <2>3, CatalogueAssumption DEF CatalogueAssumption, Absent, IsCount
  <2>4. CASE counts = <<Absent, sale.months>>
    BY <1>1, <2>4 DEF Absent, IsCount
  <2>5. \/ counts = <<Absent, Absent>>
        \/ \E n \in Noise : counts = <<n, Absent>>
        \/ \E m \in Noise \cup {Absent} : counts = <<sale.months, m>>
        \/ counts = <<Absent, sale.months>>
    BY DEF Counts
  <2> QED
    BY <2>1, <2>2, <2>3, <2>4, <2>5
<1>3. PICK a \in Int, b \in Int : IsCount(counts, a, b)
  BY <1>2
<1>4. Pick(counts) = IF a # Absent THEN a ELSE b
  BY <1>3, PickOfPair DEF IsCount
<1>5. Pick(counts) \in Int /\ (Pick(counts) < 1 \/ Pick(counts) = sale.months)
  BY <1>1, <1>3, <1>4 DEF Absent, IsCount
<1>6. CASE Pick(counts) = sale.months
  <2>1. GrowPayments(counts) = Min({sale.months, 12})
    BY <1>1, <1>6 DEF GrowPayments, MAX_PAYMENTS
  <2>2. Min({sale.months, 12}) = sale.months
    BY <1>1, MinOf
  <2> QED
    BY <1>6, <2>1, <2>2
<1>7. CASE Pick(counts) < 1
  BY <1>1, <1>5, <1>7 DEF GrowPayments
<1> QED
  BY <1>5, <1>6, <1>7

\* A delivery that names the product opens it.
LEMMA PlanByName ==
  ASSUME NEW p \in PaidPlan, NEW charge
  PROVE  GrowPlan({p}, charge) = p
<1> DEFINE byName == {i \in DOMAIN PAID_PLANS : PAID_PLANS[i] \in {p}}
<1>1. /\ DOMAIN PAID_PLANS = 1..2
      /\ PAID_PLANS[1] = "STARTER" /\ PAID_PLANS[2] = "PRO"
  BY DEF PAID_PLANS
<1>2. byName \subseteq 1..2 /\ byName # {}
  BY <1>1 DEF PaidPlan
<1>3. Min(byName) \in byName
  BY <1>2, MinOfTwo
<1>4. GrowPlan({p}, charge) = PAID_PLANS[Min(byName)]
  BY <1>2 DEF GrowPlan
<1> QED
  BY <1>3, <1>4

\* The amount alone tells the plan, at its price and with the other's far off.
LEMMA PlanByAmount ==
  ASSUME CatalogueInv, NEW p \in PaidPlan, Price(p) \in Nat \ {0},
         NEW c \in Sums(Price(p)), Apart(Price("STARTER"), Price("PRO"))
  PROVE  GrowPlan({}, c) = p
<1> DEFINE byAmount == {i \in DOMAIN PAID_PLANS : c # Absent /\ IsPrice(Price(PAID_PLANS[i]), c)}
<1>1. /\ DOMAIN PAID_PLANS = 1..2
      /\ PAID_PLANS[1] = "STARTER" /\ PAID_PLANS[2] = "PRO"
  BY DEF PAID_PLANS
<1>2. c \in Nat \ {0} /\ c # Absent
  BY SumsAre DEF Absent
<1>3. IsPrice(Price(p), c)
  BY OwnPrice
<1>4. ASSUME NEW q \in PaidPlan, q # p PROVE ~IsPrice(Price(q), c)
  <2>1. Price(q) \in Int
    BY DEF CatalogueInv, Price, Defaults, PaidPlan, NoRow
  <2>2. Apart(Price(p), Price(q))
    BY <1>4 DEF Apart, PaidPlan
  <2> QED
    BY <2>1, <2>2, OtherPrice
<1>5. \A i \in 1..2 : i \in byAmount <=> PAID_PLANS[i] = p
  BY <1>1, <1>2, <1>3, <1>4 DEF PaidPlan
<1>6. byAmount \subseteq 1..2 /\ byAmount # {}
  BY <1>1, <1>5 DEF PaidPlan
<1>7. Min(byAmount) \in byAmount
  BY <1>6, MinOfTwo
<1>8. GrowPlan({}, c) = PAID_PLANS[Min(byAmount)]
  BY <1>6 DEF GrowPlan
<1> HIDE DEF byAmount
<1> QED
  BY <1>5, <1>6, <1>7, <1>8

LEMMA CatalogueNextKeeps == CatalogueInv /\ [CatalogueNext]_catalogueVars => CatalogueInv'
<1> SUFFICES ASSUME CatalogueInv, [CatalogueNext]_catalogueVars PROVE CatalogueInv'
  OBVIOUS
<1>1. ASSUME NEW p \in PaidPlan, NEW typed \in Typed, SavePlanConfig(p, typed)
      PROVE  CatalogueInv'
  <2>1. Saved(p, typed) \in Int
    BY CatalogueAssumption DEF Saved, CatalogueAssumption, Defaults, PaidPlan
  <2> QED
    BY <1>1, <2>1 DEF SavePlanConfig, CatalogueInv, PlanPaidFor, Unheard
<1>2. ASSUME NEW p \in PaidPlan, NEW price \in PagePrices, NEW n \in Orders, Buy(p, price, n)
      PROVE  CatalogueInv'
  BY <1>2, CatalogueAssumption
     DEF Buy, CatalogueInv, PlanPaidFor, Unheard, Sale, CatalogueAssumption
<1>3. ASSUME NEW says \in Says, NEW named \in {{}, {sale.plan}}, NEW counts \in Counts,
             NEW sum \in Sums(sale.price), NEW k \in 0..1,
             Read([status |-> says.status, statusCode |-> says.statusCode, named |-> named,
                   counts |-> counts, sums |-> [i \in 1..k |-> Absent] \o <<sum>>])
      PROVE  CatalogueInv'
  <2> DEFINE sums == [i \in 1..k |-> Absent] \o <<sum>>
             read == [there |-> TRUE, plan |-> GrowPlan(named, GrowChargeIls(sums)),
                      months |-> GrowPayments(counts), named |-> named # {},
                      counted |-> Pick(counts) = sale.months]
  <2>1. sale # NoSale /\ UNCHANGED <<override, sale>> /\ (heard' = read \/ heard' = heard)
    BY <1>3 DEF Read
  <2>2. CASE heard' = heard
    BY <2>1, <2>2 DEF CatalogueInv, PlanPaidFor, Price
  <2>3. CASE heard' = read
    <3>1. sale \in Sale /\ sale.plan \in PaidPlan /\ sale.price \in Nat \ {0}
      BY <2>1 DEF CatalogueInv, Sale
    <3>2. sum \in Nat \ {0}
      BY <3>1, SumsAre
    <3>3. GrowChargeIls(sums) = sum
      <4>1. sum \in Int \ {Absent}
        BY <3>2 DEF Absent
      <4>2. Pick(sums) = sum
        BY <4>1, PickOfSums
      <4> HIDE DEF sums
      <4> QED
        BY <3>2, <4>2 DEF GrowChargeIls
    <3>4. GrowPayments(counts) = IF Pick(counts) = sale.months THEN sale.months ELSE 1
      BY <2>1, MonthsRead
    <3>5. \/ GrowPlan(named, sum) = sale.plan
          \/ named = {} /\ (Price(sale.plan) # sale.price \/ ~Apart(Price("STARTER"), Price("PRO")))
      <4>1. CASE named = {sale.plan}
        BY <3>1, <4>1, PlanByName
      <4>2. CASE named = {} /\ Price(sale.plan) = sale.price /\ Apart(Price("STARTER"), Price("PRO"))
        BY <3>1, <4>2, PlanByAmount
      <4> QED
        BY <4>1, <4>2
    <3> HIDE DEF sums
    <3>6. /\ heard'.there /\ heard'.plan = GrowPlan(named, sum)
          /\ heard'.months = GrowPayments(counts) /\ heard'.named = (named # {})
          /\ heard'.counted = (Pick(counts) = sale.months)
      BY <2>3, <3>3
    <3>7. \A p : (Price(p))' = Price(p)
      BY <2>1 DEF Price
    <3> QED
      BY <2>1, <3>4, <3>5, <3>6, <3>7 DEF CatalogueInv, PlanPaidFor
  <2> QED
    BY <2>1, <2>2, <2>3
<1>4. CASE UNCHANGED catalogueVars
  BY <1>4 DEF catalogueVars, CatalogueInv, PlanPaidFor, Price
<1> QED
  BY <1>1, <1>2, <1>3, <1>4 DEF CatalogueNext

\* Whatever prices the admin lays over the plans and whatever Grow's page asks, a
\* delivery opens the plan that was bought, for the months that were bought, when
\* it names the product, and by the amount alone while the order's price is the
\* plan's and the plans' prices lie apart.
THEOREM PlansArePaidFor == CatalogueSpec => []PlanPaidFor
<1>1. CatalogueInit => CatalogueInv
  BY DEF CatalogueInit, CatalogueInv, PlanPaidFor, Unheard, NoRow
<1>2. CatalogueInv => PlanPaidFor
  BY DEF CatalogueInv
<1> QED
  BY <1>1, <1>2, CatalogueNextKeeps, PTL DEF CatalogueSpec
=============================================================================

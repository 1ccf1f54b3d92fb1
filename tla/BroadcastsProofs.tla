--------------------------- MODULE BroadcastsProofs ---------------------------
(***************************************************************************)
(* Proofs about Broadcasts, for any number of broadcasts, recipients,      *)
(* sweeps and failures.                                                    *)
(***************************************************************************)
EXTENDS Broadcasts, FiniteSetTheorems, TLAPS

LEMMA IdleType == NoSweep \in Sweep /\ AtWork(NoSweep)
BY BroadcastAssumption DEF BroadcastAssumption, NoSweep, Sweep, AtWork, Of

\* A batch is a part of what findMany chose from.
LEMMA TakenType ==
  ASSUME NEW S, NEW n, NEW T \in Taken(S, n)
  PROVE  T \subseteq S
BY DEF Taken

\* One sweep gets a new record, the others keep theirs.
LEMMA SweepReplaced ==
  ASSUME TypeOK, NEW s \in Sweeps, NEW q \in Sweep, AtWork(q),
         sweep' = [sweep EXCEPT ![s] = q]
  PROVE  sweep' \in [Sweeps -> Sweep] /\ \A t \in Sweeps : AtWork(sweep'[t])
BY DEF TypeOK

\* The steps of a sweep that write no row.
LEMMA SweepMoves ==
  ASSUME TypeOK, NEW s \in Sweeps,
         \/ ReadDue(s)
         \/ \E b \in Broadcasts : Skip(s, b) \/ Take(s, b)
         \/ EndSweep(s) \/ ReadPending(s) \/ CountRemaining(s)
  PROVE  TypeOK'
<1> PICK q \in Sweep : q = sweep[s]
  BY DEF TypeOK
<1>0. AtWork(q) /\ sweep \in [Sweeps -> Sweep]
  BY DEF TypeOK
<1>1. UNCHANGED <<rows, world, history>>
  BY DEF ReadDue, Skip, Take, EndSweep, ReadPending, CountRemaining
<1>2. SUFFICES \E n \in Sweep : AtWork(n) /\ sweep' = [sweep EXCEPT ![s] = n]
  <2> PICK n \in Sweep : AtWork(n) /\ sweep' = [sweep EXCEPT ![s] = n]
    BY <1>2
  <2>1. sweep' \in [Sweeps -> Sweep] /\ \A t \in Sweeps : AtWork(sweep'[t])
    BY SweepReplaced
  <2> QED BY <1>1, <2>1 DEF TypeOK, rows, world, history, AtWork, Of
<1>3. CASE ReadDue(s)
  <2> PICK D \in SUBSET Broadcasts : sweep' = [sweep EXCEPT ![s] = Begun(D)]
    BY <1>3, TakenType DEF ReadDue, Unfinished
  <2>1. Begun(D) \in Sweep /\ AtWork(Begun(D))
    BY BroadcastAssumption DEF BroadcastAssumption, Begun, Sweep, AtWork, Of
  <2> QED BY <2>1
<1>4. ASSUME NEW b \in Broadcasts, Skip(s, b)
      PROVE  \E n \in Sweep : AtWork(n) /\ sweep' = [sweep EXCEPT ![s] = n]
  <2> DEFINE n == [q EXCEPT !.due = @ \ {b}]
  <2>1. n \in Sweep /\ AtWork(n)
    BY <1>0 DEF Sweep, AtWork
  <2>2. sweep' = [sweep EXCEPT ![s] = n]
    BY <1>0, <1>4 DEF Skip
  <2> HIDE DEF n
  <2> QED BY <2>1, <2>2
<1>5. ASSUME NEW b \in Broadcasts, Take(s, b)
      PROVE  \E n \in Sweep : AtWork(n) /\ sweep' = [sweep EXCEPT ![s] = n]
  <2> DEFINE n == [q EXCEPT !.pc = IF b \in q.fresh THEN "start" ELSE "read",
                            !.due = @ \ {b}, !.b = b]
  <2>0. q.pc = "next"
    BY <1>5 DEF Take, At
  <2>1. n \in Sweep /\ AtWork(n)
    <3>1. n \in Sweep
      BY DEF Sweep
    <3>2. n.pc \in {"start", "read"} /\ n.b = b /\ n.batch = q.batch
      BY DEF Sweep
    <3>3. q.batch = {} /\ b # NULL
      BY <1>0, <2>0, BroadcastAssumption DEF BroadcastAssumption, AtWork
    <3> HIDE DEF n
    <3> QED BY <3>1, <3>2, <3>3 DEF AtWork
  <2>2. sweep' = [sweep EXCEPT ![s] = n]
    BY <1>0, <1>5 DEF Take
  <2> HIDE DEF n
  <2> QED BY <2>1, <2>2
<1>6. CASE EndSweep(s)
  BY <1>6, IdleType DEF EndSweep
<1>7. CASE ReadPending(s)
  <2> PICK B \in Taken(Pending(q.b), BatchSize) :
        sweep' = [sweep EXCEPT ![s].pc = "each", ![s].batch = B]
    BY <1>7 DEF ReadPending
  <2> DEFINE n == [q EXCEPT !.pc = "each", !.batch = B]
  <2>0. q.pc = "read" /\ B \subseteq Of(q.b) /\ B \subseteq Recipients
    BY <1>7, TakenType DEF ReadPending, At, Pending, Of
  <2>1. n \in Sweep /\ AtWork(n)
    BY <1>0, <2>0 DEF Sweep, AtWork
  <2>2. sweep' = [sweep EXCEPT ![s] = n]
    BY <1>0
  <2> HIDE DEF n
  <2> QED BY <2>1, <2>2
<1>8. CASE CountRemaining(s)
  <2> DEFINE n == [q EXCEPT !.pc = IF Pending(q.b) = {} THEN "last" ELSE "more"]
  <2>0. q.pc = "each" /\ q.batch = {}
    BY <1>8 DEF CountRemaining, At
  <2>1. n \in Sweep /\ AtWork(n)
    BY <1>0, <2>0 DEF Sweep, AtWork
  <2>2. sweep' = [sweep EXCEPT ![s] = n]
    BY <1>0, <1>8 DEF CountRemaining
  <2> HIDE DEF n
  <2> QED BY <2>1, <2>2
<1> QED BY <1>3, <1>4, <1>5, <1>6, <1>7, <1>8

\* The steps of a sweep that write a row.
LEMMA SweepWrites ==
  ASSUME TypeOK, NEW s \in Sweeps,
         \/ MarkSending(s)
         \/ \E r \in Recipients : Reject(s, r) \/ Enqueue(s, r)
         \/ MarkSent(s) \/ CloseBatch(s)
  PROVE  TypeOK'
<1> PICK q \in Sweep : q = sweep[s]
  BY DEF TypeOK
<1>0. AtWork(q) /\ sweep \in [Sweeps -> Sweep]
  BY DEF TypeOK
<1>2. ASSUME NEW n \in Sweep, AtWork(n), sweep' = [sweep EXCEPT ![s] = n]
      PROVE  sweep' \in [Sweeps -> Sweep] /\ (\A t \in Sweeps : AtWork(sweep[t]))'
  <2>1. sweep' \in [Sweeps -> Sweep] /\ \A t \in Sweeps : AtWork(sweep'[t])
    BY <1>2, SweepReplaced
  <2> QED BY <2>1 DEF AtWork, Of
<1>3. CASE MarkSending(s)
  <2> DEFINE n == [q EXCEPT !.pc = "read"]
  <2>0. q.pc = "start" /\ q.b \in Broadcasts
    BY <1>0, <1>3 DEF MarkSending, At, AtWork, Sweep
  <2>1. n \in Sweep /\ AtWork(n)
    BY <1>0, <2>0 DEF Sweep, AtWork
  <2>2. sweep' = [sweep EXCEPT ![s] = n]
    BY <1>0, <1>3 DEF MarkSending
  <2> HIDE DEF n
  <2>3. sweep' \in [Sweeps -> Sweep] /\ (\A t \in Sweeps : AtWork(sweep[t]))'
    BY <1>2, <2>1, <2>2
  <2> QED BY <1>3, <2>0, <2>3 DEF MarkSending, TypeOK, world, history
<1>4. ASSUME NEW r \in Recipients, Reject(s, r) PROVE TypeOK'
  <2> PICK f \in Nat : f = q.failed + 1
    BY DEF Sweep
  <2> DEFINE n == [q EXCEPT !.batch = @ \ {r}, !.failed = f]
  <2>0. q.pc = "each" /\ r \in q.batch
    BY <1>4 DEF Reject, At
  <2>b. n \in Sweep
    BY <2>0 DEF Sweep
  <2>c. AtWork(n)
    BY <1>0, <2>0 DEF AtWork, Sweep
  <2>1. n \in Sweep /\ AtWork(n)
    BY <2>b, <2>c
  <2>2. sweep' = [sweep EXCEPT ![s] = n]
    BY <1>0, <1>4 DEF Reject
  <2> HIDE DEF n
  <2>3. sweep' \in [Sweeps -> Sweep] /\ (\A t \in Sweeps : AtWork(sweep[t]))'
    BY <1>2, <2>1, <2>2
  <2> QED BY <1>4, <2>3 DEF Reject, TypeOK, world, history
<1>5. ASSUME NEW r \in Recipients, Enqueue(s, r) PROVE TypeOK'
  <2> PICK f \in Nat : f = q.sent + 1
    BY DEF Sweep
  <2> DEFINE n == [q EXCEPT !.pc = "add", !.batch = @ \ {r}, !.r = r, !.sent = f]
  <2>0. q.pc = "each" /\ r \in q.batch /\ BroadcastOf[r] \in Broadcasts
    BY <1>5, BroadcastAssumption DEF Enqueue, At, BroadcastAssumption
  <2>b. n \in Sweep
    BY <2>0 DEF Sweep
  <2>c. AtWork(n)
    BY <1>0, <2>0 DEF AtWork, Sweep
  <2>1. n \in Sweep /\ AtWork(n)
    BY <2>b, <2>c
  <2>2. sweep' = [sweep EXCEPT ![s] = n]
    BY <1>0, <1>5 DEF Enqueue
  <2> HIDE DEF n
  <2>3. sweep' \in [Sweeps -> Sweep] /\ (\A t \in Sweeps : AtWork(sweep[t]))'
    BY <1>2, <2>1, <2>2
  <2>4. enqueued' \in [Recipients -> Nat]
    <3>1. enqueued[r] + 1 \in Nat /\ enqueued \in [Recipients -> Nat]
      BY DEF TypeOK
    <3>2. enqueued' = [enqueued EXCEPT ![r] = enqueued[r] + 1]
      BY <1>5 DEF Enqueue
    <3> QED BY <3>1, <3>2
  <2>5. leaked' \in [Broadcasts -> Nat]
    <3>1. leaked[BroadcastOf[r]] + 1 \in Nat /\ leaked \in [Broadcasts -> Nat]
      BY <2>0 DEF TypeOK
    <3>2. leaked' = [leaked EXCEPT ![BroadcastOf[r]] =
                       IF cancel[BroadcastOf[r]] = "done" THEN leaked[BroadcastOf[r]] + 1
                       ELSE leaked[BroadcastOf[r]]]
      BY <1>5 DEF Enqueue
    <3> QED BY <3>1, <3>2
  <2> QED BY <1>5, <2>3, <2>4, <2>5 DEF Enqueue, TypeOK, rows, world
<1>6. CASE MarkSent(s)
  <2> DEFINE n == [q EXCEPT !.pc = "each", !.r = NULL]
  <2>0. q.pc = "add" /\ q.r \in Recipients
    BY <1>0, <1>6 DEF MarkSent, At, AtWork, Of
  <2>1. n \in Sweep /\ AtWork(n)
    BY <1>0, <2>0 DEF Sweep, AtWork
  <2>2. sweep' = [sweep EXCEPT ![s] = n]
    BY <1>0, <1>6 DEF MarkSent
  <2> HIDE DEF n
  <2>3. sweep' \in [Sweeps -> Sweep] /\ (\A t \in Sweeps : AtWork(sweep[t]))'
    BY <1>2, <2>1, <2>2
  <2> QED BY <1>6, <2>0, <2>3 DEF MarkSent, TypeOK, world, history
<1>7. CASE CloseBatch(s)
  <2> DEFINE n == [q EXCEPT !.pc = "next", !.b = NULL, !.sent = 0, !.failed = 0]
  <2>0. q.pc \in {"more", "last"} /\ q.b \in Broadcasts /\ q.batch = {}
    BY <1>0, <1>7 DEF CloseBatch, AtWork, Sweep
  <2>1. n \in Sweep /\ AtWork(n)
    BY <1>0, <2>0 DEF Sweep, AtWork
  <2>2. sweep' = [sweep EXCEPT ![s] = n]
    BY <1>0, <1>7 DEF CloseBatch
  <2> HIDE DEF n
  <2>3. sweep' \in [Sweeps -> Sweep] /\ (\A t \in Sweeps : AtWork(sweep[t]))'
    BY <1>2, <2>1, <2>2
  <2>4. q.sent \in Nat /\ q.failed \in Nat
    BY DEF Sweep
  <2>5. sentCount' \in [Broadcasts -> Nat] /\ failedCount' \in [Broadcasts -> Nat]
    BY <1>7, <2>0, <2>4 DEF CloseBatch, TypeOK
  <2>6. status' \in [Broadcasts -> {"none", "SCHEDULED", "SENDING", "SENT", "CANCELLED"}]
    BY <1>7, <2>0 DEF CloseBatch, TypeOK
  <2> QED BY <1>7, <2>3, <2>5, <2>6 DEF CloseBatch, TypeOK, world, history
<1> QED BY <1>3, <1>4, <1>5, <1>6, <1>7

\* The dashboard, the numbers, the calendar and the failures.
LEMMA EnvironmentType ==
  ASSUME TypeOK,
         \/ \E b \in Broadcasts : \/ CreateBroadcast(b) \/ TimeComes(b)
                                  \/ CancelBroadcast(b) \/ CancelRecipients(b) \/ CancelFails(b)
         \/ \E o \in Orgs : NumberDrops(o) \/ NumberPairs(o)
         \/ WorkerRestarts
         \/ \E s \in Sweeps : SweepFails(s)
  PROVE  TypeOK'
<1>1. ASSUME NEW b \in Broadcasts, CreateBroadcast(b) \/ TimeComes(b) PROVE TypeOK'
  BY <1>1 DEF CreateBroadcast, TimeComes, TypeOK, AtWork, Of, world, history
<1>2. ASSUME NEW b \in Broadcasts, CancelBroadcast(b) \/ CancelRecipients(b) PROVE TypeOK'
  BY <1>2 DEF CancelBroadcast, CancelRecipients, TypeOK, AtWork, Of, history
<1>3. ASSUME NEW b \in Broadcasts, CancelFails(b) PROVE TypeOK'
  BY <1>3, BroadcastAssumption
  DEF BroadcastAssumption, CancelFails, Fault, TypeOK, AtWork, Of, rows, history
<1>4. ASSUME NEW o \in Orgs, NumberDrops(o) \/ NumberPairs(o) PROVE TypeOK'
  BY <1>4 DEF NumberDrops, NumberPairs, TypeOK, AtWork, Of, rows, history
<1>5. CASE WorkerRestarts
  <2>1. sweep' = [s \in Sweeps |-> NoSweep] /\ faults' \in 0..MaxFaults
        /\ UNCHANGED <<rows, connected, cancel, history>>
    BY <1>5, BroadcastAssumption DEF BroadcastAssumption, WorkerRestarts, Fault, TypeOK
  <2> QED BY <2>1, IdleType DEF TypeOK, AtWork, Of, rows, history
<1>6. ASSUME NEW s \in Sweeps, SweepFails(s) PROVE TypeOK'
  <2>1. faults' \in 0..MaxFaults /\ UNCHANGED <<rows, connected, cancel, history>>
    BY <1>6, BroadcastAssumption DEF BroadcastAssumption, SweepFails, Fault, TypeOK
  <2>2. sweep' \in [Sweeps -> Sweep] /\ \A t \in Sweeps : AtWork(sweep'[t])
    BY <1>6, IdleType, SweepReplaced DEF SweepFails
  <2> QED BY <2>1, <2>2 DEF TypeOK, AtWork, Of, rows, history
<1> QED BY <1>1, <1>2, <1>3, <1>4, <1>5, <1>6

LEMMA TypeInit == Init => TypeOK
<1> SUFFICES ASSUME Init PROVE TypeOK
  OBVIOUS
<1>1. \A s \in Sweeps : sweep[s] = NoSweep
  BY DEF Init
<1> QED BY <1>1, IdleType, BroadcastAssumption DEF BroadcastAssumption, Init, TypeOK

LEMMA TypeStep == TypeOK /\ [Next]_vars => TypeOK'
<1> SUFFICES ASSUME TypeOK, [Next]_vars PROVE TypeOK'
  OBVIOUS
<1>1. CASE Next
  BY <1>1, SweepMoves, SweepWrites, EnvironmentType DEF Next, SweepStep
<1>2. CASE UNCHANGED vars
  BY <1>2 DEF vars, rows, world, history, TypeOK, AtWork, Of
<1> QED BY <1>1, <1>2

\* Rows, sweeps and histories keep their types, and a sweep's batch is of the
\* broadcast it is at.
THEOREM TypeCorrect == Spec => []TypeOK
<1>1. Spec => Init /\ [][Next]_vars
  BY DEF Spec
<1> QED BY <1>1, TypeInit, TypeStep, PTL

-------------------------------------------------------------------------------
(* What is shown as sent was queued *)

\* The steps that neither queue a job nor mark a recipient sent.
Quiet ==
  \/ \E s \in Sweeps : \/ ReadDue(s) \/ EndSweep(s) \/ MarkSending(s) \/ ReadPending(s)
                       \/ CountRemaining(s) \/ CloseBatch(s) \/ SweepFails(s)
                       \/ \E b \in Broadcasts : Skip(s, b) \/ Take(s, b)
                       \/ \E r \in Recipients : Reject(s, r)
  \/ \E b \in Broadcasts : \/ CreateBroadcast(b) \/ TimeComes(b)
                           \/ CancelBroadcast(b) \/ CancelRecipients(b) \/ CancelFails(b)
  \/ \E o \in Orgs : NumberDrops(o) \/ NumberPairs(o)
  \/ WorkerRestarts
  \/ UNCHANGED vars

LEMMA StepKinds ==
  ASSUME [Next]_vars
  PROVE  \/ Quiet
         \/ \E s \in Sweeps, r \in Recipients : Enqueue(s, r)
         \/ \E s \in Sweeps : MarkSent(s)
BY DEF Next, SweepStep, Quiet

LEMMA QuietStep ==
  ASSUME TypeOK, Quiet
  PROVE  /\ enqueued' = enqueued
         /\ \A r \in Recipients : recipient'[r] # recipient[r] => recipient'[r] = "FAILED"
         /\ \A s \in Sweeps : sweep'[s].pc = "add" => sweep'[s] = sweep[s]
<1> USE DEF rows, world, history
<1>0. sweep \in [Sweeps -> Sweep] /\ recipient \in [Recipients -> {"PENDING", "SENT", "FAILED"}]
  BY DEF TypeOK
<1>1. ASSUME NEW s \in Sweeps, ReadDue(s)
      PROVE  /\ UNCHANGED <<enqueued, recipient>>
             /\ \A t \in Sweeps : sweep'[t].pc = "add" => sweep'[t] = sweep[t]
  BY <1>0, <1>1 DEF ReadDue, Begun
<1>2. ASSUME NEW s \in Sweeps, EndSweep(s) \/ SweepFails(s) \/ WorkerRestarts
      PROVE  /\ UNCHANGED <<enqueued, recipient>>
             /\ \A t \in Sweeps : sweep'[t].pc = "add" => sweep'[t] = sweep[t]
  BY <1>0, <1>2 DEF EndSweep, SweepFails, WorkerRestarts, NoSweep
<1>3. ASSUME NEW s \in Sweeps,
             \/ MarkSending(s) \/ ReadPending(s) \/ CountRemaining(s) \/ CloseBatch(s)
             \/ \E b \in Broadcasts : Skip(s, b) \/ Take(s, b)
             \/ \E r \in Recipients : Reject(s, r)
      PROVE  /\ enqueued' = enqueued
             /\ \A t \in Sweeps : sweep'[t].pc = "add" => sweep'[t] = sweep[t]
  <2>1. /\ sweep'[s].pc \in {"start", "each", "more", "last", "next", "read"}
        /\ sweep' = [sweep EXCEPT ![s] = sweep'[s]]
    <3>0. sweep[s] \in Sweep BY <1>0
    <3>1. CASE MarkSending(s) \/ ReadPending(s)
      BY <1>0, <3>0, <3>1 DEF MarkSending, ReadPending, Sweep
    <3>2. CASE CountRemaining(s)
      BY <1>0, <3>0, <3>2 DEF CountRemaining, Sweep
    <3>3. CASE CloseBatch(s)
      BY <1>0, <3>0, <3>3 DEF CloseBatch, Sweep
    <3>4. CASE \E b \in Broadcasts : Skip(s, b) \/ Take(s, b)
      BY <1>0, <3>0, <3>4 DEF Skip, Take, At, Sweep
    <3>5. CASE \E r \in Recipients : Reject(s, r)
      BY <1>0, <3>0, <3>5 DEF Reject, At, Sweep
    <3> QED BY <1>3, <3>1, <3>2, <3>3, <3>4, <3>5
  <2>2. \A t \in Sweeps : t # s => sweep'[t] = sweep[t]
    BY <1>0, <2>1
  <2>3. sweep'[s].pc # "add"
    BY <2>1
  <2>4. enqueued' = enqueued
    BY <1>3 DEF MarkSending, ReadPending, CountRemaining, CloseBatch, Skip, Take, Reject
  <2> QED BY <2>2, <2>3, <2>4
<1>4. ASSUME NEW s \in Sweeps, NEW r \in Recipients, Reject(s, r)
      PROVE  \A x \in Recipients : recipient'[x] # recipient[x] => recipient'[x] = "FAILED"
  BY <1>0, <1>4 DEF Reject
<1>5. ASSUME NEW s \in Sweeps,
             \/ MarkSending(s) \/ ReadPending(s) \/ CountRemaining(s) \/ CloseBatch(s)
             \/ \E b \in Broadcasts : Skip(s, b) \/ Take(s, b)
      PROVE  recipient' = recipient
  BY <1>5 DEF MarkSending, ReadPending, CountRemaining, CloseBatch, Skip, Take
<1>6. ASSUME NEW b \in Broadcasts,
             CreateBroadcast(b) \/ TimeComes(b) \/ CancelBroadcast(b) \/ CancelFails(b)
      PROVE  UNCHANGED <<enqueued, recipient, sweep>>
  BY <1>6 DEF CreateBroadcast, TimeComes, CancelBroadcast, CancelFails
<1>7. ASSUME NEW b \in Broadcasts, CancelRecipients(b)
      PROVE  /\ UNCHANGED <<enqueued, sweep>>
             /\ \A x \in Recipients : recipient'[x] # recipient[x] => recipient'[x] = "FAILED"
  BY <1>0, <1>7 DEF CancelRecipients
<1>8. ASSUME NEW o \in Orgs, NumberDrops(o) \/ NumberPairs(o)
      PROVE  UNCHANGED <<enqueued, recipient, sweep>>
  BY <1>8 DEF NumberDrops, NumberPairs
<1>9. CASE UNCHANGED vars
  BY <1>9 DEF vars
<1>10. CASE WorkerRestarts
  <2>1. PICK s \in Sweeps : ~At(s, "idle")
    BY <1>10 DEF WorkerRestarts
  <2> QED BY <1>2, <1>10
<1> QED BY <1>1, <1>2, <1>3, <1>4, <1>5, <1>6, <1>7, <1>8, <1>9, <1>10 DEF Quiet

\* A sweep about to mark a recipient sent has queued its job.
EnqueuedInv ==
  /\ TypeOK
  /\ SentWasEnqueued
  /\ \A s \in Sweeps : At(s, "add") => enqueued[sweep[s].r] > 0

LEMMA EnqueuedStep == EnqueuedInv /\ [Next]_vars => EnqueuedInv'
<1> SUFFICES ASSUME EnqueuedInv, [Next]_vars PROVE EnqueuedInv'
  OBVIOUS
<1>0. TypeOK /\ TypeOK' /\ sweep \in [Sweeps -> Sweep]
      /\ enqueued \in [Recipients -> Nat]
      /\ recipient \in [Recipients -> {"PENDING", "SENT", "FAILED"}]
  BY TypeStep DEF EnqueuedInv, TypeOK
<1>1. CASE Quiet
  BY <1>0, <1>1, QuietStep DEF EnqueuedInv, SentWasEnqueued, At
<1>2. ASSUME NEW s \in Sweeps, NEW r \in Recipients, Enqueue(s, r) PROVE EnqueuedInv'
  <2>1. recipient' = recipient
    BY <1>2 DEF Enqueue, rows
  <2>2. enqueued' = [enqueued EXCEPT ![r] = enqueued[r] + 1]
    BY <1>2 DEF Enqueue
  <2>3. \A x \in Recipients : enqueued'[x] >= enqueued[x]
    BY <1>0, <2>2
  <2>4. enqueued'[r] > 0
    BY <1>0, <2>2
  <2>5. sweep'[s].r = r /\ \A t \in Sweeps \ {s} : sweep'[t] = sweep[t]
    BY <1>0, <1>2 DEF Enqueue, Sweep
  <2>6. \A t \in Sweeps : At(t, "add") => sweep[t].r \in Recipients
    BY <1>0 DEF TypeOK, AtWork, At, Of
  <2>7. ASSUME NEW t \in Sweeps, sweep'[t].pc = "add" PROVE enqueued'[sweep'[t].r] > 0
    <3>1. CASE t = s BY <3>1, <2>4, <2>5
    <3>2. CASE t # s
      <4>1. sweep[t].r \in Recipients /\ enqueued[sweep[t].r] > 0
        BY <3>2, <2>5, <2>6, <2>7 DEF EnqueuedInv, At
      <4>2. enqueued'[sweep[t].r] \in Nat /\ enqueued[sweep[t].r] \in Nat
        BY <1>0, <4>1 DEF TypeOK
      <4> QED BY <3>2, <4>1, <4>2, <2>3, <2>5
    <3> QED BY <3>1, <3>2
  <2>8. \A x \in Recipients : recipient'[x] = "SENT" => enqueued'[x] > 0
    <3>1. \A x \in Recipients : enqueued'[x] \in Nat /\ enqueued[x] \in Nat
      BY <1>0 DEF TypeOK
    <3> QED BY <3>1, <2>1, <2>3 DEF EnqueuedInv, SentWasEnqueued
  <2> QED BY <1>0, <2>7, <2>8 DEF EnqueuedInv, SentWasEnqueued, At
<1>3. ASSUME NEW s \in Sweeps, MarkSent(s) PROVE EnqueuedInv'
  <2>1. enqueued' = enqueued /\ At(s, "add")
    BY <1>3 DEF MarkSent, history
  <2>2. recipient' = [recipient EXCEPT ![sweep[s].r] = "SENT"]
    BY <1>3 DEF MarkSent
  <2>3. sweep'[s].pc = "each" /\ \A t \in Sweeps \ {s} : sweep'[t] = sweep[t]
    BY <1>0, <1>3 DEF MarkSent, Sweep
  <2> QED BY <1>0, <2>1, <2>2, <2>3 DEF EnqueuedInv, SentWasEnqueued, At
<1> QED BY <1>1, <1>2, <1>3, StepKinds

\* For any number of sweeps, cancels and failures, a recipient shown as sent has
\* had a job on the queue.
THEOREM SentRecipientsWereEnqueued == Spec => []SentWasEnqueued
<1>1. Init => EnqueuedInv
  BY TypeInit DEF Init, EnqueuedInv, SentWasEnqueued, At, NoSweep
<1>2. EnqueuedInv => SentWasEnqueued
  BY DEF EnqueuedInv
<1>3. Spec => Init /\ [][Next]_vars
  BY DEF Spec
<1> QED BY <1>1, <1>2, <1>3, EnqueuedStep, PTL

-------------------------------------------------------------------------------
(* What is shown as sent is complete *)

\* Nobody becomes pending again.
LEMMA PendingShrinks ==
  ASSUME TypeOK, [Next]_vars, NEW b \in Broadcasts, Pending(b) = {}
  PROVE  Pending(b)' = {}
<1>0. recipient \in [Recipients -> {"PENDING", "SENT", "FAILED"}]
  BY DEF TypeOK
<1>1. CASE Quiet
  <2>1. \A r \in Recipients : recipient'[r] # recipient[r] => recipient'[r] = "FAILED"
    BY <1>1, QuietStep
  <2> QED BY <2>1 DEF Pending, Of
<1>2. ASSUME NEW s \in Sweeps, NEW r \in Recipients, Enqueue(s, r) PROVE Pending(b)' = {}
  BY <1>2 DEF Enqueue, rows, Pending, Of
<1>3. ASSUME NEW s \in Sweeps, MarkSent(s) PROVE Pending(b)' = {}
  BY <1>0, <1>3 DEF MarkSent, Pending, Of
<1> QED BY <1>1, <1>2, <1>3, StepKinds

\* A sweep that has counted nobody left is right for good.
CompleteInv ==
  /\ TypeOK
  /\ SentLeavesNobody
  /\ \A s \in Sweeps : At(s, "last") => Pending(sweep[s].b) = {}

\* A sweep comes to "last" by its count alone, a row to SENT from there alone.
LEMMA LastComesFromCount ==
  ASSUME TypeOK, [Next]_vars
  PROVE  /\ \A t \in Sweeps : sweep'[t].pc = "last" =>
               \/ sweep[t].pc = "last" /\ sweep'[t].b = sweep[t].b
               \/ Pending(sweep[t].b) = {} /\ sweep'[t].b = sweep[t].b
         /\ \A b \in Broadcasts : status'[b] = "SENT" =>
               \/ status[b] = "SENT"
               \/ \E s \in Sweeps : At(s, "last") /\ sweep[s].b = b
<1> USE DEF rows, world, history
<1>0. sweep \in [Sweeps -> Sweep]
      /\ status \in [Broadcasts -> {"none", "SCHEDULED", "SENDING", "SENT", "CANCELLED"}]
  BY DEF TypeOK
<1> DEFINE A == \A t \in Sweeps : sweep'[t].pc = "last" =>
                  \/ sweep[t].pc = "last" /\ sweep'[t].b = sweep[t].b
                  \/ Pending(sweep[t].b) = {} /\ sweep'[t].b = sweep[t].b
           B == \A b \in Broadcasts : status'[b] = "SENT" =>
                  \/ status[b] = "SENT"
                  \/ \E s \in Sweeps : At(s, "last") /\ sweep[s].b = b
<1> SUFFICES A /\ B
  OBVIOUS
<1>1. ASSUME NEW s \in Sweeps, ReadDue(s) PROVE A /\ B
  BY <1>0, <1>1 DEF ReadDue, Begun
<1>2. ASSUME NEW s \in Sweeps, EndSweep(s) \/ SweepFails(s) PROVE A /\ B
  BY <1>0, <1>2 DEF EndSweep, SweepFails, NoSweep
<1>3. CASE WorkerRestarts
  BY <1>3 DEF WorkerRestarts, NoSweep
<1>4. ASSUME NEW s \in Sweeps,
             \/ \E b \in Broadcasts : Skip(s, b) \/ Take(s, b)
             \/ \E r \in Recipients : Reject(s, r) \/ Enqueue(s, r)
             \/ ReadPending(s) \/ MarkSent(s)
      PROVE  A /\ B
  <2>0. sweep[s] \in Sweep BY <1>0
  <2>1. sweep'[s].pc # "last" /\ \A t \in Sweeps \ {s} : sweep'[t] = sweep[t]
    <3>1. CASE \E b \in Broadcasts : Skip(s, b) \/ Take(s, b)
      BY <1>0, <2>0, <3>1 DEF Skip, Take, At, Sweep
    <3>2. CASE \E r \in Recipients : Reject(s, r)
      BY <1>0, <2>0, <3>2 DEF Reject, At, Sweep
    <3>3. CASE \E r \in Recipients : Enqueue(s, r)
      BY <1>0, <2>0, <3>3 DEF Enqueue, At, Sweep
    <3>4. CASE ReadPending(s) \/ MarkSent(s)
      BY <1>0, <2>0, <3>4 DEF ReadPending, MarkSent, Sweep
    <3> QED BY <1>4, <3>1, <3>2, <3>3, <3>4
  <2>2. status' = status
    BY <1>4 DEF Skip, Take, Reject, Enqueue, ReadPending, MarkSent
  <2> QED BY <2>1, <2>2
<1>5. ASSUME NEW s \in Sweeps, MarkSending(s) PROVE A /\ B
  <2>0. sweep[s] \in Sweep BY <1>0
  <2>1. sweep'[s].pc = "read" /\ \A t \in Sweeps \ {s} : sweep'[t] = sweep[t]
    BY <1>0, <2>0, <1>5 DEF MarkSending, Sweep
  <2>2. \A b \in Broadcasts : status'[b] = "SENT" => status[b] = "SENT"
    BY <1>0, <1>5 DEF MarkSending
  <2> QED BY <2>1, <2>2
<1>6. ASSUME NEW s \in Sweeps, CountRemaining(s) PROVE A /\ B
  <2>0. sweep[s] \in Sweep BY <1>0
  <2>1. /\ sweep'[s].pc = IF Pending(sweep[s].b) = {} THEN "last" ELSE "more"
        /\ sweep'[s].b = sweep[s].b
        /\ \A t \in Sweeps \ {s} : sweep'[t] = sweep[t]
    BY <1>0, <2>0, <1>6 DEF CountRemaining, Sweep
  <2>2. status' = status
    BY <1>6 DEF CountRemaining
  <2> QED BY <2>1, <2>2
<1>7. ASSUME NEW s \in Sweeps, CloseBatch(s) PROVE A /\ B
  <2>0. sweep[s] \in Sweep BY <1>0
  <2>1. sweep'[s].pc = "next" /\ \A t \in Sweeps \ {s} : sweep'[t] = sweep[t]
    BY <1>0, <2>0, <1>7 DEF CloseBatch, Sweep
  <2>2. status' = [status EXCEPT ![sweep[s].b] = IF At(s, "last") THEN "SENT" ELSE @]
    BY <1>7 DEF CloseBatch
  <2>3. B
    BY <1>0, <2>2
  <2> QED BY <2>1, <2>3
<1>8. ASSUME NEW b \in Broadcasts,
             \/ CreateBroadcast(b) \/ TimeComes(b)
             \/ CancelBroadcast(b) \/ CancelRecipients(b) \/ CancelFails(b)
      PROVE  A /\ B
  <2>1. sweep' = sweep
    BY <1>8 DEF CreateBroadcast, TimeComes, CancelBroadcast, CancelRecipients, CancelFails
  <2>2. \A x \in Broadcasts : status'[x] = "SENT" => status[x] = "SENT"
    BY <1>0, <1>8 DEF CreateBroadcast, TimeComes, CancelBroadcast, CancelRecipients, CancelFails
  <2> QED BY <2>1, <2>2
<1>9. ASSUME NEW o \in Orgs, NumberDrops(o) \/ NumberPairs(o) PROVE A /\ B
  BY <1>9 DEF NumberDrops, NumberPairs
<1>10. CASE UNCHANGED vars
  BY <1>10 DEF vars
<1> HIDE DEF A, B
<1>11. ASSUME NEW s \in Sweeps, ReadDue(s) \/ SweepStep(s) \/ SweepFails(s) PROVE A /\ B
  BY <1>1, <1>2, <1>4, <1>5, <1>6, <1>7, <1>11 DEF SweepStep
<1>12. CASE Next
  BY <1>3, <1>8, <1>9, <1>11, <1>12 DEF Next
<1> QED BY <1>10, <1>12

LEMMA CompleteStep == CompleteInv /\ [Next]_vars => CompleteInv'
<1> SUFFICES ASSUME CompleteInv, [Next]_vars PROVE CompleteInv'
  OBVIOUS
<1>0. TypeOK /\ TypeOK'
  BY TypeStep DEF CompleteInv
<1>1. ASSUME NEW b \in Broadcasts, status'[b] = "SENT" PROVE Pending(b)' = {}
  <2>1. Pending(b) = {}
    BY <1>0, <1>1, LastComesFromCount DEF CompleteInv, SentLeavesNobody
  <2> QED BY <1>0, <2>1, PendingShrinks
<1>2. ASSUME NEW t \in Sweeps, sweep'[t].pc = "last"
      PROVE  \A b \in Broadcasts : b = sweep'[t].b => Pending(b)' = {}
  <2>1. Pending(sweep[t].b) = {} /\ sweep'[t].b = sweep[t].b
    BY <1>0, <1>2, LastComesFromCount DEF CompleteInv, At
  <2> QED BY <1>0, <2>1, PendingShrinks
<1>3. ASSUME NEW t \in Sweeps, sweep'[t].pc = "last" PROVE sweep'[t].b \in Broadcasts
  BY <1>0, <1>3 DEF TypeOK, AtWork, Sweep
<1>4. ASSUME NEW t \in Sweeps, At(t, "last")' PROVE Pending(sweep[t].b)' = {}
  <2>1. PICK b \in Broadcasts : b = sweep'[t].b
    BY <1>3, <1>4 DEF At
  <2>2. Pending(b)' = {}
    BY <1>2, <1>4, <2>1 DEF At
  <2> QED BY <2>1, <2>2 DEF Pending, Of
<1> QED BY <1>0, <1>1, <1>4 DEF CompleteInv, SentLeavesNobody

\* For any number of sweeps and cancels, a broadcast shown as sent has nobody
\* pending.
THEOREM SentBroadcastsAreComplete == Spec => []SentLeavesNobody
<1>1. Init => CompleteInv
  BY TypeInit DEF Init, CompleteInv, SentLeavesNobody, At, NoSweep
<1>2. CompleteInv => SentLeavesNobody
  BY DEF CompleteInv
<1>3. Spec => Init /\ [][Next]_vars
  BY DEF Spec
<1> QED BY <1>1, <1>2, <1>3, CompleteStep, PTL

\* What the broadcast page shows as sent has gone out, for any number of sweeps
\* and failures: a recipient's job was on the queue, and a broadcast has nobody
\* left to send to.
THEOREM SentIsSent == Spec => []ShownAsSent
<1>1. SentWasEnqueued /\ SentLeavesNobody => ShownAsSent
  BY DEF ShownAsSent
<1> QED BY <1>1, SentRecipientsWereEnqueued, SentBroadcastsAreComplete, PTL

-------------------------------------------------------------------------------
(* How often one person gets a broadcast *)

\* The sweeps that have queued r and not yet marked it, and those that will.
Marking(r) == {s \in Sweeps : sweep[s].pc = "add" /\ sweep[s].r = r}
Holding(r) == {s \in Sweeps : r \in sweep[s].batch}

\* While r is pending, every job it has had is owed to a sweep that is about to
\* mark it or to one that was cut off; later only the sweeps that hold it add one.
OwedTo(r) ==
  /\ recipient[r] = "PENDING" =>
       enqueued[r] <= Cardinality(Marking(r)) + Cardinality(Sweeps) * faults
  /\ enqueued[r] + Cardinality(Holding(r)) <= Cardinality(Sweeps) * (faults + 1)

RepeatsInv ==
  /\ TypeOK
  /\ \A s \in Sweeps : At(s, "add") => sweep[s].r \notin sweep[s].batch
  /\ \A r \in Recipients : OwedTo(r)

LEMMA SweepSets ==
  ASSUME NEW T \in SUBSET Sweeps
  PROVE  /\ IsFiniteSet(T) /\ Cardinality(T) \in Nat
         /\ Cardinality(T) <= Cardinality(Sweeps) /\ Cardinality(Sweeps) \in Nat
<1>1. IsFiniteSet(Sweeps)
  BY BroadcastAssumption DEF BroadcastAssumption
<1> QED BY <1>1, FS_Subset, FS_CardinalityType

\* Two sets of sweeps without a common one.
LEMMA DisjointSweeps ==
  ASSUME NEW T \in SUBSET Sweeps, NEW U \in SUBSET Sweeps, T \cap U = {}
  PROVE  Cardinality(T) + Cardinality(U) <= Cardinality(Sweeps)
<1>1. IsFiniteSet(T) /\ IsFiniteSet(U) /\ Cardinality(T) \in Nat /\ Cardinality(U) \in Nat
  BY SweepSets
<1>2. Cardinality(T \cup U) = Cardinality(T) + Cardinality(U) - Cardinality(T \cap U)
  BY <1>1, FS_Union
<1>3. Cardinality(T \cap U) = 0
  BY FS_EmptySet
<1>4. Cardinality(T \cup U) <= Cardinality(Sweeps)
  BY SweepSets
<1> QED BY <1>1, <1>2, <1>3, <1>4

LEMMA Budget == \A n, f \in Nat : n * f \in Nat /\ n * (f + 1) = n * f + n
OBVIOUS

\* A step that queues nothing and lets no sweep forget what it queued.
LEMMA OwedKept ==
  ASSUME NEW r \in Recipients, TypeOK, OwedTo(r),
         enqueued'[r] = enqueued[r], faults' = faults, Marking(r)' = Marking(r),
         Holding(r)' \subseteq Holding(r), recipient'[r] = "PENDING" => recipient[r] = "PENDING"
  PROVE  OwedTo(r)'
<1>1. IsFiniteSet(Holding(r)) /\ Holding(r)' \in SUBSET Holding(r)
  BY SweepSets DEF Holding
<1>2. Cardinality(Holding(r)') <= Cardinality(Holding(r))
  BY <1>1, FS_Subset
<1>3. Cardinality(Holding(r)') \in Nat /\ Cardinality(Holding(r)) \in Nat
  BY <1>1, FS_Subset, FS_CardinalityType
<1>4. enqueued[r] \in Nat /\ faults \in Nat /\ Cardinality(Sweeps) \in Nat
  BY SweepSets, BroadcastAssumption DEF BroadcastAssumption, TypeOK
<1>5. PICK k \in Nat : k = Cardinality(Sweeps) * (faults + 1)
  BY <1>4
<1>6. enqueued[r] + Cardinality(Holding(r)) <= k
  BY <1>5 DEF OwedTo
<1>7. enqueued[r] + Cardinality(Holding(r)') <= k
  BY <1>2, <1>3, <1>4, <1>6
<1> QED BY <1>5, <1>7 DEF OwedTo

\* A failure adds a sweep's worth of messages for each slot.
LEMMA OwedAfterFault ==
  ASSUME NEW r \in Recipients, TypeOK, OwedTo(r), recipient' = recipient,
         enqueued' = enqueued, faults' = faults + 1, Holding(r)' \subseteq Holding(r)
  PROVE  OwedTo(r)'
<1>1. IsFiniteSet(Holding(r)) /\ Holding(r)' \in SUBSET Holding(r)
  BY SweepSets DEF Holding
<1>2. Cardinality(Holding(r)') <= Cardinality(Holding(r))
  BY <1>1, FS_Subset
<1>3. Cardinality(Holding(r)') \in Nat /\ Cardinality(Holding(r)) \in Nat
  BY <1>1, FS_Subset, FS_CardinalityType
<1>4. enqueued[r] \in Nat /\ faults \in Nat /\ Cardinality(Sweeps) \in Nat
  BY SweepSets, BroadcastAssumption DEF BroadcastAssumption, TypeOK
<1>5. Cardinality(Marking(r)) \in Nat /\ Cardinality(Marking(r)) <= Cardinality(Sweeps)
  BY SweepSets DEF Marking
<1>6. Cardinality(Marking(r)') \in Nat
  <2>1. Marking(r)' \in SUBSET Sweeps BY DEF Marking
  <2> QED BY <2>1, SweepSets
<1>7. PICK n \in Nat : n = Cardinality(Sweeps)
  BY <1>4
<1>8. PICK k \in Nat : k = n * faults
  BY <1>4, <1>7, Budget
<1>9. n * (faults + 1) = k + n /\ n * (faults + 1 + 1) = k + n + n
  <2>1. n * (faults + 1) = k + n
    BY <1>4, <1>8, Budget
  <2>2. faults + 1 \in Nat
    BY <1>4
  <2>3. n * (faults + 1 + 1) = n * (faults + 1) + n
    BY <2>2, Budget
  <2> QED BY <2>1, <2>3
<1>10. recipient[r] = "PENDING" => enqueued[r] <= Cardinality(Marking(r)) + k
  BY <1>7, <1>8 DEF OwedTo
<1>11. enqueued[r] + Cardinality(Holding(r)) <= k + n
  BY <1>7, <1>9 DEF OwedTo
<1>12. recipient[r] = "PENDING" => enqueued[r] <= Cardinality(Marking(r)') + (k + n)
  BY <1>4, <1>5, <1>6, <1>7, <1>10
<1>13. enqueued[r] + Cardinality(Holding(r)') <= k + n + n
  BY <1>2, <1>3, <1>4, <1>11
<1> QED BY <1>7, <1>9, <1>12, <1>13 DEF OwedTo

\* What the steps other than queueing, marking and failing do to the sweeps.
LEMMA CalmStep ==
  ASSUME RepeatsInv, Quiet, faults' = faults
  PROVE  \A r \in Recipients : OwedTo(r)'
<1> USE DEF rows, world, history
<1>0. TypeOK /\ sweep \in [Sweeps -> Sweep]
      /\ recipient \in [Recipients -> {"PENDING", "SENT", "FAILED"}] /\ faults \in Nat
  BY BroadcastAssumption DEF BroadcastAssumption, RepeatsInv, TypeOK
<1>1. /\ enqueued' = enqueued
      /\ \A r \in Recipients : recipient'[r] = "PENDING" => recipient[r] = "PENDING"
      /\ \A t \in Sweeps : sweep'[t].pc = "add" => sweep'[t] = sweep[t]
  BY <1>0, QuietStep
<1> DEFINE Calm == \A t \in Sweeps : /\ sweep[t].pc = "add" => sweep'[t] = sweep[t]
                                     /\ sweep'[t].batch \subseteq sweep[t].batch
<1>2. ASSUME Calm PROVE \A r \in Recipients : OwedTo(r)'
  <2> TAKE r \in Recipients
  <2>1. Marking(r)' = Marking(r)
    BY <1>1, <1>2 DEF Marking
  <2>2. Holding(r)' \subseteq Holding(r)
    BY <1>2 DEF Holding
  <2>3. enqueued'[r] = enqueued[r] /\ OwedTo(r)
    BY <1>1 DEF RepeatsInv
  <2>4. recipient'[r] = "PENDING" => recipient[r] = "PENDING"
    BY <1>1
  <2> QED BY <1>0, <2>1, <2>2, <2>3, <2>4, OwedKept
<1>3. ASSUME NEW s \in Sweeps, ReadDue(s) PROVE Calm
  BY <1>0, <1>3 DEF ReadDue, Begun, At
<1>4. ASSUME NEW s \in Sweeps, EndSweep(s) PROVE Calm
  BY <1>0, <1>4 DEF EndSweep, NoSweep, At
<1>5. ASSUME NEW s \in Sweeps,
             \/ MarkSending(s) \/ CountRemaining(s) \/ CloseBatch(s)
             \/ \E b \in Broadcasts : Skip(s, b) \/ Take(s, b)
             \/ \E r \in Recipients : Reject(s, r)
      PROVE  Calm
  <2>0. sweep[s] \in Sweep BY <1>0
  <2>1. /\ sweep[s].pc # "add" /\ sweep'[s].batch \subseteq sweep[s].batch
        /\ \A t \in Sweeps \ {s} : sweep'[t] = sweep[t]
    <3>1. CASE MarkSending(s) \/ CountRemaining(s) \/ CloseBatch(s)
      BY <1>0, <2>0, <3>1 DEF MarkSending, CountRemaining, CloseBatch, At, Sweep
    <3>2. CASE \E b \in Broadcasts : Skip(s, b) \/ Take(s, b)
      BY <1>0, <2>0, <3>2 DEF Skip, Take, At, Sweep
    <3>3. CASE \E r \in Recipients : Reject(s, r)
      BY <1>0, <2>0, <3>3 DEF Reject, At, Sweep
    <3> QED BY <1>5, <3>1, <3>2, <3>3
  <2> QED BY <2>1
<1>6. ASSUME NEW b \in Broadcasts,
             \/ CreateBroadcast(b) \/ TimeComes(b) \/ CancelBroadcast(b)
             \/ CancelRecipients(b) \/ CancelFails(b)
      PROVE  Calm
  BY <1>6 DEF CreateBroadcast, TimeComes, CancelBroadcast, CancelRecipients, CancelFails
<1>7. ASSUME NEW o \in Orgs, NumberDrops(o) \/ NumberPairs(o) PROVE Calm
  BY <1>7 DEF NumberDrops, NumberPairs
<1>8. ASSUME UNCHANGED vars PROVE Calm
  BY <1>8 DEF vars
<1>9. ~WorkerRestarts /\ \A s \in Sweeps : ~SweepFails(s)
  BY <1>0 DEF WorkerRestarts, SweepFails, Fault
<1> HIDE DEF Calm
<1>10. ASSUME NEW s \in Sweeps, ReadPending(s) PROVE \A r \in Recipients : OwedTo(r)'
  <2> TAKE r \in Recipients
  <2>0. sweep[s] \in Sweep /\ OwedTo(r)
    BY <1>0 DEF RepeatsInv
  <2>1. PICK B \in Taken(Pending(sweep[s].b), BatchSize) :
          sweep' = [sweep EXCEPT ![s].pc = "each", ![s].batch = B]
    BY <1>10 DEF ReadPending
  <2>2. /\ sweep'[s].batch = B /\ sweep'[s].pc = "each" /\ sweep[s].pc = "read"
        /\ \A t \in Sweeps \ {s} : sweep'[t] = sweep[t]
    BY <1>0, <1>10, <2>0, <2>1 DEF Sweep, ReadPending, At
  <2>3. Marking(r)' = Marking(r)
    BY <2>2 DEF Marking
  <2>4. enqueued'[r] = enqueued[r] /\ recipient'[r] = recipient[r]
    BY <1>1, <1>10 DEF ReadPending
  <2>5. CASE r \notin B
    <3>1. Holding(r)' \subseteq Holding(r)
      BY <2>2, <2>5 DEF Holding
    <3> QED BY <1>0, <2>0, <2>3, <2>4, <3>1, OwedKept
  <2>6. CASE r \in B
    <3>1. recipient[r] = "PENDING"
      BY <2>6, TakenType DEF Pending
    <3>2. Holding(r)' \in SUBSET Sweeps /\ Marking(r) \in SUBSET Sweeps
      BY DEF Holding, Marking
    <3>3. Holding(r)' \cap Marking(r) = {}
      BY <2>2 DEF Holding, Marking, RepeatsInv, At
    <3>4. Cardinality(Holding(r)') + Cardinality(Marking(r)) <= Cardinality(Sweeps)
      BY <3>2, <3>3, DisjointSweeps
    <3>5. /\ Cardinality(Holding(r)') \in Nat /\ Cardinality(Marking(r)) \in Nat
          /\ Cardinality(Sweeps) \in Nat /\ enqueued[r] \in Nat
      BY <1>0, <3>2, SweepSets DEF TypeOK
    <3>6. PICK k \in Nat : k = Cardinality(Sweeps) * faults
      BY <1>0, <3>5, Budget
    <3>7. Cardinality(Sweeps) * (faults + 1) = k + Cardinality(Sweeps)
      BY <1>0, <3>5, <3>6, Budget
    <3>8. enqueued[r] <= Cardinality(Marking(r)) + k
      BY <2>0, <3>1, <3>6 DEF OwedTo
    <3>9. enqueued[r] + Cardinality(Holding(r)') <= k + Cardinality(Sweeps)
      BY <3>4, <3>5, <3>8
    <3> QED BY <2>3, <2>4, <3>6, <3>7, <3>8, <3>9 DEF OwedTo
  <2> QED BY <2>5, <2>6
<1> QED BY <1>2, <1>3, <1>4, <1>5, <1>6, <1>7, <1>8, <1>9, <1>10 DEF Quiet

LEMMA OwedStep == RepeatsInv /\ [Next]_vars => \A r \in Recipients : OwedTo(r)'
<1> SUFFICES ASSUME RepeatsInv, [Next]_vars PROVE \A r \in Recipients : OwedTo(r)'
  OBVIOUS
<1>0. TypeOK /\ sweep \in [Sweeps -> Sweep] /\ enqueued \in [Recipients -> Nat]
      /\ recipient \in [Recipients -> {"PENDING", "SENT", "FAILED"}] /\ faults \in Nat
  BY BroadcastAssumption DEF BroadcastAssumption, RepeatsInv, TypeOK
<1>1. CASE Quiet /\ faults' = faults
  BY <1>1, CalmStep
<1>2. ASSUME Quiet, faults' # faults PROVE \A r \in Recipients : OwedTo(r)'
  <2>1. \/ WorkerRestarts \/ \E s \in Sweeps : SweepFails(s)
        \/ \E b \in Broadcasts : CancelFails(b)
    <3>1. ASSUME NEW s \in Sweeps,
                 \/ ReadDue(s) \/ EndSweep(s) \/ MarkSending(s) \/ ReadPending(s) \/ CountRemaining(s)
          PROVE  faults' = faults
      BY <3>1 DEF ReadDue, EndSweep, MarkSending, ReadPending, CountRemaining, world
    <3>2. ASSUME NEW s \in Sweeps, CloseBatch(s) PROVE faults' = faults
      BY <3>2 DEF CloseBatch, world
    <3>3. ASSUME NEW s \in Sweeps, NEW b \in Broadcasts, Skip(s, b) \/ Take(s, b) PROVE faults' = faults
      BY <3>3 DEF Skip, Take, world
    <3>4. ASSUME NEW s \in Sweeps, NEW r \in Recipients, Reject(s, r) PROVE faults' = faults
      BY <3>4 DEF Reject, world
    <3>5. ASSUME NEW b \in Broadcasts,
                 CreateBroadcast(b) \/ TimeComes(b) \/ CancelBroadcast(b) \/ CancelRecipients(b)
          PROVE  faults' = faults
      BY <3>5 DEF CreateBroadcast, TimeComes, CancelBroadcast, CancelRecipients, world
    <3>6. ASSUME NEW o \in Orgs, NumberDrops(o) \/ NumberPairs(o) PROVE faults' = faults
      BY <3>6 DEF NumberDrops, NumberPairs
    <3>7. UNCHANGED vars => faults' = faults
      BY DEF vars, world
    <3> QED BY ONLY <1>2, <3>1, <3>2, <3>3, <3>4, <3>5, <3>6, <3>7 DEF Quiet
  <2>2. faults' = faults + 1 /\ recipient' = recipient /\ enqueued' = enqueued
    BY <2>1 DEF WorkerRestarts, SweepFails, CancelFails, Fault, rows, history
  <2>3. \A t \in Sweeps : sweep'[t] = sweep[t] \/ sweep'[t].batch = {}
    BY <1>0, <2>1 DEF WorkerRestarts, SweepFails, CancelFails, NoSweep
  <2> TAKE r \in Recipients
  <2>4. Holding(r)' \subseteq Holding(r) /\ OwedTo(r)
    BY <2>3 DEF Holding, RepeatsInv
  <2> QED BY <1>0, <2>2, <2>4, OwedAfterFault
<1>3. ASSUME NEW s \in Sweeps, NEW x \in Recipients, Enqueue(s, x)
      PROVE  \A r \in Recipients : OwedTo(r)'
  <2> TAKE r \in Recipients
  <2>0. sweep[s] \in Sweep /\ OwedTo(r)
    BY <1>0 DEF RepeatsInv
  <2>1. /\ sweep[s].pc = "each" /\ x \in sweep[s].batch
        /\ sweep'[s].pc = "add" /\ sweep'[s].r = x /\ sweep'[s].batch = sweep[s].batch \ {x}
        /\ \A t \in Sweeps \ {s} : sweep'[t] = sweep[t]
    BY <1>0, <1>3, <2>0 DEF Enqueue, At, Sweep
  <2>2. enqueued' = [enqueued EXCEPT ![x] = enqueued[x] + 1]
        /\ recipient' = recipient /\ faults' = faults
    BY <1>3 DEF Enqueue, rows, world
  <2>3. CASE r # x
    <3>1. Marking(r)' = Marking(r) /\ Holding(r)' \subseteq Holding(r)
      BY <2>1, <2>3 DEF Marking, Holding
    <3>2. enqueued'[r] = enqueued[r]
      BY <1>0, <2>2, <2>3
    <3> QED BY <1>0, <2>0, <2>2, <3>1, <3>2, OwedKept
  <2>4. CASE r = x
    <3>1. Holding(r)' = Holding(r) \ {s} /\ s \in Holding(r)
      BY <2>1, <2>4 DEF Holding
    <3>2. Marking(r)' = Marking(r) \cup {s} /\ s \notin Marking(r)
      BY <2>1, <2>4 DEF Marking
    <3>3. IsFiniteSet(Holding(r)) /\ IsFiniteSet(Marking(r))
      BY SweepSets DEF Holding, Marking
    <3>4. Cardinality(Holding(r)') = Cardinality(Holding(r)) - 1
      BY <3>1, <3>3, FS_RemoveElement
    <3>5. Cardinality(Marking(r)') = Cardinality(Marking(r)) + 1
      BY <3>2, <3>3, FS_AddElement
    <3>6. /\ Cardinality(Holding(r)) \in Nat /\ Cardinality(Marking(r)) \in Nat
          /\ enqueued[r] \in Nat /\ Cardinality(Sweeps) \in Nat
      BY <1>0, <3>3, FS_CardinalityType, SweepSets
    <3>7. enqueued'[r] = enqueued[r] + 1
      BY <1>0, <2>2, <2>4
    <3>8. PICK k \in Nat : k = Cardinality(Sweeps) * faults
      BY <1>0, <3>6, Budget
    <3>9. PICK m \in Nat : m = Cardinality(Sweeps) * (faults + 1)
      BY <1>0, <3>6
    <3>10. recipient[r] = "PENDING" => enqueued[r] <= Cardinality(Marking(r)) + k
      BY <2>0, <3>8 DEF OwedTo
    <3>11. enqueued[r] + Cardinality(Holding(r)) <= m
      BY <2>0, <3>9 DEF OwedTo
    <3>12. recipient'[r] = "PENDING" => enqueued'[r] <= Cardinality(Marking(r)') + k
      BY <2>2, <3>5, <3>6, <3>7, <3>10
    <3>13. enqueued'[r] + Cardinality(Holding(r)') <= m
      BY <3>4, <3>6, <3>7, <3>11
    <3> QED BY <2>2, <3>8, <3>9, <3>12, <3>13 DEF OwedTo
  <2> QED BY <2>3, <2>4
<1>4. ASSUME NEW s \in Sweeps, MarkSent(s) PROVE \A r \in Recipients : OwedTo(r)'
  <2> TAKE r \in Recipients
  <2>0. sweep[s] \in Sweep /\ OwedTo(r)
    BY <1>0 DEF RepeatsInv
  <2>1. /\ sweep[s].pc = "add" /\ sweep'[s].pc = "each" /\ sweep'[s].batch = sweep[s].batch
        /\ \A t \in Sweeps \ {s} : sweep'[t] = sweep[t]
    BY <1>0, <1>4, <2>0 DEF MarkSent, At, Sweep
  <2>2. recipient' = [recipient EXCEPT ![sweep[s].r] = "SENT"]
        /\ enqueued' = enqueued /\ faults' = faults
    BY <1>4 DEF MarkSent, history, world
  <2>3. Holding(r)' = Holding(r)
    BY <2>1 DEF Holding
  <2>4. CASE r = sweep[s].r
    BY <1>0, <2>0, <2>2, <2>3, <2>4 DEF OwedTo
  <2>5. CASE r # sweep[s].r
    <3>1. Marking(r)' = Marking(r)
      BY <2>1, <2>5 DEF Marking
    <3>2. recipient'[r] = recipient[r]
      BY <1>0, <2>2, <2>5
    <3> QED BY <1>0, <2>0, <2>2, <2>3, <3>1, <3>2, OwedKept
  <2> QED BY <2>4, <2>5
<1> QED BY <1>1, <1>2, <1>3, <1>4, StepKinds

LEMMA RepeatsStep == RepeatsInv /\ [Next]_vars => RepeatsInv'
<1> SUFFICES ASSUME RepeatsInv, [Next]_vars PROVE RepeatsInv'
  OBVIOUS
<1>0. TypeOK /\ TypeOK' /\ sweep \in [Sweeps -> Sweep]
  BY TypeStep DEF RepeatsInv, TypeOK
<1>1. \A r \in Recipients : OwedTo(r)'
  BY OwedStep
<1>2. ASSUME NEW t \in Sweeps, sweep'[t].pc = "add" PROVE sweep'[t].r \notin sweep'[t].batch
  <2>1. CASE Quiet
    BY <1>0, <1>2, <2>1, QuietStep DEF RepeatsInv, At
  <2>2. ASSUME NEW s \in Sweeps, NEW r \in Recipients, Enqueue(s, r)
        PROVE  sweep'[t].r \notin sweep'[t].batch
    <3>0. sweep[s] \in Sweep BY <1>0
    <3>1. /\ sweep'[s].r = r /\ sweep'[s].batch = sweep[s].batch \ {r}
          /\ \A x \in Sweeps \ {s} : sweep'[x] = sweep[x]
      BY <1>0, <2>2, <3>0 DEF Enqueue, Sweep
    <3> QED BY <1>2, <3>1 DEF RepeatsInv, At
  <2>3. ASSUME NEW s \in Sweeps, MarkSent(s) PROVE sweep'[t].r \notin sweep'[t].batch
    <3>0. sweep[s] \in Sweep BY <1>0
    <3>1. sweep'[s].pc = "each" /\ \A x \in Sweeps \ {s} : sweep'[x] = sweep[x]
      BY <1>0, <2>3, <3>0 DEF MarkSent, Sweep
    <3> QED BY <1>2, <3>1 DEF RepeatsInv, At
  <2> QED BY <2>1, <2>2, <2>3, StepKinds
<1> QED BY <1>0, <1>1, <1>2 DEF RepeatsInv, At

LEMMA RepeatsInit == Init => RepeatsInv
<1> SUFFICES ASSUME Init PROVE RepeatsInv
  OBVIOUS
<1>1. TypeOK
  BY TypeInit
<1>2. \A s \in Sweeps : sweep[s].pc = "idle" /\ sweep[s].batch = {}
  BY DEF Init, NoSweep
<1>3. ASSUME NEW r \in Recipients PROVE OwedTo(r)
  <2>1. Marking(r) = {} /\ Holding(r) = {}
    BY <1>2 DEF Marking, Holding
  <2>2. enqueued[r] = 0 /\ faults = 0
    BY DEF Init
  <2>3. Cardinality(Sweeps) \in Nat /\ Cardinality({}) = 0
    BY SweepSets, FS_EmptySet
  <2> QED BY <2>1, <2>2, <2>3 DEF OwedTo
<1> QED BY <1>1, <1>2, <1>3 DEF RepeatsInv, At

\* A recipient gets at most one message for each sweep slot, and as many again
\* for each failure.
THEOREM RepeatsBounded == Spec => []RepeatsAreBounded
<1>1. ASSUME RepeatsInv PROVE RepeatsAreBounded
  <2> SUFFICES ASSUME NEW r \in Recipients
               PROVE  enqueued[r] <= Cardinality(Sweeps) * (faults + 1)
    BY DEF RepeatsAreBounded
  <2>1. enqueued[r] \in Nat /\ faults \in Nat /\ Cardinality(Sweeps) \in Nat
    BY <1>1, SweepSets, BroadcastAssumption DEF BroadcastAssumption, RepeatsInv, TypeOK
  <2>2. Cardinality(Holding(r)) \in Nat
    BY SweepSets DEF Holding
  <2>3. PICK m \in Nat : m = Cardinality(Sweeps) * (faults + 1)
    BY <2>1
  <2>4. enqueued[r] + Cardinality(Holding(r)) <= m
    BY <1>1, <2>3 DEF RepeatsInv, OwedTo
  <2> QED BY <2>1, <2>2, <2>3, <2>4
<1>2. RepeatsInv => RepeatsAreBounded
  BY <1>1
<1>3. Spec => Init /\ [][Next]_vars
  BY DEF Spec
<1> QED BY <1>2, <1>3, RepeatsInit, RepeatsStep, PTL
-------------------------------------------------------------------------------
(* What is sent after a cancel *)

\* The messages of b that sweeps have still to queue, in the batches they read.
Held(b) == {x \in Sweeps \X Recipients : x[2] \in sweep[x[1]].batch /\ BroadcastOf[x[2]] = b}

\* Once the cancel of b is over nobody reads another batch of it: what it leaks is
\* what is held by then.
LeakInv ==
  /\ TypeOK
  /\ \A s \in Sweeps : Cardinality(sweep[s].batch) <= BatchSize
  /\ \A b \in Broadcasts :
       IF cancel[b] = "done"
       THEN Pending(b) = {} /\ leaked[b] + Cardinality(Held(b)) <= Cardinality(Sweeps) * BatchSize
       ELSE leaked[b] = 0

\* A set of recipients has a size, which numbers it.
LEMMA RecipientSets ==
  ASSUME NEW T \in SUBSET Recipients
  PROVE  /\ IsFiniteSet(T) /\ Cardinality(T) \in Nat
         /\ ExistsBijection(1..Cardinality(T), T)
BY FS_Subset, FS_CardinalityType, BroadcastAssumption DEF BroadcastAssumption

LEMMA HeldIsFinite ==
  ASSUME NEW b PROVE IsFiniteSet(Held(b)) /\ Cardinality(Held(b)) \in Nat
<1>1. IsFiniteSet(Sweeps \X Recipients)
  BY FS_Product, BroadcastAssumption DEF BroadcastAssumption
<1>2. Held(b) \in SUBSET (Sweeps \X Recipients)
  BY DEF Held
<1> QED BY <1>1, <1>2, FS_Subset, FS_CardinalityType

\* A batch of at most n can be told apart by numbers up to n.
LEMMA Numbered ==
  ASSUME NEW T \in SUBSET Recipients, NEW n \in Nat, Cardinality(T) <= n
  PROVE  \E g \in [T -> 1..n] : IsInjective(g)
<1>1. Cardinality(T) \in Nat /\ ExistsBijection(1..Cardinality(T), T)
  BY RecipientSets
<1>2. PICK f \in Bijection(1..Cardinality(T), T) : TRUE
  BY <1>1 DEF ExistsBijection
<1>3. /\ f \in [1..Cardinality(T) -> T]
      /\ \A t \in T : \E i \in 1..Cardinality(T) : f[i] = t
  BY <1>2 DEF Bijection, Injection, Surjection
<1> DEFINE g == [t \in T |-> CHOOSE i \in 1..Cardinality(T) : f[i] = t]
<1>4. \A t \in T : g[t] \in 1..Cardinality(T) /\ f[g[t]] = t
  BY <1>3
<1>5. \A t \in T : g[t] \in 1..n
  BY <1>1, <1>4
<1>6. g \in [T -> 1..n]
  BY <1>5
<1>7. \A t, u \in T : g[t] = g[u] => t = u
  BY <1>4
<1> HIDE DEF g
<1> QED BY <1>6, <1>7 DEF IsInjective

\* So the sweeps hold at most a batch each.
LEMMA HeldBound ==
  ASSUME LeakInv, NEW b
  PROVE  Cardinality(Held(b)) <= Cardinality(Sweeps) * BatchSize
<1>1. BatchSize \in Nat /\ IsFiniteSet(Sweeps) /\ IsFiniteSet(1..BatchSize) /\ Cardinality(1..BatchSize) = BatchSize
  BY FS_Interval, BroadcastAssumption DEF BroadcastAssumption
<1>2. \A s \in Sweeps : sweep[s].batch \in SUBSET Recipients
  BY DEF LeakInv, TypeOK, Sweep
<1>3. \A s \in Sweeps : \E g \in [sweep[s].batch -> 1..BatchSize] : IsInjective(g)
  BY <1>1, <1>2, Numbered DEF LeakInv
<1> DEFINE F == [s \in Sweeps |-> CHOOSE g \in [sweep[s].batch -> 1..BatchSize] : IsInjective(g)]
<1>4. \A s \in Sweeps : F[s] \in [sweep[s].batch -> 1..BatchSize] /\ IsInjective(F[s])
  BY <1>3
<1> HIDE DEF F
<1> DEFINE h == [x \in Held(b) |-> <<x[1], F[x[1]][x[2]]>>]
<1>5. \A x \in Held(b) : /\ x[1] \in Sweeps /\ x[2] \in sweep[x[1]].batch /\ x = <<x[1], x[2]>>
  BY DEF Held
<1>6. \A x \in Held(b) : F[x[1]][x[2]] \in 1..BatchSize
  BY <1>4, <1>5
<1>7. h \in [Held(b) -> Sweeps \X (1..BatchSize)]
  BY <1>5, <1>6
<1>8. ASSUME NEW x \in Held(b), NEW y \in Held(b), h[x] = h[y] PROVE x = y
  <2>1. x[1] = y[1] /\ F[x[1]][x[2]] = F[x[1]][y[2]]
    BY <1>8
  <2>2. x[2] = y[2]
    BY <1>4, <1>5, <2>1 DEF IsInjective
  <2> QED BY <1>5, <2>1, <2>2
<1> HIDE DEF h
<1>9. h \in Injection(Held(b), Sweeps \X (1..BatchSize))
  BY <1>7, <1>8 DEF Injection, IsInjective
<1>10. /\ IsFiniteSet(Sweeps \X (1..BatchSize))
       /\ Cardinality(Sweeps \X (1..BatchSize)) = Cardinality(Sweeps) * BatchSize
  BY <1>1, FS_Product
<1> QED BY <1>9, <1>10, FS_Injection

\* A batch that is read is of pending recipients, and no longer than it may be.
LEMMA TakenSize ==
  ASSUME NEW S \in SUBSET Recipients, NEW T \in Taken(S, BatchSize)
  PROVE  T \subseteq S /\ Cardinality(T) <= BatchSize
<1>1. BatchSize \in Nat /\ Cardinality(S) \in Nat
  BY RecipientSets, BroadcastAssumption DEF BroadcastAssumption
<1> QED BY <1>1 DEF Taken

\* Batches are only worked off or read.
LEMMA BatchStep ==
  ASSUME TypeOK, [Next]_vars, NEW t \in Sweeps
  PROVE  \/ sweep'[t].batch \subseteq sweep[t].batch
         \/ sweep'[t].batch \subseteq Pending(sweep[t].b) /\ Cardinality(sweep'[t].batch) <= BatchSize
<1> USE DEF rows, world, history
<1>0. sweep \in [Sweeps -> Sweep] /\ sweep[t] \in Sweep
  BY DEF TypeOK
<1>1. ASSUME NEW s \in Sweeps, ReadDue(s) \/ EndSweep(s) \/ SweepFails(s) \/ WorkerRestarts
      PROVE  sweep'[t].batch \subseteq sweep[t].batch
  BY <1>0, <1>1 DEF ReadDue, Begun, EndSweep, SweepFails, WorkerRestarts, NoSweep
<1>2. ASSUME NEW s \in Sweeps, \/ MarkSending(s) \/ CountRemaining(s) \/ CloseBatch(s) \/ MarkSent(s)
                               \/ \E b \in Broadcasts : Skip(s, b) \/ Take(s, b)
                               \/ \E r \in Recipients : Reject(s, r) \/ Enqueue(s, r)
      PROVE  sweep'[t].batch \subseteq sweep[t].batch
  <2>1. CASE t # s
    <3>1. sweep'[t] = sweep[t]
      BY <1>0, <1>2, <2>1 DEF MarkSending, CountRemaining, CloseBatch, MarkSent, Skip, Take, Reject, Enqueue
    <3> QED BY <3>1
  <2>2. CASE t = s
    <3>1. CASE MarkSending(s) \/ CountRemaining(s) \/ CloseBatch(s) \/ MarkSent(s)
      BY <1>0, <2>2, <3>1 DEF MarkSending, CountRemaining, CloseBatch, MarkSent, Sweep
    <3>2. CASE \E b \in Broadcasts : Skip(s, b) \/ Take(s, b)
      BY <1>0, <2>2, <3>2 DEF Skip, Take, Sweep
    <3>3. CASE \E r \in Recipients : Reject(s, r) \/ Enqueue(s, r)
      BY <1>0, <2>2, <3>3 DEF Reject, Enqueue, Sweep
    <3> QED BY <1>2, <3>1, <3>2, <3>3
  <2> QED BY <2>1, <2>2
<1>3. ASSUME NEW s \in Sweeps, ReadPending(s)
      PROVE  \/ sweep'[t].batch \subseteq sweep[t].batch
             \/ sweep'[t].batch \subseteq Pending(sweep[t].b) /\ Cardinality(sweep'[t].batch) <= BatchSize
  <2> PICK B \in Taken(Pending(sweep[s].b), BatchSize) :
        sweep' = [sweep EXCEPT ![s].pc = "each", ![s].batch = B]
    BY <1>3 DEF ReadPending
  <2>1. Pending(sweep[s].b) \in SUBSET Recipients
    BY DEF Pending, Of
  <2>2. B \subseteq Pending(sweep[s].b) /\ Cardinality(B) <= BatchSize
    BY <2>1, TakenSize
  <2>3. sweep'[t].batch = IF t = s THEN B ELSE sweep[t].batch
    BY <1>0 DEF Sweep
  <2> QED BY <2>2, <2>3
<1>4. ASSUME NEW b \in Broadcasts, \/ CreateBroadcast(b) \/ TimeComes(b) \/ CancelBroadcast(b)
                                   \/ CancelRecipients(b) \/ CancelFails(b)
      PROVE  sweep' = sweep
  BY <1>4 DEF CreateBroadcast, TimeComes, CancelBroadcast, CancelRecipients, CancelFails
<1>5. ASSUME NEW o \in Orgs, NumberDrops(o) \/ NumberPairs(o) PROVE sweep' = sweep
  BY <1>5 DEF NumberDrops, NumberPairs
<1>6. CASE UNCHANGED vars
  BY <1>6 DEF vars
<1> QED BY <1>1, <1>2, <1>3, <1>4, <1>5, <1>6 DEF Next, SweepStep

\* The steps of a sweep touch no cancel, and only a queued job leaks.
LEMMA SweepKeepsCancels ==
  ASSUME NEW s \in Sweeps, SweepStep(s)
  PROVE  /\ cancel' = cancel
         /\ leaked' = leaked \/ \E r \in Recipients : Enqueue(s, r)
<1> USE DEF world, history
<1>1. ASSUME NEW b \in Broadcasts, Skip(s, b) PROVE UNCHANGED <<cancel, leaked>>
  BY <1>1 DEF Skip
<1>2. ASSUME NEW b \in Broadcasts, Take(s, b) PROVE UNCHANGED <<cancel, leaked>>
  BY <1>2 DEF Take
<1>3. ASSUME EndSweep(s) PROVE UNCHANGED <<cancel, leaked>>
  BY <1>3 DEF EndSweep
<1>4. ASSUME MarkSending(s) PROVE UNCHANGED <<cancel, leaked>>
  BY <1>4 DEF MarkSending
<1>5. ASSUME ReadPending(s) PROVE UNCHANGED <<cancel, leaked>>
  BY <1>5 DEF ReadPending
<1>6. ASSUME NEW r \in Recipients, Reject(s, r) PROVE UNCHANGED <<cancel, leaked>>
  BY <1>6 DEF Reject
<1>7. ASSUME NEW r \in Recipients, Enqueue(s, r) PROVE cancel' = cancel
  BY <1>7 DEF Enqueue
<1>8. ASSUME MarkSent(s) PROVE UNCHANGED <<cancel, leaked>>
  BY <1>8 DEF MarkSent
<1>9. ASSUME CountRemaining(s) PROVE UNCHANGED <<cancel, leaked>>
  BY <1>9 DEF CountRemaining
<1>10. ASSUME CloseBatch(s) PROVE UNCHANGED <<cancel, leaked>>
  BY <1>10 DEF CloseBatch
<1> QED
  BY <1>1, <1>2, <1>3, <1>4, <1>5, <1>6, <1>7, <1>8, <1>9, <1>10 DEF SweepStep

\* A cancel goes on until it is done, and only a queued job leaks.
LEMMA LeakSources ==
  ASSUME TypeOK, [Next]_vars
  PROVE  /\ leaked' = leaked \/ \E s \in Sweeps, r \in Recipients : Enqueue(s, r)
         /\ \A b \in Broadcasts : cancel[b] = "done" => cancel'[b] = "done"
         /\ \A b \in Broadcasts : cancel'[b] = "done" => cancel[b] = "done" \/ CancelRecipients(b)
<1> USE DEF rows, world, history
<1>1. CASE UNCHANGED <<cancel, leaked>>
  BY <1>1
<1>2. ASSUME NEW s \in Sweeps, ReadDue(s) PROVE UNCHANGED <<cancel, leaked>>
  BY <1>2 DEF ReadDue
<1>3. ASSUME NEW s \in Sweeps, SweepFails(s) PROVE UNCHANGED <<cancel, leaked>>
  BY <1>3 DEF SweepFails
<1>4. ASSUME NEW o \in Orgs, NumberDrops(o) \/ NumberPairs(o) PROVE UNCHANGED <<cancel, leaked>>
  BY <1>4 DEF NumberDrops, NumberPairs
<1>5. ASSUME WorkerRestarts PROVE UNCHANGED <<cancel, leaked>>
  BY <1>5 DEF WorkerRestarts
<1>6. ASSUME UNCHANGED vars PROVE UNCHANGED <<cancel, leaked>>
  BY <1>6 DEF vars
<1>7. ASSUME NEW c \in Broadcasts, CreateBroadcast(c) \/ TimeComes(c) PROVE UNCHANGED <<cancel, leaked>>
  BY <1>7 DEF CreateBroadcast, TimeComes
<1>8. ASSUME NEW c \in Broadcasts, CancelBroadcast(c) \/ CancelRecipients(c) \/ CancelFails(c)
      PROVE  /\ leaked' = leaked
             /\ \A b \in Broadcasts : cancel[b] = "done" => cancel'[b] = "done"
             /\ \A b \in Broadcasts : cancel'[b] = "done" => cancel[b] = "done" \/ CancelRecipients(b)
  <2>0. cancel \in [Broadcasts -> {"none", "recipients", "done", "broken"}]
    BY DEF TypeOK
  <2>1. CASE CancelBroadcast(c)
    BY <2>0, <2>1 DEF CancelBroadcast
  <2>2. CASE CancelRecipients(c)
    <3>1. leaked' = leaked /\ cancel' = [cancel EXCEPT ![c] = "done"]
      BY <2>2 DEF CancelRecipients
    <3> QED BY <2>0, <2>2, <3>1
  <2>3. CASE CancelFails(c)
    BY <2>0, <2>3 DEF CancelFails
  <2> QED BY <1>8, <2>1, <2>2, <2>3
<1> QED
  BY <1>1, <1>2, <1>3, <1>4, <1>5, <1>6, <1>7, <1>8, SweepKeepsCancels DEF Next

LEMMA LeakStep == LeakInv /\ [Next]_vars => LeakInv'
<1> SUFFICES ASSUME LeakInv, [Next]_vars PROVE LeakInv'
  OBVIOUS
<1>0. /\ TypeOK /\ TypeOK' /\ sweep \in [Sweeps -> Sweep] /\ leaked \in [Broadcasts -> Nat]
      /\ BatchSize \in Nat /\ Cardinality(Sweeps) \in Nat
  BY TypeStep, SweepSets, BroadcastAssumption DEF LeakInv, TypeOK, BroadcastAssumption
<1>1. ASSUME NEW t \in Sweeps PROVE Cardinality(sweep'[t].batch) <= BatchSize
  <2>1. CASE sweep'[t].batch \subseteq sweep[t].batch
    <3>1. sweep[t].batch \in SUBSET Recipients /\ sweep'[t].batch \in SUBSET Recipients
      BY <1>0, <2>1 DEF Sweep
    <3>2. IsFiniteSet(sweep[t].batch) /\ Cardinality(sweep[t].batch) \in Nat /\ Cardinality(sweep'[t].batch) \in Nat
      BY <3>1, RecipientSets
    <3>3. Cardinality(sweep'[t].batch) <= Cardinality(sweep[t].batch) /\ Cardinality(sweep[t].batch) <= BatchSize
      BY <2>1, <3>2, FS_Subset DEF LeakInv
    <3> QED BY <1>0, <3>2, <3>3
  <2> QED BY <1>0, <2>1, BatchStep
<1>2. ASSUME NEW b \in Broadcasts, cancel'[b] # "done" PROVE leaked'[b] = 0
  <2>1. cancel[b] # "done" /\ leaked[b] = 0
    BY <1>0, <1>2, LeakSources DEF LeakInv
  <2>2. ASSUME NEW s \in Sweeps, NEW r \in Recipients, Enqueue(s, r) PROVE leaked'[b] = 0
    <3>1. leaked' = [leaked EXCEPT ![BroadcastOf[r]] =
                       IF cancel[BroadcastOf[r]] = "done" THEN leaked[BroadcastOf[r]] + 1 ELSE leaked[BroadcastOf[r]]]
      BY <2>2 DEF Enqueue
    <3> QED BY <1>0, <2>1, <3>1
  <2> QED BY <1>0, <2>1, <2>2, LeakSources
<1>3. ASSUME NEW b \in Broadcasts, cancel'[b] = "done", cancel[b] # "done"
      PROVE  Pending(b)' = {} /\ leaked'[b] + Cardinality(Held(b)') <= Cardinality(Sweeps) * BatchSize
  <2>1. CancelRecipients(b) /\ leaked[b] = 0
    BY <1>0, <1>3, LeakSources DEF LeakInv
  <2>2. Held(b)' = Held(b) /\ leaked' = leaked
    BY <2>1 DEF CancelRecipients, Held, history
  <2>3. Pending(b)' = {}
    BY <2>1 DEF CancelRecipients, Pending, Of
  <2>4. Cardinality(Held(b)) \in Nat /\ Cardinality(Held(b)) <= Cardinality(Sweeps) * BatchSize
    BY HeldBound, HeldIsFinite
  <2>5. leaked'[b] + Cardinality(Held(b)') = Cardinality(Held(b))
    BY <2>1, <2>2, <2>4
  <2> QED BY <2>3, <2>4, <2>5
<1>4. ASSUME NEW b \in Broadcasts, cancel[b] = "done"
      PROVE  Pending(b)' = {} /\ leaked'[b] + Cardinality(Held(b)') <= Cardinality(Sweeps) * BatchSize
  <2>0. /\ Pending(b) = {} /\ leaked[b] \in Nat /\ Cardinality(Held(b)) \in Nat /\ IsFiniteSet(Held(b))
        /\ leaked[b] + Cardinality(Held(b)) <= Cardinality(Sweeps) * BatchSize
    BY <1>0, <1>4, HeldIsFinite DEF LeakInv
  <2>1. Pending(b)' = {}
    BY <1>0, <2>0, PendingShrinks
  <2>2. ASSUME NEW x \in Held(b)' PROVE x \in Held(b)
    <3>1. x \in Sweeps \X Recipients /\ x[1] \in Sweeps /\ x[2] \in sweep'[x[1]].batch /\ BroadcastOf[x[2]] = b
      BY <2>2 DEF Held
    <3>2. x[2] \notin Pending(sweep[x[1]].b)
      BY <2>0, <3>1 DEF Pending, Of
    <3>3. x[2] \in sweep[x[1]].batch
      BY <1>0, <3>1, <3>2, BatchStep
    <3> QED BY <3>1, <3>3 DEF Held
  <2>3. PICK m : m = Cardinality(Sweeps) * BatchSize /\ m \in Nat
    BY <1>0
  <2>4. Held(b)' \in SUBSET Held(b)
    BY <2>2
  <2>5. Cardinality(Held(b)') \in Nat /\ Cardinality(Held(b)') <= Cardinality(Held(b))
    BY <2>0, <2>4, FS_Subset, FS_CardinalityType
  <2>6. CASE leaked'[b] = leaked[b]
    BY <2>0, <2>1, <2>3, <2>5, <2>6
  <2>7. ASSUME NEW s \in Sweeps, NEW r \in Recipients, Enqueue(s, r), leaked'[b] # leaked[b]
        PROVE  leaked'[b] + Cardinality(Held(b)') <= m
    <3>1. leaked' = [leaked EXCEPT ![BroadcastOf[r]] =
                       IF cancel[BroadcastOf[r]] = "done" THEN leaked[BroadcastOf[r]] + 1 ELSE leaked[BroadcastOf[r]]]
      BY <2>7 DEF Enqueue
    <3>2. BroadcastOf[r] = b /\ leaked'[b] = leaked[b] + 1
      BY <1>0, <2>7, <3>1
    <3>3. sweep[s] \in Sweep
      BY <1>0
    <3>4. r \in sweep[s].batch /\ sweep'[s].batch = sweep[s].batch \ {r}
      BY <1>0, <2>7, <3>3 DEF Enqueue, Sweep
    <3>5. <<s, r>> \in Held(b)
      BY <3>2, <3>4 DEF Held
    <3>6. <<s, r>> \notin Held(b)'
      BY <3>4 DEF Held
    <3>7. Held(b)' \in SUBSET (Held(b) \ {<<s, r>>})
      BY <2>4, <3>6
    <3>8. IsFiniteSet(Held(b) \ {<<s, r>>}) /\ Cardinality(Held(b) \ {<<s, r>>}) = Cardinality(Held(b)) - 1
      BY <2>0, <3>5, FS_RemoveElement
    <3>9. Cardinality(Held(b)') <= Cardinality(Held(b)) - 1
      BY <3>7, <3>8, FS_Subset
    <3> QED BY <2>0, <2>3, <2>5, <3>2, <3>9
  <2> QED BY <1>0, <2>1, <2>3, <2>6, <2>7, LeakSources
<1> QED BY <1>0, <1>1, <1>2, <1>3, <1>4 DEF LeakInv

LEMMA LeakInit == Init => LeakInv
<1> SUFFICES ASSUME Init PROVE LeakInv
  OBVIOUS
<1>1. \A s \in Sweeps : sweep[s].batch = {}
  BY DEF Init, NoSweep
<1>2. Cardinality({}) <= BatchSize
  BY FS_EmptySet, BroadcastAssumption DEF BroadcastAssumption
<1>3. \A b \in Broadcasts : cancel[b] = "none" /\ leaked[b] = 0
  BY DEF Init
<1> QED BY <1>1, <1>2, <1>3, TypeInit DEF LeakInv

\* For any number of sweeps and failures, what goes out after a cancel is over was
\* in a batch that some sweep had read by then.
THEOREM CancelsLeakBatches == Spec => []CancelLeaksBatches
<1>1. LeakInv => CancelLeaksBatches
  <2> SUFFICES ASSUME LeakInv, NEW b \in Broadcasts
               PROVE  leaked[b] <= Cardinality(Sweeps) * BatchSize
    BY DEF CancelLeaksBatches
  <2>1. leaked[b] \in Nat /\ BatchSize \in Nat /\ Cardinality(Sweeps) \in Nat /\ Cardinality(Held(b)) \in Nat
    BY SweepSets, HeldIsFinite, BroadcastAssumption DEF LeakInv, TypeOK, BroadcastAssumption
  <2>2. PICK m \in Nat : m = Cardinality(Sweeps) * BatchSize
    BY <2>1
  <2>3. CASE cancel[b] = "done"
    <3>1. leaked[b] + Cardinality(Held(b)) <= m
      BY <2>2, <2>3 DEF LeakInv
    <3> QED BY <2>1, <2>2, <3>1
  <2>4. CASE cancel[b] # "done"
    BY <2>1, <2>2, <2>4 DEF LeakInv
  <2> QED BY <2>3, <2>4
<1>2. Spec => Init /\ [][Next]_vars
  BY DEF Spec
<1> QED BY <1>1, <1>2, LeakInit, LeakStep, PTL
===============================================================================

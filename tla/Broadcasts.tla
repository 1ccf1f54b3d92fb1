------------------------------ MODULE Broadcasts ------------------------------
(***************************************************************************)
(* Broadcasts: campaigns created and cancelled on the dashboard            *)
(* (broadcasts/actions.ts) and pushed onto the outbound queue by the       *)
(* worker's sweep (process-broadcasts.ts).                                 *)
(*                                                                         *)
(* setInterval starts a sweep every minute whether or not the previous one *)
(* has ended (worker/index.ts:61-64), so several sweeps interleave between *)
(* their awaits.  A sweep carries what it read: the due list with each     *)
(* row's status, then one batch of pending recipients.  The message text,  *)
(* the upsert of the lead and the spacing of the jobs are left out.        *)
(***************************************************************************)
EXTENDS Naturals, FiniteSets, FiniteSetsExt

CONSTANTS
  NULL,
  Broadcasts,
  Recipients,
  Orgs,
  BroadcastOf,   \* BroadcastOf[r]: the broadcast recipient r belongs to
  OrgOf,         \* OrgOf[b]: the organization of broadcast b
  Unroutable,    \* recipients whose phone has fewer than nine digits
  Sweeps,        \* slots for sweeps under way at once
  DueLimit,      \* how many due broadcasts one sweep takes (10)
  BatchSize,     \* recipients handled per sweep per broadcast (200)
  MaxFaults      \* bound: steps that fail, worker restarts included

ASSUME BroadcastAssumption ==
  /\ NULL \notin Broadcasts /\ NULL \notin Recipients
  /\ BroadcastOf \in [Recipients -> Broadcasts]
  /\ OrgOf \in [Broadcasts -> Orgs]
  /\ Unroutable \subseteq Recipients
  /\ IsFiniteSet(Recipients) /\ IsFiniteSet(Broadcasts) /\ IsFiniteSet(Sweeps)
  /\ DueLimit \in Nat \ {0} /\ BatchSize \in Nat \ {0} /\ MaxFaults \in Nat

VARIABLES
  status,      \* Broadcast.status, or "none" before it is created
  waiting,     \* broadcasts whose scheduledAt is still ahead
  sentCount,   \* Broadcast.sentCount
  failedCount, \* Broadcast.failedCount
  recipient,   \* BroadcastRecipient.status
  connected,   \* organizations with a CONNECTED WhatsApp connection
  sweep,       \* the sweeps under way
  cancel,      \* how far the cancel request of each broadcast has come
  faults,
  enqueued,    \* history: jobs added to the outbound queue, per recipient
  leaked       \* history: jobs added after the cancel was over, per broadcast

rows == <<status, waiting, sentCount, failedCount, recipient>>
world == <<connected, cancel, faults>>
history == <<enqueued, leaked>>
vars == <<rows, sweep, world, history>>

-------------------------------------------------------------------------------
(* Sweeps *)

Sweep == [pc: {"idle", "next", "start", "read", "each", "add", "more", "last"},
          due: SUBSET Broadcasts,    \* read and not yet handled
          fresh: SUBSET Broadcasts,  \* those of them read as SCHEDULED
          b: Broadcasts \cup {NULL},
          batch: SUBSET Recipients, r: Recipients \cup {NULL},
          sent: Nat, failed: Nat]
NoSweep == [pc |-> "idle", due |-> {}, fresh |-> {}, b |-> NULL, batch |-> {},
            r |-> NULL, sent |-> 0, failed |-> 0]

Init ==
  /\ status = [b \in Broadcasts |-> "none"]
  /\ waiting = {}
  /\ sentCount = [b \in Broadcasts |-> 0]
  /\ failedCount = [b \in Broadcasts |-> 0]
  /\ recipient = [r \in Recipients |-> "PENDING"]
  /\ connected = Orgs
  /\ sweep = [s \in Sweeps |-> NoSweep]
  /\ cancel = [b \in Broadcasts |-> "none"]
  /\ faults = 0
  /\ enqueued = [r \in Recipients |-> 0]
  /\ leaked = [b \in Broadcasts |-> 0]

At(s, pc) == sweep[s].pc = pc
Of(b) == {r \in Recipients : BroadcastOf[r] = b}
Pending(b) == {r \in Of(b) : recipient[r] = "PENDING"}
OnlyScheduled == {b \in Broadcasts : status[b] = "SCHEDULED"}
Unfinished == {b \in Broadcasts : status[b] \in {"SCHEDULED", "SENDING"}}

\* What findMany returns with a take and no order: any n of them, or all.
Taken(S, n) == {T \in SUBSET S : Cardinality(T) = n \/ (T = S /\ Cardinality(S) < n)}

Begun(D) == [pc |-> "next", due |-> D, fresh |-> {b \in D : status[b] = "SCHEDULED"},
             b |-> NULL, batch |-> {}, r |-> NULL, sent |-> 0, failed |-> 0]

ReadDue(s) ==
  /\ At(s, "idle") /\ Unfinished \ waiting # {}
  /\ \E D \in Taken(Unfinished \ waiting, DueLimit) :
       sweep' = [sweep EXCEPT ![s] = Begun(D)]
  /\ UNCHANGED <<rows, world, history>>

\* A broadcast whose organization has no connected number waits.
Skip(s, b) ==
  /\ At(s, "next") /\ b \in sweep[s].due /\ OrgOf[b] \notin connected
  /\ sweep' = [sweep EXCEPT ![s].due = @ \ {b}]
  /\ UNCHANGED <<rows, world, history>>

Take(s, b) ==
  /\ At(s, "next") /\ b \in sweep[s].due /\ OrgOf[b] \in connected
  /\ sweep' = [sweep EXCEPT ![s].pc = IF b \in sweep[s].fresh THEN "start" ELSE "read",
                            ![s].due = @ \ {b}, ![s].b = b]
  /\ UNCHANGED <<rows, world, history>>

EndSweep(s) ==
  /\ At(s, "next") /\ sweep[s].due = {}
  /\ sweep' = [sweep EXCEPT ![s] = NoSweep]
  /\ UNCHANGED <<rows, world, history>>

\* The row is marked by its id alone, whatever its status is by now.
MarkSending(s) ==
  /\ At(s, "start")
  /\ status' = [status EXCEPT ![sweep[s].b] = "SENDING"]
  /\ sweep' = [sweep EXCEPT ![s].pc = "read"]
  /\ UNCHANGED <<waiting, sentCount, failedCount, recipient, world, history>>

ReadUnlimited(s) ==
  /\ At(s, "read")
  /\ sweep' = [sweep EXCEPT ![s].pc = "each", ![s].batch = Pending(sweep[s].b)]
  /\ UNCHANGED <<rows, world, history>>

ReadEveryone(s) ==
  /\ At(s, "read")
  /\ \E B \in Taken(Of(sweep[s].b), BatchSize) :
       sweep' = [sweep EXCEPT ![s].pc = "each", ![s].batch = B]
  /\ UNCHANGED <<rows, world, history>>

ReadPending(s) ==
  /\ At(s, "read")
  /\ \E B \in Taken(Pending(sweep[s].b), BatchSize) :
       sweep' = [sweep EXCEPT ![s].pc = "each", ![s].batch = B]
  /\ UNCHANGED <<rows, world, history>>

Reject(s, r) ==
  /\ At(s, "each") /\ r \in sweep[s].batch \cap Unroutable
  /\ recipient' = [recipient EXCEPT ![r] = "FAILED"]
  /\ sweep' = [sweep EXCEPT ![s].batch = @ \ {r}, ![s].failed = @ + 1]
  /\ UNCHANGED <<status, waiting, sentCount, failedCount, world, history>>

Enqueue(s, r) ==
  /\ At(s, "each") /\ r \in sweep[s].batch \ Unroutable
  /\ enqueued' = [enqueued EXCEPT ![r] = @ + 1]
  /\ leaked' = [leaked EXCEPT ![BroadcastOf[r]] = IF cancel[BroadcastOf[r]] = "done" THEN @ + 1 ELSE @]
  /\ sweep' = [sweep EXCEPT ![s].pc = "add", ![s].batch = @ \ {r}, ![s].r = r, ![s].sent = @ + 1]
  /\ UNCHANGED <<rows, world>>

MarkSent(s) ==
  /\ At(s, "add")
  /\ recipient' = [recipient EXCEPT ![sweep[s].r] = "SENT"]
  /\ sweep' = [sweep EXCEPT ![s].pc = "each", ![s].r = NULL]
  /\ UNCHANGED <<status, waiting, sentCount, failedCount, world, history>>

CountNothing(s) ==
  /\ At(s, "each") /\ sweep[s].batch = {}
  /\ sweep' = [sweep EXCEPT ![s].pc = "last"]
  /\ UNCHANGED <<rows, world, history>>

CountRemaining(s) ==
  /\ At(s, "each") /\ sweep[s].batch = {}
  /\ sweep' = [sweep EXCEPT ![s].pc = IF Pending(sweep[s].b) = {} THEN "last" ELSE "more"]
  /\ UNCHANGED <<rows, world, history>>

CloseBatch(s) ==
  LET b == sweep[s].b IN
  /\ sweep[s].pc \in {"more", "last"}
  /\ sentCount' = [sentCount EXCEPT ![b] = @ + sweep[s].sent]
  /\ failedCount' = [failedCount EXCEPT ![b] = @ + sweep[s].failed]
  /\ status' = [status EXCEPT ![b] = IF At(s, "last") THEN "SENT" ELSE @]
  /\ sweep' = [sweep EXCEPT ![s].pc = "next", ![s].b = NULL, ![s].sent = 0, ![s].failed = 0]
  /\ UNCHANGED <<waiting, recipient, world, history>>

-------------------------------------------------------------------------------
(* The dashboard *)

CreateBroadcast(b) ==
  /\ status[b] = "none"
  /\ status' = [status EXCEPT ![b] = "SCHEDULED"]
  /\ waiting' \in {waiting, waiting \cup {b}}
  /\ UNCHANGED <<sentCount, failedCount, recipient, sweep, world, history>>

\* The cancel button, which an old page shows long after: two updates.
CancelBroadcast(b) ==
  /\ status[b] # "none" /\ cancel[b] = "none"
  /\ status' = [status EXCEPT ![b] = IF b \in Unfinished THEN "CANCELLED" ELSE @]
  /\ cancel' = [cancel EXCEPT ![b] = "recipients"]
  /\ UNCHANGED <<waiting, sentCount, failedCount, recipient, sweep, connected, faults, history>>

CancelRecipients(b) ==
  /\ cancel[b] = "recipients"
  /\ recipient' = [r \in Recipients |-> IF r \in Pending(b) THEN "FAILED" ELSE recipient[r]]
  /\ cancel' = [cancel EXCEPT ![b] = "done"]
  /\ UNCHANGED <<status, waiting, sentCount, failedCount, sweep, connected, faults, history>>

-------------------------------------------------------------------------------
(* The environment *)

TimeComes(b) ==
  /\ b \in waiting /\ waiting' = waiting \ {b}
  /\ UNCHANGED <<status, sentCount, failedCount, recipient, sweep, world, history>>

NumberDrops(o) ==
  /\ o \in connected /\ connected' = connected \ {o}
  /\ UNCHANGED <<rows, sweep, cancel, faults, history>>

NumberPairs(o) ==
  /\ o \notin connected /\ connected' = connected \cup {o}
  /\ UNCHANGED <<rows, sweep, cancel, faults, history>>

Fault == faults < MaxFaults /\ faults' = faults + 1

\* A call of the sweep throws: the interval's catch logs it and the sweep is over.
SweepFails(s) ==
  /\ ~At(s, "idle") /\ Fault
  /\ sweep' = [sweep EXCEPT ![s] = NoSweep]
  /\ UNCHANGED <<rows, connected, cancel, history>>

WorkerRestarts ==
  /\ \E s \in Sweeps : ~At(s, "idle")
  /\ Fault
  /\ sweep' = [s \in Sweeps |-> NoSweep]
  /\ UNCHANGED <<rows, connected, cancel, history>>

CancelFails(b) ==
  /\ cancel[b] = "recipients" /\ Fault
  /\ cancel' = [cancel EXCEPT ![b] = "broken"]
  /\ UNCHANGED <<rows, connected, sweep, history>>

SweepStep(s) ==
  \/ \E b \in Broadcasts : Skip(s, b) \/ Take(s, b)
  \/ EndSweep(s) \/ MarkSending(s) \/ ReadPending(s)
  \/ \E r \in Recipients : Reject(s, r) \/ Enqueue(s, r)
  \/ MarkSent(s) \/ CountRemaining(s) \/ CloseBatch(s)

Next ==
  \/ \E s \in Sweeps : ReadDue(s) \/ SweepStep(s) \/ SweepFails(s)
  \/ \E b \in Broadcasts : \/ CreateBroadcast(b) \/ TimeComes(b)
                           \/ CancelBroadcast(b) \/ CancelRecipients(b) \/ CancelFails(b)
  \/ \E o \in Orgs : NumberDrops(o) \/ NumberPairs(o)
  \/ WorkerRestarts

\* The interval keeps firing, awaited calls return, and scheduled times come.
Fairness ==
  /\ \A s \in Sweeps : WF_vars(ReadDue(s)) /\ WF_vars(SweepStep(s))
  /\ \A b \in Broadcasts : WF_vars(TimeComes(b))

Spec == Init /\ [][Next]_vars /\ Fairness
-------------------------------------------------------------------------------
(* Properties *)

\* A sweep is at a broadcast or between two, and its batch is that broadcast's.
AtWork(q) ==
  /\ q.pc \in {"idle", "next"} <=> q.b = NULL
  /\ q.pc \notin {"each", "add"} => q.batch = {}
  /\ q.batch \subseteq Of(q.b)
  /\ q.pc = "add" => q.r \in Of(q.b)

\* Rows, sweeps and histories have their types, and what a sweep still has to
\* handle belongs to the broadcast it is at (process-broadcasts.ts:41-67).
TypeOK ==
  /\ status \in [Broadcasts -> {"none", "SCHEDULED", "SENDING", "SENT", "CANCELLED"}]
  /\ waiting \subseteq Broadcasts
  /\ sentCount \in [Broadcasts -> Nat] /\ failedCount \in [Broadcasts -> Nat]
  /\ recipient \in [Recipients -> {"PENDING", "SENT", "FAILED"}]
  /\ connected \subseteq Orgs
  /\ sweep \in [Sweeps -> Sweep]
  /\ cancel \in [Broadcasts -> {"none", "recipients", "done", "broken"}]
  /\ faults \in 0..MaxFaults
  /\ enqueued \in [Recipients -> Nat] /\ leaked \in [Broadcasts -> Nat]
  /\ \A s \in Sweeps : AtWork(sweep[s])

\* "A worker restart mid-broadcast loses nothing": wherever sweeps are cut off,
\* a recipient shown as sent has had a job on the queue
\* (process-broadcasts.ts:24-27).
SentWasEnqueued ==
  \A r \in Recipients : recipient[r] = "SENT" => enqueued[r] > 0

\* A broadcast shown as sent has nobody left to send to, although the count
\* that decides it is taken in one step and written in another, and the row is
\* written by several sweeps and the cancel button (process-broadcasts.ts:108).
SentLeavesNobody ==
  \A b \in Broadcasts : status[b] = "SENT" => Pending(b) = {}

\* What the broadcast page shows as sent has gone out: each recipient, and with
\* a broadcast all of them (process-broadcasts.ts:102-119).
ShownAsSent == SentWasEnqueued /\ SentLeavesNobody

\* The same person gets a broadcast more than once only because sweeps overlap
\* or are cut off between the job and the mark, once for each
\* (process-broadcasts.ts:90-105).
RepeatsAreBounded ==
  \A r \in Recipients : enqueued[r] <= Cardinality(Sweeps) * (faults + 1)

\* After a cancel is over the sweeps send at most the batches they had read
\* (broadcasts/actions.ts:58-69).
CancelLeaksBatches ==
  \A b \in Broadcasts : leaked[b] <= Cardinality(Sweeps) * BatchSize

\* A broadcast is sent in the end, unless it is cancelled, once its
\* organization's number stays connected: a sweep picks up the due broadcasts
\* every minute (worker/index.ts:60, process-broadcasts.ts:28-30).
SentWhenConnected ==
  \A b \in Broadcasts :
    <>[](OrgOf[b] \in connected) =>
      (status[b] = "SCHEDULED" ~> status[b] \in {"SENT", "CANCELLED"})
===============================================================================

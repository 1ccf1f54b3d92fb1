--------------------------------- MODULE Usage ---------------------------------
(***************************************************************************)
(* The monthly message cap (apps/gateway/src/usage.ts) in front of         *)
(* everything the gateway sends: the outbound queue's concurrent consumers *)
(* and the REST handlers of server.ts.  canSendAndCount reads the month's  *)
(* count and increments it in two calls; the message leaves after that.    *)
(***************************************************************************)
EXTENDS Naturals, FiniteSets

CONSTANTS
  NULL,
  Queued,     \* messages put on the outbound queue
  Posted,     \* messages sent by a REST call: a test message, a group welcome
  Senders,    \* consumers of the queue and REST handlers that run at once
  Limit,      \* monthlyMessages of the organization's plan
  Months,     \* bound: the calendar months looked at, 0..n
  MaxRestarts \* bound: gateway restarts

ASSUME UsageAssumption ==
  /\ NULL \notin Queued \cup Posted /\ Queued \cap Posted = {}
  /\ IsFiniteSet(Senders) /\ Senders # {}
  /\ Limit \in Nat /\ Months \subseteq Nat /\ 0 \in Months
  /\ MaxRestarts \in Nat

VARIABLES
  month,     \* the calendar
  usage,     \* usage[m]: MessageUsage.count of month m
  sender,    \* the senders
  message,   \* where each message is
  sent,      \* history: sent[m], messages that left on the account of month m
  restarts

usageVars == <<month, usage, sender, message, sent, restarts>>

Messages == Queued \cup Posted
Sender == [pc: {"idle", "check", "count", "send"}, message: Messages \cup {NULL}, month: Months]
IdleSender == [pc |-> "idle", message |-> NULL, month |-> 0]

UsageTypeOK ==
  /\ month \in Months
  /\ usage \in [Months -> Nat] /\ sent \in [Months -> Nat]
  /\ sender \in [Senders -> Sender]
  /\ message \in [Messages -> {"unborn", "waiting", "taken", "sent", "failed", "dropped"}]
  /\ restarts \in Nat

UsageInit ==
  /\ month = 0
  /\ usage = [m \in Months |-> 0] /\ sent = [m \in Months |-> 0]
  /\ sender = [s \in Senders |-> IdleSender]
  /\ message = [m \in Messages |-> "unborn"]
  /\ restarts = 0

Becomes(m, state) == message' = [message EXCEPT ![m] = state]
Frees(s) == sender' = [sender EXCEPT ![s] = IdleSender]

\* outboundQueue.add by the worker, a sweep or a page.
Produce(m) ==
  /\ m \in Queued /\ message[m] = "unborn"
  /\ Becomes(m, "waiting")
  /\ UNCHANGED <<month, usage, sender, sent, restarts>>

\* A consumer takes a job; a REST call starts its handler.
Take(s, m) ==
  /\ sender[s].pc = "idle"
  /\ message[m] = IF m \in Queued THEN "waiting" ELSE "unborn"
  /\ sender' = [sender EXCEPT ![s] = [IdleSender EXCEPT !.pc = "check", !.message = m]]
  /\ Becomes(m, "taken")
  /\ UNCHANGED <<month, usage, sent, restarts>>

\* (mutant) the month at the cap still has room
AtCapLate(m) == usage[m] > Limit

\* usage.count >= limit: the job is dropped, the call answered with 402.
AtCap(m) == usage[m] >= Limit

Check(s) ==
  /\ sender[s].pc = "check"
  /\ IF AtCap(month)
     THEN Frees(s) /\ Becomes(sender[s].message, "dropped")
     ELSE /\ sender' = [sender EXCEPT ![s].pc = "count", ![s].month = month]
          /\ UNCHANGED message
  /\ UNCHANGED <<month, usage, sent, restarts>>

Count(s) ==
  /\ sender[s].pc = "count"
  /\ usage' = [usage EXCEPT ![sender[s].month] = @ + 1]
  /\ sender' = [sender EXCEPT ![s].pc = "send"]
  /\ UNCHANGED <<month, message, sent, restarts>>

\* The socket or Meta's API takes the message.
Accepted(s) ==
  LET ym == sender[s].month IN
  /\ Becomes(sender[s].message, "sent")
  /\ sent' = [sent EXCEPT ![ym] = @ + 1]

\* No connected session, no configuration, or Meta answers with an error.
Thrown(s) == Becomes(sender[s].message, "failed") /\ UNCHANGED sent

\* The provider takes the message or throws; it is counted either way, and a
\* failed job is not tried again.
Transmit(s) ==
  /\ sender[s].pc = "send"
  /\ Frees(s)
  /\ Accepted(s) \/ Thrown(s)
  /\ UNCHANGED <<month, usage, restarts>>

\* The gateway dies: jobs under way are found stalled and run again, calls are not.
Restart ==
  /\ restarts < MaxRestarts /\ restarts' = restarts + 1
  /\ sender' = [s \in Senders |-> IdleSender]
  /\ message' = [m \in Messages |-> IF message[m] # "taken" THEN message[m]
                                    ELSE IF m \in Queued THEN "waiting" ELSE "failed"]
  /\ UNCHANGED <<month, usage, sent>>

NewMonth ==
  /\ month + 1 \in Months /\ month' = month + 1
  /\ UNCHANGED <<usage, sender, message, sent, restarts>>

UsageNext ==
  \/ \E m \in Queued : Produce(m)
  \/ \E s \in Senders : \/ Check(s) \/ Count(s) \/ Transmit(s)
                        \/ \E m \in Messages : Take(s, m)
  \/ Restart
  \/ NewMonth

UsageSpec == UsageInit /\ [][UsageNext]_usageVars

-------------------------------------------------------------------------------
(* Properties *)

Counting(m) == {s \in Senders : sender[s].pc = "count" /\ sender[s].month = m}
Sending(m) == {s \in Senders : sender[s].pc = "send" /\ sender[s].month = m}

\* What CapHolds rests on: who has passed the check is still to be counted, and
\* who has been counted is still to send.
CapInv ==
  \A m \in Months : /\ usage[m] + Cardinality(Counting(m)) <= Limit + Cardinality(Senders) - 1
                    /\ sent[m] + Cardinality(Sending(m)) <= usage[m]

\* "A small over-shoot is possible under heavy concurrency" (usage.ts:13): the
\* count passes the cap by at most one less than the senders that run at once,
\* and no message leaves uncounted, across restarts and the turn of the month.
CapHolds ==
  \A m \in Months : /\ usage[m] <= Limit + Cardinality(Senders) - 1
                    /\ sent[m] <= usage[m]
=============================================================================

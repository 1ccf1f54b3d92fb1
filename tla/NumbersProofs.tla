----------------------------- MODULE NumbersProofs -----------------------------
(***************************************************************************)
(* Numbers, Usage and Contacts for every number of senders, tabs, numbers, *)
(* people, messages and failures.                                          *)
(*                                                                         *)
(* Both limits are checked in one call and used up in a later one.  The    *)
(* argument is the same: whoever passed the check found room, so what is   *)
(* used and what is about to be exceed the limit by at most the others.    *)
(* CapInv counts the senders between their check, their count and the      *)
(* send, RoomInv the tabs between their check and the row.                 *)
(*                                                                         *)
(* That nobody becomes two leads rests on what a job may count on while it *)
(* looks for its sender's contact: FitInv says that its addresses and the  *)
(* contact it has found are the sender's, BlurInv that, unless the sender  *)
(* is blurred, all the sender's jobs use one address and no contact is     *)
(* under the other.                                                        *)
(***************************************************************************)
EXTENDS Numbers, Contacts, FiniteSetTheorems, TLAPS

-------------------------------------------------------------------------------
(* The monthly cap *)

\* The size of a set of senders is a number, at most the number of senders.
LEMMA SendersBound ==
  ASSUME NEW S \in SUBSET Senders
  PROVE  /\ IsFiniteSet(S) /\ Cardinality(S) \in Nat
         /\ Cardinality(Senders) \in Nat /\ Cardinality(S) <= Cardinality(Senders)
<1>1. IsFiniteSet(Senders)
  BY UsageAssumption DEF UsageAssumption
<1>2. IsFiniteSet(S) /\ Cardinality(S) <= Cardinality(Senders)
  BY <1>1, FS_Subset
<1> QED
  BY <1>1, <1>2, FS_CardinalityType

\* There is a sender.
LEMMA SomeSender == Cardinality(Senders) \in Nat \ {0}
<1>1. IsFiniteSet(Senders) /\ Senders # {}
  BY UsageAssumption DEF UsageAssumption
<1> QED
  BY <1>1, FS_CardinalityType, FS_EmptySet

\* A sender that leaves a set of senders makes it one smaller.
LEMMA OneLess ==
  ASSUME NEW S \in SUBSET Senders, NEW s \in S, NEW T, T = S \ {s}
  PROVE  T \in SUBSET Senders /\ Cardinality(T) = Cardinality(S) - 1
<1>1. IsFiniteSet(S)
  BY SendersBound
<1> QED
  BY <1>1, FS_RemoveElement

\* A sender that joins one makes it one larger.
LEMMA OneMore ==
  ASSUME NEW S \in SUBSET Senders, NEW s \in Senders \ S, NEW T, T = S \cup {s}
  PROVE  T \in SUBSET Senders /\ Cardinality(T) = Cardinality(S) + 1
<1>1. IsFiniteSet(S)
  BY SendersBound
<1> QED
  BY <1>1, FS_AddElement

LEMMA UsageTypesInit == UsageInit => UsageTypeOK
BY UsageAssumption DEF UsageAssumption, UsageInit, UsageTypeOK, IdleSender, Sender

LEMMA UsageTypesNext == UsageTypeOK /\ [UsageNext]_usageVars => UsageTypeOK'
<1> SUFFICES ASSUME UsageTypeOK, [UsageNext]_usageVars PROVE UsageTypeOK'
  OBVIOUS
<1> USE UsageAssumption DEF UsageAssumption, UsageTypeOK, Sender, IdleSender, Becomes, Frees
<1>1. ASSUME NEW m \in Queued, Produce(m) PROVE UsageTypeOK'
  BY <1>1 DEF Produce, Messages
<1>2. ASSUME NEW s \in Senders, Check(s) PROVE UsageTypeOK'
  BY <1>2 DEF Check
<1>3. ASSUME NEW s \in Senders, Count(s) PROVE UsageTypeOK'
  BY <1>3 DEF Count
<1>4. ASSUME NEW s \in Senders, Transmit(s) PROVE UsageTypeOK'
  BY <1>4 DEF Transmit, Accepted, Thrown
<1>5. ASSUME NEW s \in Senders, NEW m \in Messages, Take(s, m) PROVE UsageTypeOK'
  BY <1>5 DEF Take
<1>6. ASSUME Restart PROVE UsageTypeOK'
  BY <1>6 DEF Restart
<1>7. ASSUME NewMonth PROVE UsageTypeOK'
  BY <1>7 DEF NewMonth
<1>8. ASSUME UNCHANGED usageVars PROVE UsageTypeOK'
  BY <1>8 DEF usageVars
<1> QED
  BY <1>1, <1>2, <1>3, <1>4, <1>5, <1>6, <1>7, <1>8 DEF UsageNext

\* Senders that go elsewhere than to "count" or "send" leave both sums no larger.
LEMMA FewerUnderWay ==
  ASSUME UsageTypeOK, CapInv, UNCHANGED <<usage, sent>>,
         \A m \in Months : /\ Counting(m)' \subseteq Counting(m)
                           /\ Sending(m)' \subseteq Sending(m)
  PROVE  CapInv'
<1> SUFFICES ASSUME NEW m \in Months
             PROVE  /\ usage[m] + Cardinality(Counting(m)') <= Limit + Cardinality(Senders) - 1
                    /\ sent[m] + Cardinality(Sending(m)') <= usage[m]
  BY DEF CapInv
<1>1. Counting(m) \in SUBSET Senders /\ Sending(m) \in SUBSET Senders
  BY DEF Counting, Sending
<1>2. /\ Cardinality(Counting(m)') <= Cardinality(Counting(m))
      /\ Cardinality(Sending(m)') <= Cardinality(Sending(m))
  BY <1>1, SendersBound, FS_Subset
<1>3. /\ Counting(m)' \in SUBSET Senders /\ Sending(m)' \in SUBSET Senders
  BY <1>1
<1>4. /\ Cardinality(Counting(m)') \in Nat /\ Cardinality(Sending(m)') \in Nat
      /\ Cardinality(Counting(m)) \in Nat /\ Cardinality(Sending(m)) \in Nat
      /\ Cardinality(Senders) \in Nat
  BY <1>1, <1>3, SendersBound
<1> QED
  BY <1>2, <1>4, UsageAssumption DEF CapInv, UsageTypeOK, UsageAssumption

\* The sums are bounded at first.
LEMMA CapInvInit == UsageInit => CapInv
<1> SUFFICES ASSUME UsageInit, NEW m \in Months
             PROVE  /\ usage[m] + Cardinality(Counting(m)) <= Limit + Cardinality(Senders) - 1
                    /\ sent[m] + Cardinality(Sending(m)) <= usage[m]
  BY DEF CapInv
<1>1. Counting(m) = {} /\ Sending(m) = {}
  BY DEF UsageInit, Counting, Sending, IdleSender
<1>2. Cardinality(Counting(m)) = 0 /\ Cardinality(Sending(m)) = 0
  BY <1>1, FS_EmptySet
<1>3. usage[m] = 0 /\ sent[m] = 0
  BY DEF UsageInit
<1> QED
  BY <1>2, <1>3, SomeSender, UsageAssumption DEF UsageAssumption

\* A sender let through found room in the month, so at most all senders are
\* between the check and the count.
LEMMA CheckKeeps ==
  ASSUME UsageTypeOK, CapInv, NEW s \in Senders, Check(s)
  PROVE  CapInv'
<1>1. CASE AtCap(month)
  BY <1>1, FewerUnderWay DEF Check, Frees, IdleSender, Counting, Sending, UsageTypeOK, Sender
<1>2. CASE ~AtCap(month)
  <2> SUFFICES ASSUME NEW m \in Months
               PROVE  /\ usage[m] + Cardinality(Counting(m)') <= Limit + Cardinality(Senders) - 1
                      /\ sent[m] + Cardinality(Sending(m)') <= usage[m]
    BY DEF Check, CapInv
  <2>1. Sending(m)' = Sending(m)
    BY <1>2 DEF Check, Sending, UsageTypeOK, Sender
  <2>2. sent[m] + Cardinality(Sending(m)') <= usage[m]
    BY <2>1 DEF CapInv
  <2>3. Counting(m)' \in SUBSET Senders
    BY DEF Counting
  <2>4. /\ Cardinality(Counting(m)') \in Nat /\ Cardinality(Senders) \in Nat
        /\ Cardinality(Counting(m)') <= Cardinality(Senders)
    BY <2>3, SendersBound
  <2>5. CASE m = month
    BY <1>2, <2>2, <2>4, <2>5, UsageAssumption DEF AtCap, UsageTypeOK, UsageAssumption
  <2>6. CASE m # month
    <3>1. Counting(m)' = Counting(m)
      BY <1>2, <2>6 DEF Check, Counting, UsageTypeOK, Sender
    <3> QED
      BY <2>2, <3>1 DEF CapInv
  <2> QED
    BY <2>5, <2>6
<1> QED
  BY <1>1, <1>2

\* Counting moves one sender from the first sum's set to the second's.
LEMMA CountKeeps ==
  ASSUME UsageTypeOK, CapInv, NEW s \in Senders, Count(s)
  PROVE  CapInv'
<1> SUFFICES ASSUME NEW m \in Months
             PROVE  /\ usage'[m] + Cardinality(Counting(m)') <= Limit + Cardinality(Senders) - 1
                    /\ sent[m] + Cardinality(Sending(m)') <= usage'[m]
  BY DEF Count, CapInv
<1>1. Counting(m) \in SUBSET Senders /\ Sending(m) \in SUBSET Senders
  BY DEF Counting, Sending
<1>2. /\ Cardinality(Counting(m)) \in Nat /\ Cardinality(Sending(m)) \in Nat
      /\ Cardinality(Senders) \in Nat
  BY <1>1, SendersBound
<1>3. CASE sender[s].month = m
  <2>1. s \in Counting(m) /\ s \in Senders \ Sending(m)
    BY <1>3 DEF Count, Counting, Sending
  <2>2. Counting(m)' = Counting(m) \ {s}
    BY DEF Count, Counting, UsageTypeOK, Sender
  <2>3. Sending(m)' = Sending(m) \cup {s}
    BY <1>3 DEF Count, Sending, UsageTypeOK, Sender
  <2>4. Cardinality(Counting(m)') = Cardinality(Counting(m)) - 1
    BY <1>1, <2>1, <2>2, OneLess
  <2>5. Cardinality(Sending(m)') = Cardinality(Sending(m)) + 1
    BY <1>1, <2>1, <2>3, OneMore
  <2>6. usage'[m] = usage[m] + 1
    BY <1>3 DEF Count, UsageTypeOK
  <2> QED
    BY <1>2, <2>4, <2>5, <2>6, UsageAssumption DEF CapInv, UsageTypeOK, UsageAssumption
<1>4. CASE sender[s].month # m
  <2>1. Counting(m)' = Counting(m) /\ Sending(m)' = Sending(m)
    BY <1>4 DEF Count, Counting, Sending, UsageTypeOK, Sender
  <2>2. usage'[m] = usage[m]
    BY <1>4 DEF Count, UsageTypeOK
  <2> QED
    BY <2>1, <2>2 DEF CapInv
<1> QED
  BY <1>3, <1>4

\* A message that leaves was counted.
LEMMA TransmitKeeps ==
  ASSUME UsageTypeOK, CapInv, NEW s \in Senders, Transmit(s)
  PROVE  CapInv'
<1> SUFFICES ASSUME NEW m \in Months
             PROVE  /\ usage[m] + Cardinality(Counting(m)') <= Limit + Cardinality(Senders) - 1
                    /\ sent'[m] + Cardinality(Sending(m)') <= usage[m]
  BY DEF Transmit, Accepted, Thrown, CapInv
<1>1. Counting(m) \in SUBSET Senders /\ Sending(m) \in SUBSET Senders
  BY DEF Counting, Sending
<1>2. Cardinality(Sending(m)) \in Nat
  BY <1>1, SendersBound
<1>3. Counting(m)' = Counting(m)
  BY DEF Transmit, Accepted, Thrown, Frees, IdleSender, Counting, UsageTypeOK, Sender
<1>4. CASE sender[s].month = m
  <2>1. s \in Sending(m)
    BY <1>4 DEF Transmit, Accepted, Thrown, Sending
  <2>2. Sending(m)' = Sending(m) \ {s}
    BY DEF Transmit, Accepted, Thrown, Frees, IdleSender, Sending, UsageTypeOK, Sender
  <2>3. Cardinality(Sending(m)') = Cardinality(Sending(m)) - 1
    BY <1>1, <2>1, <2>2, OneLess
  <2>4. sent'[m] \in {sent[m], sent[m] + 1}
    BY <1>4 DEF Transmit, Accepted, Thrown, UsageTypeOK
  <2> QED
    BY <1>2, <1>3, <2>3, <2>4 DEF CapInv, UsageTypeOK
<1>5. CASE sender[s].month # m
  <2>1. Sending(m)' = Sending(m)
    BY <1>5 DEF Transmit, Accepted, Thrown, Frees, IdleSender, Sending, UsageTypeOK, Sender
  <2>2. sent'[m] = sent[m]
    BY <1>5 DEF Transmit, Accepted, Thrown, UsageTypeOK
  <2> QED
    BY <1>3, <2>1, <2>2 DEF CapInv
<1> QED
  BY <1>4, <1>5

LEMMA CapInvNext == UsageTypeOK /\ CapInv /\ [UsageNext]_usageVars => CapInv'
<1> SUFFICES ASSUME UsageTypeOK, CapInv, [UsageNext]_usageVars PROVE CapInv'
  OBVIOUS
<1>1. ASSUME NEW m \in Queued, Produce(m) PROVE CapInv'
  BY <1>1, FewerUnderWay DEF Produce, Counting, Sending
<1>2. ASSUME NEW s \in Senders, NEW m \in Messages, Take(s, m) PROVE CapInv'
  BY <1>2, FewerUnderWay DEF Take, IdleSender, Counting, Sending, UsageTypeOK, Sender
<1>3. ASSUME Restart PROVE CapInv'
  BY <1>3, FewerUnderWay DEF Restart, IdleSender, Counting, Sending
<1>4. ASSUME NewMonth PROVE CapInv'
  BY <1>4, FewerUnderWay DEF NewMonth, Counting, Sending
<1>5. ASSUME UNCHANGED usageVars PROVE CapInv'
  BY <1>5, FewerUnderWay DEF usageVars, Counting, Sending
<1> QED
  BY <1>1, <1>2, <1>3, <1>4, <1>5, CheckKeeps, CountKeeps, TransmitKeeps DEF UsageNext

LEMMA CapInvSuffices == UsageTypeOK /\ CapInv => CapHolds
<1> SUFFICES ASSUME UsageTypeOK, CapInv, NEW m \in Months
             PROVE  /\ usage[m] <= Limit + Cardinality(Senders) - 1
                    /\ sent[m] <= usage[m]
  BY DEF CapHolds
<1>1. Counting(m) \in SUBSET Senders /\ Sending(m) \in SUBSET Senders
  BY DEF Counting, Sending
<1>2. /\ Cardinality(Counting(m)) \in Nat /\ Cardinality(Sending(m)) \in Nat
      /\ Cardinality(Senders) \in Nat
  BY <1>1, SendersBound
<1> QED
  BY <1>2, UsageAssumption DEF CapInv, UsageTypeOK, UsageAssumption

-------------------------------------------------------------------------------
(* The numbers *)

\* A request of the signup has its number registered before our app is
\* subscribed to it, and both before its row is created.
TabsReady ==
  \A t \in Tabs :
    /\ tab[t].pc \in {"exchange", "register", "subscribe"} => tab[t].signup
    /\ tab[t].pc \in {"limit", "exchange", "register", "subscribe", "create"} /\ tab[t].signup
         => tab[t].info \in Phones
    /\ tab[t].pc = "subscribe" => tab[t].info \in meta.registered
    /\ tab[t].pc = "create" /\ tab[t].signup => tab[t].info \in meta.registered \cap meta.subscribed

\* A job is for a row of the number its message was sent to.
JobsHaveRows == \A j \in jobs : j[1] \in Rows /\ conn[j[1]].phone = PhoneOf[j[2]]

\* Tabs that have passed the check and whose row is still to come.
Admitted == {t \in Tabs : tab[t].pc \in {"exchange", "register", "subscribe", "create"}}
RoomInv == Cardinality(Rows) + Cardinality(Admitted) <= MaxConns + Cardinality(Tabs) - 1

\* A tab goes from one place of the code to another.
LEMMA OneTab ==
  ASSUME TypeOK, NEW t \in Tabs, NEW x \in Tab, tab' = [tab EXCEPT ![t] = x]
  PROVE  tab' \in [Tabs -> Tab]
BY DEF TypeOK

LEMMA ButtonTypes ==
  ASSUME TypeOK, NEW t \in Tabs, Button(t)
  PROVE  tab' \in [Tabs -> Tab] /\ UNCHANGED <<conn, meta, jobs>> /\ faults' \in Nat
<1>0. tab[t] \in Tab /\ faults \in Nat
  BY DEF TypeOK
<1>1. ASSUME NEW p \in Phones, Launch(t, p) PROVE tab' \in [Tabs -> Tab]
  <2>1. [tab[t] EXCEPT !.pc = "popup", !.picked = p] \in Tab
    BY <1>0 DEF Tab
  <2> QED BY <1>1, <2>1, OneTab DEF Launch
<1>2. ASSUME Finish(t) PROVE tab' \in [Tabs -> Tab]
  <2>1. [tab[t] EXCEPT !.info = tab[t].picked] \in Tab
    BY <1>0 DEF Tab
  <2> QED BY <1>2, <2>1, OneTab DEF Finish
<1>3. ASSUME CancelPopup(t) PROVE tab' \in [Tabs -> Tab]
  <2>1. [tab[t] EXCEPT !.pc = "ready", !.picked = NULL] \in Tab
    BY <1>0 DEF Tab
  <2> QED BY <1>3, <2>1, OneTab DEF CancelPopup
<1>4. ASSUME Submit(t) PROVE tab' \in [Tabs -> Tab]
  <2>1. [tab[t] EXCEPT !.pc = "limit", !.signup = TRUE] \in Tab /\ FreshTab \in Tab
    BY <1>0 DEF Tab, FreshTab
  <2> QED BY <1>4, <2>1, OneTab DEF Submit, Answered
<1>5. UNCHANGED <<conn, meta, jobs>>
  BY DEF Button, Launch, Finish, CancelPopup, Submit
<1>6. UNCHANGED faults \/ Fails
  BY DEF Button, Launch, Finish, CancelPopup, Submit
<1>7. faults' \in Nat
  BY <1>0, <1>6 DEF Fails
<1> QED
  BY <1>1, <1>2, <1>3, <1>4, <1>5, <1>7 DEF Button

\* Meta's sets hold numbers because a tab has one by the time it asks.
LEMMA TypesNext == TypeOK /\ TabsReady /\ [Next]_vars => TypeOK'
<1> SUFFICES ASSUME TypeOK, TabsReady, [Next]_vars PROVE TypeOK'
  OBVIOUS
<1>1. UsageTypeOK'
  BY UsageTypesNext DEF TypeOK, Next, vars
<1>2. CASE UNCHANGED numberVars
  BY <1>1, <1>2 DEF TypeOK, numberVars
<1>3. CASE NumbersNext
  <2>1. ASSUME NEW t \in Tabs, Button(t) PROVE TypeOK'
    BY <1>1, <2>1, ButtonTypes DEF TypeOK
  <2>2. ASSUME NEW t \in Tabs, NEW pc \in {"exchange", "register", "subscribe", "create", "connect"}
        PROVE  [tab[t] EXCEPT !.pc = pc] \in Tab /\ FreshTab \in Tab
    BY DEF TypeOK, Tab, FreshTab
  <2>3. ASSUME NEW t \in Tabs, CheckLimit(t) \/ ExchangeCode(t) PROVE TypeOK'
    BY <1>1, <2>2, <2>3, OneTab DEF CheckLimit, ExchangeCode, GoesTo, Answered, TypeOK
  <2>4. ASSUME NEW t \in Tabs, RegisterPhone(t) \/ SubscribeApp(t) PROVE TypeOK'
    <3>1. tab' \in [Tabs -> Tab]
      BY <2>2, <2>4, OneTab DEF RegisterPhone, SubscribeApp, GoesTo, Answered
    <3>2. tab[t].info \in Phones
      BY <2>4 DEF RegisterPhone, SubscribeApp, At, TabsReady
    <3>3. CASE RegisterPhone(t)
      BY <1>1, <3>1, <3>2, <3>3 DEF RegisterPhone, TypeOK
    <3>4. CASE SubscribeApp(t)
      BY <1>1, <3>1, <3>2, <3>4 DEF SubscribeApp, TypeOK
    <3> QED BY <2>4, <3>3, <3>4
  <2>5. ASSUME NEW t \in Tabs, CreateRow(t) PROVE TypeOK'
    <3>1. tab' \in [Tabs -> Tab]
      BY <2>2, <2>5, OneTab DEF CreateRow, GoesTo
    <3>2. tab[t].info \in Phones \cup {NULL} /\ tab[t].signup \in BOOLEAN
      BY DEF TypeOK, Tab
    <3> QED BY <1>1, <2>5, <3>1, <3>2 DEF CreateRow, TypeOK, Row, Rows
  <2>6. ASSUME NEW t \in Tabs, ConnectRow(t) \/ MetaFails(t) \/ WebDies(t) PROVE TypeOK'
    <3>1. tab' \in [Tabs -> Tab]
      BY <2>2, <2>6, OneTab DEF ConnectRow, MetaFails, WebDies, Answered
    <3> QED BY <1>1, <2>6, <3>1 DEF ConnectRow, MetaFails, WebDies, Fails, TypeOK
  <2>7. ASSUME NEW t \in Tabs, NEW p \in Phones \cup {NULL}, AddByForm(t, p) PROVE TypeOK'
    <3>1. [FreshTab EXCEPT !.pc = "limit", !.info = p] \in Tab
      BY DEF FreshTab, Tab
    <3> QED BY <1>1, <2>7, <3>1, OneTab DEF AddByForm, TypeOK
  <2>8. ASSUME NEW c \in Conns, LogoutCloud(c) \/ ReconnectCloud(c) PROVE TypeOK'
    BY <1>1, <2>8 DEF LogoutCloud, ReconnectCloud, SetStatus, Row, Rows, TypeOK
  <2>9. ASSUME NEW i \in Incoming, Deliver(i) PROVE TypeOK'
    BY <1>1, <2>9 DEF Deliver, RowsOf, Rows, TypeOK
  <2> QED
    BY <1>3, <2>1, <2>3, <2>4, <2>5, <2>6, <2>7, <2>8, <2>9 DEF NumbersNext, Serve
<1> QED
  BY <1>2, <1>3 DEF Next, vars

\* A tab that moves on has what its next step asks for; the others lose nothing,
\* since Meta's sets only grow.
LEMMA TabMoves ==
  ASSUME TypeOK, TabsReady, NEW t \in Tabs, NEW x \in Tab, tab' = [tab EXCEPT ![t] = x],
         meta.registered \subseteq meta'.registered, meta.subscribed \subseteq meta'.subscribed,
         x.pc \in {"exchange", "register", "subscribe"} => x.signup,
         x.pc \in {"limit", "exchange", "register", "subscribe", "create"} /\ x.signup => x.info \in Phones,
         x.pc = "subscribe" => x.info \in meta'.registered,
         x.pc = "create" /\ x.signup => x.info \in meta'.registered \cap meta'.subscribed
  PROVE  TabsReady'
<1> SUFFICES ASSUME NEW u \in Tabs
    PROVE  /\ tab'[u].pc \in {"exchange", "register", "subscribe"} => tab'[u].signup
           /\ tab'[u].pc \in {"limit", "exchange", "register", "subscribe", "create"} /\ tab'[u].signup
                => tab'[u].info \in Phones
           /\ tab'[u].pc = "subscribe" => tab'[u].info \in meta'.registered
           /\ tab'[u].pc = "create" /\ tab'[u].signup => tab'[u].info \in meta'.registered \cap meta'.subscribed
  BY DEF TabsReady
<1>1. CASE u = t
  <2>1. tab'[u] = x
    BY <1>1 DEF TypeOK
  <2> QED BY <2>1
<1>2. CASE u # t
  <2>1. tab'[u] = tab[u]
    BY <1>2 DEF TypeOK
  <2> QED BY <2>1 DEF TabsReady
<1> QED BY <1>1, <1>2

LEMMA ReadyNext == TypeOK /\ TabsReady /\ [Next]_vars => TabsReady'
<1> SUFFICES ASSUME TypeOK, TabsReady, [Next]_vars PROVE TabsReady'
  OBVIOUS
<1>1. CASE UNCHANGED <<tab, meta>>
  BY <1>1 DEF TabsReady
<1>2. ASSUME NEW t \in Tabs, NEW p \in Phones, Launch(t, p) PROVE TabsReady'
  <2> DEFINE x == [tab[t] EXCEPT !.pc = "popup", !.picked = p]
  <2>1. x \in Tab /\ x.pc = "popup"
    BY DEF TypeOK, Tab
  <2> QED BY <1>2, <2>1, TabMoves DEF Launch
<1>3. ASSUME NEW t \in Tabs, Finish(t) \/ CancelPopup(t) PROVE TabsReady'
  <2>1. [tab[t] EXCEPT !.info = tab[t].picked] \in Tab /\ [tab[t] EXCEPT !.pc = "ready", !.picked = NULL] \in Tab
    BY DEF TypeOK, Tab
  <2>2. /\ [tab[t] EXCEPT !.info = tab[t].picked].pc = tab[t].pc
        /\ [tab[t] EXCEPT !.pc = "ready", !.picked = NULL].pc = "ready"
    BY DEF TypeOK, Tab
  <2>3. tab[t].pc = "popup"
    BY <1>3 DEF Finish, CancelPopup, At
  <2>4. CASE Finish(t)
    <3>1. tab' = [tab EXCEPT ![t] = [tab[t] EXCEPT !.info = tab[t].picked]]
      BY <2>4 DEF Finish
    <3> QED BY <2>1, <2>2, <2>3, <2>4, <3>1, TabMoves DEF Finish
  <2>5. CASE CancelPopup(t)
    BY <2>1, <2>2, <2>5, TabMoves DEF CancelPopup
  <2> QED BY <1>3, <2>4, <2>5
<1>4. ASSUME NEW t \in Tabs, tab' = [tab EXCEPT ![t] = FreshTab], UNCHANGED meta PROVE TabsReady'
  <2>1. FreshTab \in Tab /\ FreshTab.pc = "ready"
    BY DEF FreshTab, Tab
  <2> QED BY <1>4, <2>1, TabMoves
<1>5. ASSUME NEW t \in Tabs, Submit(t) PROVE TabsReady'
  <2> DEFINE x == [tab[t] EXCEPT !.pc = "limit", !.signup = TRUE]
  <2>1. x \in Tab /\ x.pc = "limit" /\ x.info = tab[t].info /\ tab[t].info \in Phones \cup {NULL}
    BY DEF TypeOK, Tab
  <2>2. CASE tab[t].info # NULL
    <3>1. tab' = [tab EXCEPT ![t] = x] /\ UNCHANGED meta
      BY <1>5, <2>2 DEF Submit
    <3>2. x.info \in Phones
      BY <2>1, <2>2
    <3> HIDE DEF x
    <3> QED BY <2>1, <3>1, <3>2, TabMoves
  <2> QED BY <1>4, <1>5, <2>2 DEF Submit, Answered
<1>6. ASSUME NEW t \in Tabs, NEW p \in Phones \cup {NULL}, AddByForm(t, p) PROVE TabsReady'
  <2> DEFINE x == [FreshTab EXCEPT !.pc = "limit", !.info = p]
  <2>1. x \in Tab /\ x.pc = "limit" /\ ~x.signup
    BY DEF FreshTab, Tab
  <2>2. tab' = [tab EXCEPT ![t] = x] /\ UNCHANGED meta
    BY <1>6 DEF AddByForm
  <2> HIDE DEF x
  <2> QED BY <2>1, <2>2, TabMoves
<1>7. ASSUME NEW t \in Tabs, Serve(t) PROVE TabsReady'
  <2>0. /\ tab[t] \in Tab
        /\ tab[t].pc \in {"limit", "exchange", "register", "subscribe", "create"} /\ tab[t].signup
             => tab[t].info \in Phones
        /\ tab[t].pc \in {"exchange", "register", "subscribe"} => tab[t].signup
    BY DEF TypeOK, TabsReady
  <2> DEFINE x(pc) == [tab[t] EXCEPT !.pc = pc]
  <2>1. ASSUME NEW pc \in {"exchange", "register", "subscribe", "create", "connect"}
        PROVE  x(pc) \in Tab /\ x(pc).pc = pc /\ x(pc).signup = tab[t].signup /\ x(pc).info = tab[t].info
    BY <2>0 DEF Tab
  <2>2. ASSUME NEW pc, GoesTo(t, pc) PROVE tab' = [tab EXCEPT ![t] = x(pc)]
    BY <2>2 DEF GoesTo
  <2> HIDE DEF x
  <2>3. ASSUME tab[t].pc # "subscribe", UNCHANGED meta, NEW pc \in {"exchange", "register", "create", "connect"},
               GoesTo(t, pc), tab[t].pc \in {"limit", "exchange", "create"},
               pc \in {"exchange", "register"} => tab[t].signup /\ tab[t].pc \in {"limit", "exchange"},
               pc = "create" => ~tab[t].signup
        PROVE  TabsReady'
    BY <2>0, <2>1, <2>2, <2>3, TabMoves
  <2>4. CASE CheckLimit(t)
    BY <1>4, <2>3, <2>4 DEF CheckLimit, Answered, At
  <2>5. CASE ExchangeCode(t)
    BY <2>0, <2>3, <2>5 DEF ExchangeCode, At
  <2>6. CASE RegisterPhone(t)
    <3>1. CASE tab[t].picked = tab[t].info
      <4>1. /\ GoesTo(t, "subscribe") /\ tab[t].pc = "register"
            /\ meta' = [meta EXCEPT !.registered = @ \cup {tab[t].info}]
        BY <2>6, <3>1 DEF RegisterPhone, At
      <4>2. /\ meta.registered \subseteq meta'.registered /\ meta.subscribed \subseteq meta'.subscribed
            /\ tab[t].info \in meta'.registered
        BY <4>1 DEF TypeOK
      <4> QED BY <2>0, <2>1, <2>2, <4>1, <4>2, TabMoves
    <3> QED BY <1>4, <2>6, <3>1 DEF RegisterPhone, Answered
  <2>7. CASE SubscribeApp(t)
    <3>1. /\ GoesTo(t, "create") /\ tab[t].pc = "subscribe"
          /\ meta' = [meta EXCEPT !.subscribed = @ \cup {tab[t].info}]
      BY <2>7 DEF SubscribeApp, At
    <3>2. /\ meta.registered \subseteq meta'.registered /\ meta.subscribed \subseteq meta'.subscribed
          /\ tab[t].info \in meta'.subscribed /\ tab[t].info \in meta'.registered
      BY <3>1 DEF TypeOK, TabsReady
    <3> QED BY <2>0, <2>1, <2>2, <3>1, <3>2, TabMoves
  <2>8. CASE CreateRow(t)
    BY <2>0, <2>3, <2>8 DEF CreateRow, At
  <2>9. CASE ConnectRow(t)
    BY <1>4, <2>9 DEF ConnectRow, Answered
  <2> QED BY <1>7, <2>4, <2>5, <2>6, <2>7, <2>8, <2>9 DEF Serve
<1>8. ASSUME NEW t \in Tabs, MetaFails(t) \/ WebDies(t) PROVE TabsReady'
  BY <1>4, <1>8 DEF MetaFails, WebDies, Answered
<1>9. ASSUME \/ \E c \in Conns : LogoutCloud(c) \/ ReconnectCloud(c)
             \/ \E i \in Incoming : Deliver(i)
             \/ UNCHANGED numberVars
      PROVE  UNCHANGED <<tab, meta>>
  BY <1>9 DEF LogoutCloud, ReconnectCloud, SetStatus, Deliver, numberVars
<1> QED
  BY <1>1, <1>2, <1>3, <1>5, <1>6, <1>7, <1>8, <1>9 DEF Next, NumbersNext, Button, vars

LEMMA TypeInv == Spec => [](TypeOK /\ TabsReady)
<1>1. Init => TypeOK /\ TabsReady
  BY UsageTypesInit, NumbersAssumption
  DEF Init, NumbersInit, TypeOK, FreshTab, Tab, NumbersAssumption, TabsReady
<1> QED
  BY <1>1, TypesNext, ReadyNext, PTL DEF Spec

\* Rows, tabs, Meta's sets, counts and senders keep their types.
THEOREM TypeCorrect == Spec => []TypeOK
BY TypeInv, PTL

\* The monthly cap is passed by at most one less than the senders that run at
\* once, and no message leaves uncounted (usage.ts:13).
THEOREM CapIsKept == Spec => []CapHolds
<1>1. Init => CapInv
  BY CapInvInit DEF Init
<1>2. TypeOK /\ CapInv /\ [Next]_vars => CapInv'
  BY CapInvNext DEF TypeOK, Next, vars
<1>3. TypeOK /\ CapInv => CapHolds
  BY CapInvSuffices DEF TypeOK
<1> QED
  BY <1>1, <1>2, <1>3, TypeCorrect, PTL DEF Spec

\* What a step does to the rows: it adds one, with the ids of the tab that asked
\* for it, or it changes the status of one.
Created(t) == [phone |-> tab[t].info, signup |-> tab[t].signup,
               status |-> IF tab[t].info = NULL THEN "PENDING" ELSE "CONNECTED"]

LEMMA RowsChange ==
  ASSUME TypeOK, [Next]_vars
  PROVE  \/ UNCHANGED conn
         \/ \E t \in Tabs, c \in Conns \ Rows : CreateRow(t) /\ conn' = [conn EXCEPT ![c] = Created(t)]
         \/ \E c \in Rows, to \in {"LOGGED_OUT", "CONNECTED"} : conn' = [conn EXCEPT ![c].status = to]
<1>1. ASSUME UNCHANGED numberVars PROVE UNCHANGED conn
  BY <1>1 DEF numberVars
<1>2. ASSUME NEW t \in Tabs, Button(t) PROVE UNCHANGED conn
  BY <1>2, ButtonTypes
<1>3. ASSUME NEW t \in Tabs,
             CheckLimit(t) \/ ExchangeCode(t) \/ RegisterPhone(t) \/ SubscribeApp(t) \/ ConnectRow(t)
               \/ MetaFails(t) \/ WebDies(t)
      PROVE  UNCHANGED conn
  BY <1>3 DEF CheckLimit, ExchangeCode, RegisterPhone, SubscribeApp, ConnectRow, MetaFails, WebDies
<1>4. ASSUME NEW t \in Tabs, NEW p \in Phones \cup {NULL}, AddByForm(t, p) PROVE UNCHANGED conn
  BY <1>4 DEF AddByForm
<1>5. ASSUME NEW i \in Incoming, Deliver(i) PROVE UNCHANGED conn
  BY <1>5 DEF Deliver
<1>6. ASSUME NEW c \in Conns, LogoutCloud(c) \/ ReconnectCloud(c)
      PROVE  \E d \in Rows, to \in {"LOGGED_OUT", "CONNECTED"} : conn' = [conn EXCEPT ![d].status = to]
  BY <1>6 DEF LogoutCloud, ReconnectCloud, SetStatus
<1>7. ASSUME NEW t \in Tabs, CreateRow(t)
      PROVE  \E c \in Conns \ Rows : conn' = [conn EXCEPT ![c] = Created(t)]
  BY <1>7 DEF CreateRow, Created
<1> QED
  BY <1>1, <1>2, <1>3, <1>4, <1>5, <1>6, <1>7 DEF Next, NumbersNext, Serve, vars

LEMMA CreatedIsRow == ASSUME TypeOK, NEW t \in Tabs PROVE Created(t) \in Row /\ Created(t) # NULL
<1>1. tab[t].info \in Phones \cup {NULL} /\ tab[t].signup \in BOOLEAN
  BY DEF TypeOK, Tab
<1>2. Created(t) \in Row
  BY <1>1 DEF Created, Row
<1> QED BY <1>2, NumbersAssumption DEF NumbersAssumption

\* No row goes, and the number of a row and how it came never change.
LEMMA RowsStay ==
  ASSUME TypeOK, [Next]_vars, NEW c \in Rows
  PROVE  c \in Rows' /\ conn'[c].phone = conn[c].phone /\ conn'[c].signup = conn[c].signup
<1>0. c \in Conns /\ conn[c] \in Row /\ conn[c] # NULL
  BY DEF TypeOK, Rows
<1>1. CASE UNCHANGED conn
  BY <1>1 DEF Rows
<1>2. ASSUME NEW d \in Conns \ Rows, NEW row, conn' = [conn EXCEPT ![d] = row]
      PROVE  conn'[c] = conn[c]
  BY <1>0, <1>2 DEF TypeOK
<1>3. ASSUME NEW d \in Rows, NEW to \in {"LOGGED_OUT", "CONNECTED"}, conn' = [conn EXCEPT ![d].status = to]
      PROVE  conn'[c] \in Row /\ conn'[c].phone = conn[c].phone /\ conn'[c].signup = conn[c].signup
  <2>1. CASE c = d
    <3>1. conn'[c] = [conn[c] EXCEPT !.status = to]
      BY <1>0, <1>3, <2>1 DEF TypeOK
    <3> QED BY <1>0, <3>1 DEF Row
  <2>2. CASE c # d
    <3>1. conn'[c] = conn[c]
      BY <1>0, <1>3, <2>2 DEF TypeOK
    <3> QED BY <1>0, <3>1
  <2> QED BY <2>1, <2>2
<1>4. conn'[c] # NULL => c \in Rows'
  BY <1>0 DEF Rows
<1> QED BY <1>0, <1>1, <1>2, <1>3, <1>4, RowsChange, NumbersAssumption DEF NumbersAssumption

\* Only the row a tab asked for is new.
LEMMA NewRows ==
  ASSUME TypeOK, [Next]_vars, NEW c \in Rows', c \notin Rows
  PROVE  /\ c \in Conns /\ Rows' = Rows \cup {c}
         /\ \E t \in Tabs : CreateRow(t) /\ conn'[c] = Created(t)
<1>0. c \in Conns /\ conn'[c] # NULL /\ conn[c] = NULL
  BY DEF Rows
<1>1. ASSUME NEW d \in Rows, NEW to, conn' = [conn EXCEPT ![d].status = to] PROVE FALSE
  <2>1. c # d
    BY <1>1
  <2> QED BY <1>0, <1>1, <2>1 DEF TypeOK
<1>2. PICK t \in Tabs, d \in Conns \ Rows : CreateRow(t) /\ conn' = [conn EXCEPT ![d] = Created(t)]
  BY <1>0, <1>1, RowsChange
<1>3. d = c
  BY <1>0, <1>2 DEF TypeOK
<1>4. conn'[c] = Created(t)
  BY <1>0, <1>2, <1>3 DEF TypeOK
<1>5. \A e \in Conns \ {c} : conn'[e] = conn[e]
  BY <1>2, <1>3 DEF TypeOK
<1>6. Rows' = Rows \cup {c}
  BY <1>0, <1>5 DEF Rows
<1> QED BY <1>0, <1>2, <1>4, <1>6

\* Meta's sets only grow.
LEMMA MetaGrows ==
  ASSUME TypeOK, [Next]_vars
  PROVE  meta.registered \subseteq meta'.registered /\ meta.subscribed \subseteq meta'.subscribed
<1>1. ASSUME NEW t \in Tabs, RegisterPhone(t) \/ SubscribeApp(t)
      PROVE  meta.registered \subseteq meta'.registered /\ meta.subscribed \subseteq meta'.subscribed
  BY <1>1 DEF RegisterPhone, SubscribeApp, TypeOK
<1>2. ASSUME \/ UNCHANGED numberVars
             \/ \E t \in Tabs : \/ CheckLimit(t) \/ ExchangeCode(t) \/ CreateRow(t) \/ ConnectRow(t) \/ MetaFails(t)
                                \/ WebDies(t) \/ \E p \in Phones \cup {NULL} : AddByForm(t, p)
             \/ \E c \in Conns : LogoutCloud(c) \/ ReconnectCloud(c)
             \/ \E i \in Incoming : Deliver(i)
      PROVE  UNCHANGED meta
  BY <1>2 DEF CheckLimit, ExchangeCode, CreateRow, ConnectRow, MetaFails, WebDies, AddByForm,
              LogoutCloud, ReconnectCloud, SetStatus, Deliver, numberVars
<1>3. ASSUME NEW t \in Tabs, Button(t) PROVE UNCHANGED meta
  BY <1>3, ButtonTypes
<1> QED
  BY <1>1, <1>2, <1>3 DEF Next, NumbersNext, Serve, vars

\* A number shown as connected by the signup is registered and our app
\* subscribed to it, whatever failed on the way and however many tabs are open
\* (embedded-signup/route.ts:56).
THEOREM ConnectedIsHeard == Spec => []HeardOnceOnboarded
<1>1. Init => HeardOnceOnboarded
  BY DEF Init, NumbersInit, HeardOnceOnboarded, Rows
<1>2. TypeOK /\ TabsReady /\ HeardOnceOnboarded /\ [Next]_vars => HeardOnceOnboarded'
  <2> SUFFICES ASSUME TypeOK, TabsReady, HeardOnceOnboarded, [Next]_vars, NEW c \in Rows', conn'[c].signup
               PROVE  conn'[c].phone \in meta'.registered \cap meta'.subscribed
    BY DEF HeardOnceOnboarded
  <2>1. CASE c \in Rows
    BY <2>1, RowsStay, MetaGrows DEF HeardOnceOnboarded
  <2>2. CASE c \notin Rows
    <3>1. PICK t \in Tabs : CreateRow(t) /\ conn'[c] = Created(t)
      BY <2>2, NewRows
    <3>2. tab[t].pc = "create" /\ tab[t].signup /\ conn'[c].phone = tab[t].info
      BY <3>1 DEF CreateRow, At, Created
    <3> QED BY <3>2, MetaGrows DEF TabsReady
  <2> QED BY <2>1, <2>2
<1> QED BY <1>1, <1>2, TypeInv, PTL DEF Spec

\* A message that is delivered again is the same job, unless two rows hold its
\* number (webhooks/whatsapp/route.ts:94): a job is for a row of that number.
THEOREM MessagesAreQueuedOnce == Spec => []QueuedOnce
<1>1. Init => JobsHaveRows
  BY DEF Init, NumbersInit, JobsHaveRows
<1>2. TypeOK /\ JobsHaveRows /\ [Next]_vars => JobsHaveRows'
  <2> SUFFICES ASSUME TypeOK, JobsHaveRows, [Next]_vars, NEW j \in jobs'
               PROVE  j[1] \in Rows' /\ conn'[j[1]].phone = PhoneOf[j[2]]
    BY DEF JobsHaveRows
  <2>1. CASE j \in jobs
    BY <2>1, RowsStay DEF JobsHaveRows
  <2>2. ASSUME NEW i \in Incoming, Deliver(i), j \notin jobs
        PROVE  j[1] \in Rows' /\ conn'[j[1]].phone = PhoneOf[j[2]]
    <3>1. PICK c \in RowsOf(PhoneOf[i]) : j = <<c, i>>
      BY <2>2 DEF Deliver
    <3>2. c \in Rows /\ conn[c].phone = PhoneOf[i]
      BY <3>1 DEF RowsOf, HasNumber
    <3> QED BY <3>1, <3>2, RowsStay
  <2>3. ASSUME j \notin jobs PROVE \E i \in Incoming : Deliver(i)
    <3>1. ASSUME NEW t \in Tabs, Button(t) PROVE UNCHANGED jobs
      BY <3>1, ButtonTypes
    <3>2. ASSUME \/ UNCHANGED numberVars
                 \/ \E t \in Tabs : \/ Serve(t) \/ MetaFails(t) \/ WebDies(t)
                                      \/ \E p \in Phones \cup {NULL} : AddByForm(t, p)
                 \/ \E c \in Conns : LogoutCloud(c) \/ ReconnectCloud(c)
          PROVE  UNCHANGED jobs
      BY <3>2 DEF Serve, CheckLimit, ExchangeCode, RegisterPhone, SubscribeApp, CreateRow, ConnectRow, MetaFails,
                  WebDies, AddByForm, LogoutCloud, ReconnectCloud, SetStatus, numberVars
    <3> QED BY <2>3, <3>1, <3>2 DEF Next, NumbersNext, vars
  <2> QED BY <2>1, <2>2, <2>3
<1>3. TypeOK /\ JobsHaveRows => QueuedOnce
  <2> SUFFICES ASSUME TypeOK, JobsHaveRows, NEW i \in Incoming
      PROVE LET queued == {c \in Conns : <<c, i>> \in jobs} IN
              /\ queued \subseteq Rows
              /\ Cardinality(queued) > 1 => Cardinality({c \in Rows : conn[c].phone = PhoneOf[i]}) > 1
    BY DEF QueuedOnce
  <2> DEFINE queued == {c \in Conns : <<c, i>> \in jobs}
             held == {c \in Rows : conn[c].phone = PhoneOf[i]}
  <2>1. queued \subseteq held
    BY DEF JobsHaveRows
  <2>2. IsFiniteSet(held)
    BY FS_Subset, NumbersAssumption DEF NumbersAssumption, Rows
  <2>3. /\ Cardinality(queued) <= Cardinality(held)
        /\ Cardinality(queued) \in Nat /\ Cardinality(held) \in Nat
    BY <2>1, <2>2, FS_Subset, FS_CardinalityType
  <2>4. queued \subseteq Rows
    BY <2>1
  <2> HIDE DEF queued, held
  <2>5. Cardinality(queued) > 1 => Cardinality(held) > 1
    BY <2>3
  <2> QED BY <2>4, <2>5 DEF queued, held
<1> QED BY <1>1, <1>2, <1>3, TypeCorrect, PTL DEF Spec

\* Rows and tabs are finitely many.
LEMMA RoomIsFinite ==
  /\ IsFiniteSet(Rows) /\ IsFiniteSet(Admitted)
  /\ Cardinality(Rows) \in Nat /\ Cardinality(Admitted) \in Nat
  /\ Cardinality(Tabs) \in Nat \ {0} /\ Cardinality(Admitted) <= Cardinality(Tabs)
<1>1. /\ IsFiniteSet(Conns) /\ Rows \subseteq Conns
      /\ IsFiniteSet(Tabs) /\ Admitted \subseteq Tabs /\ Tabs # {}
  BY NumbersAssumption DEF NumbersAssumption, Rows, Admitted
<1> QED BY <1>1, FS_Subset, FS_CardinalityType, FS_EmptySet

\* A step that adds no row leaves the tabs admitted as they are, lets one of
\* them go, or admits one more, which has found room.
LEMMA AdmittedMoves ==
  ASSUME TypeOK, TabsReady, [Next]_vars, Rows' = Rows
  PROVE  \/ Admitted' \subseteq Admitted
         \/ Cardinality(Rows) < MaxConns
<1>1. ASSUME NEW t \in Tabs, NEW x, tab' = [tab EXCEPT ![t] = x], x.pc \in {"ready", "limit", "popup", "connect"}
      PROVE  Admitted' \subseteq Admitted
  BY <1>1 DEF Admitted, TypeOK
<1>2. ASSUME NEW t \in Tabs, NEW x, tab' = [tab EXCEPT ![t] = x], t \in Admitted
      PROVE  Admitted' \subseteq Admitted
  BY <1>2 DEF Admitted, TypeOK
<1>3. CASE UNCHANGED tab
  BY <1>3 DEF Admitted
<1>4. ASSUME NEW t \in Tabs, Button(t) PROVE Admitted' \subseteq Admitted
  <2>1. ASSUME Finish(t) PROVE Admitted' \subseteq Admitted
    <3>1. tab' = [tab EXCEPT ![t] = [tab[t] EXCEPT !.info = tab[t].picked]] /\ tab[t].pc = "popup"
      BY <2>1 DEF Finish, At
    <3>2. [tab[t] EXCEPT !.info = tab[t].picked].pc = "popup"
      BY <3>1 DEF TypeOK, Tab
    <3> QED BY <1>1, <3>1, <3>2
  <2>2. ASSUME NEW p \in Phones, Launch(t, p) PROVE Admitted' \subseteq Admitted
    <3>1. [tab[t] EXCEPT !.pc = "popup", !.picked = p].pc = "popup"
      BY DEF TypeOK, Tab
    <3> QED BY <1>1, <2>2, <3>1 DEF Launch
  <2>3. ASSUME CancelPopup(t) PROVE Admitted' \subseteq Admitted
    <3>1. [tab[t] EXCEPT !.pc = "ready", !.picked = NULL].pc = "ready"
      BY DEF TypeOK, Tab
    <3> QED BY <1>1, <2>3, <3>1 DEF CancelPopup
  <2>4. ASSUME Submit(t) PROVE Admitted' \subseteq Admitted
    <3>1. [tab[t] EXCEPT !.pc = "limit", !.signup = TRUE].pc = "limit" /\ FreshTab.pc = "ready"
      BY DEF TypeOK, Tab, FreshTab
    <3> QED BY <1>1, <2>4, <3>1 DEF Submit, Answered
  <2> QED BY <1>4, <2>1, <2>2, <2>3, <2>4 DEF Button
<1>5. FreshTab.pc = "ready" /\ \A p \in Phones \cup {NULL} : [FreshTab EXCEPT !.pc = "limit", !.info = p].pc = "limit"
  BY DEF FreshTab
<1>6. ASSUME NEW t \in Tabs, NEW p \in Phones \cup {NULL}, AddByForm(t, p) PROVE Admitted' \subseteq Admitted
  BY <1>1, <1>5, <1>6 DEF AddByForm
<1>7. ASSUME NEW t \in Tabs, ConnectRow(t) \/ MetaFails(t) \/ WebDies(t) PROVE Admitted' \subseteq Admitted
  BY <1>1, <1>5, <1>7 DEF ConnectRow, MetaFails, WebDies, Answered
<1>8. ASSUME NEW t \in Tabs, ExchangeCode(t) \/ RegisterPhone(t) \/ SubscribeApp(t) PROVE Admitted' \subseteq Admitted
  <2>1. t \in Admitted
    BY <1>8 DEF ExchangeCode, RegisterPhone, SubscribeApp, At, Admitted
  <2> QED BY <1>2, <1>8, <2>1 DEF ExchangeCode, RegisterPhone, SubscribeApp, GoesTo, Answered
<1>9. ASSUME NEW t \in Tabs, CreateRow(t) PROVE Admitted' \subseteq Admitted
  <2>1. t \in Admitted
    BY <1>9 DEF CreateRow, At, Admitted
  <2> QED BY <1>2, <1>9, <2>1 DEF CreateRow, GoesTo
<1>10. ASSUME NEW t \in Tabs, CheckLimit(t) PROVE Admitted' \subseteq Admitted \/ Cardinality(Rows) < MaxConns
  <2>1. CASE AtLimit
    BY <1>1, <1>5, <1>10, <2>1 DEF CheckLimit, Answered
  <2>2. CASE ~AtLimit
    BY <2>2, RoomIsFinite, NumbersAssumption DEF AtLimit, Full, NumbersAssumption
  <2> QED BY <2>1, <2>2
<1>11. ASSUME \/ UNCHANGED numberVars
              \/ \E c \in Conns : LogoutCloud(c) \/ ReconnectCloud(c)
              \/ \E i \in Incoming : Deliver(i)
       PROVE  UNCHANGED tab
  BY <1>11 DEF LogoutCloud, ReconnectCloud, SetStatus, Deliver, numberVars
<1> QED
  BY <1>3, <1>4, <1>6, <1>7, <1>8, <1>9, <1>10, <1>11 DEF Next, NumbersNext, Serve, vars

\* The plan's connections are passed by at most one less than the tabs that are
\* open at once (embedded-signup/route.ts:42).
THEOREM PlanIsKept == Spec => []WithinPlan
<1>1. Init => RoomInv
  <2> SUFFICES ASSUME Init PROVE RoomInv
    OBVIOUS
  <2>1. Rows = {} /\ Admitted = {}
    BY DEF Init, NumbersInit, Rows, Admitted, FreshTab
  <2> QED BY <2>1, RoomIsFinite, FS_EmptySet, NumbersAssumption DEF RoomInv, NumbersAssumption
<1>2. TypeOK /\ TabsReady /\ RoomInv /\ [Next]_vars => RoomInv'
  <2> SUFFICES ASSUME TypeOK, TabsReady, RoomInv, [Next]_vars PROVE RoomInv'
    OBVIOUS
  <2>0. /\ MaxConns \in Nat /\ Admitted' \in SUBSET Tabs /\ IsFiniteSet(Admitted')
        /\ Cardinality(Admitted') \in Nat /\ Cardinality(Admitted') <= Cardinality(Tabs)
    BY FS_Subset, FS_CardinalityType, NumbersAssumption DEF NumbersAssumption, Admitted
  <2>1. Rows \subseteq Rows'
    BY RowsStay
  <2>2. CASE Rows' = Rows
    <3>1. CASE Admitted' \subseteq Admitted
      <4>1. Cardinality(Admitted') <= Cardinality(Admitted)
        BY <3>1, RoomIsFinite, FS_Subset
      <4> QED BY <2>0, <2>2, <4>1, RoomIsFinite DEF RoomInv
    <3>2. CASE Cardinality(Rows) < MaxConns
      BY <2>0, <2>2, <3>2, RoomIsFinite DEF RoomInv
    <3> QED BY <2>2, <3>1, <3>2, AdmittedMoves
  <2>3. ASSUME NEW c \in Rows', c \notin Rows PROVE RoomInv'
    <3>1. PICK t \in Tabs : CreateRow(t)
      BY <2>3, NewRows
    <3>2. Rows' = Rows \cup {c}
      BY <2>3, NewRows
    <3>3. Cardinality(Rows') = Cardinality(Rows) + 1
      BY <2>3, <3>2, RoomIsFinite, FS_AddElement
    <3>4. t \in Admitted /\ Admitted' = Admitted \ {t}
      BY <3>1 DEF CreateRow, At, GoesTo, Admitted, TypeOK, Tab
    <3>5. Cardinality(Admitted') = Cardinality(Admitted) - 1
      BY <3>4, RoomIsFinite, FS_RemoveElement
    <3> QED BY <2>0, <3>3, <3>5, RoomIsFinite DEF RoomInv
  <2> QED BY <2>1, <2>2, <2>3
<1>3. RoomInv => WithinPlan
  BY RoomIsFinite, NumbersAssumption DEF RoomInv, WithinPlan, NumbersAssumption
<1> QED BY <1>1, <1>2, <1>3, TypeInv, PTL DEF Spec

-------------------------------------------------------------------------------
(* Who a message is from: what a job counts on *)

\* A job is about its sender, and its chat says how the sender is known.
JobsFit ==
  /\ \A chat \in arriving : Person(chat.jid) = ByWhom[chat.message]
  /\ \A m \in Inbound : inbox[m].pc # "absent" =>
       LET job == inbox[m]  p == ByWhom[m] IN
       /\ job.from \in {Number(p), Lid(p)} /\ job.jid \in {NoAddress, Number(p), Lid(p)}
       /\ IsLid(job.from) => job.jid = Lid(p) /\ job.pn = NoAddress
       /\ job.pn # NoAddress => job.jid = Lid(p) /\ job.from = Number(p)
       /\ job.pc \in {"legacy", "migrate"} => job.pn # NoAddress
       /\ job.pc \notin {"queued", "dropped"} /\ p \in Paired => IsLid(job.from)

\* A contact under a LID has it as its chat, and both of a contact's addresses
\* are one person's.
ContactsFit ==
  \A c \in Existing : /\ Person(contact[c].jid) \in {Person(contact[c].phone), "none"}
                      /\ IsLid(contact[c].phone) => IsLid(contact[c].jid)

\* The contact a job has found stays its sender's.
Found(m) ==
  /\ inbox[m].row \in Existing
  /\ Person(contact[inbox[m].row].phone) = ByWhom[m]
  /\ IsLid(contact[inbox[m].row].phone) => IsLid(inbox[m].jid) 
RowsFit ==
  \A m \in Inbound :
    /\ inbox[m].pc \in {"migrate", "refresh"} => Found(m)
    /\ inbox[m].pc = "filed" => /\ inbox[m].row \in Existing
                                /\ Person(contact[inbox[m].row].phone) = ByWhom[m]

\* Whose jobs know the sender by different addresses at once is blurred, and so
\* is who lost the contact that was to be gone on with.
PairsBlur ==
  \A m, n \in Inbound :
    Working(m) /\ Working(n) /\ ByWhom[m] = ByWhom[n] /\ inbox[m].from # inbox[n].from => ByWhom[m] \in blurred
LosersBlur ==
  \A m \in Inbound :
    /\ inbox[m].pc = "conflict" => Under(inbox[m].from) # {} \/ ByWhom[m] \in blurred
    /\ inbox[m].pc = "failed" => ByWhom[m] \in blurred

\* Unless the sender is blurred, the address a job does not look under is not in
\* use.
Clear ==
  \A m \in Inbound :
    Working(m) /\ ByWhom[m] \notin blurred =>
      /\ IsLid(inbox[m].from) => Under(Number(ByWhom[m])) = {}
      /\ ~IsLid(inbox[m].from) /\ (inbox[m].pn = NoAddress \/ inbox[m].pc = "create") => Under(Lid(ByWhom[m])) = {}

\* Addresses are numbers or LIDs, of one person each.
LEMMA Addresses ==
  ASSUME NEW p \in People
  PROVE  /\ Number(p) \in Address /\ Lid(p) \in Address /\ Number(p) # Lid(p)
         /\ ~IsLid(Number(p)) /\ IsLid(Lid(p)) /\ Person(Number(p)) = p /\ Person(Lid(p)) = p
BY DEF Number, Lid, Address, IsLid, Person

\* There are no other addresses.
LEMMA AddressKinds ==
  ASSUME NEW a \in Address
  PROVE  /\ Person(a) \in People /\ a # NoAddress
         /\ a = IF IsLid(a) THEN Lid(Person(a)) ELSE Number(Person(a))
BY DEF Number, Lid, Address, IsLid, Person, NoAddress

\* No address is nobody's.
LEMMA NobodysAddress == NoAddress \notin Address /\ Person(NoAddress) = "none" /\ ~IsLid(NoAddress)
BY DEF Address, NoAddress, Person, IsLid

\* A row that is written is there.
LEMMA RowsWritten ==
  ASSUME ContactsTypeOK, NEW c \in ContactIds, NEW rec \in Contact,
         contact' = [contact EXCEPT ![c] = rec]
  PROVE  /\ contact' \in [ContactIds -> Contact \cup {NoContact}]
         /\ Existing' = Existing \cup {c}
         /\ contact'[c] = rec
         /\ \A d \in ContactIds \ {c} : contact'[d] = contact[d]
<1>1. rec # NoContact
  BY NobodysAddress DEF Contact, NoContact
<1> QED BY <1>1 DEF Existing, ContactsTypeOK

\* A new row is new.
LEMMA FreedIsFree ==
  ASSUME HasFree PROVE Freed \in ContactIds \ Existing
BY DEF Freed, HasFree, Existing

\* Rows have addresses.
LEMMA ContactOf ==
  ASSUME ContactsTypeOK, NEW c \in Existing
  PROVE  /\ c \in ContactIds /\ contact[c] \in Contact
         /\ contact[c].phone \in Address /\ contact[c].jid \in Address \cup {NoAddress}
BY DEF Existing, Contact, ContactsTypeOK

Pcs == {"absent", "queued", "find", "legacy", "migrate", "refresh", "create", "conflict",
        "filed", "dropped", "failed"}

\* Goes changes where one job is and the row it holds.
LEMMA JobMoves ==
  ASSUME ContactsTypeOK, NEW m \in Inbound, NEW pc \in Pcs, NEW row \in ContactIds \cup {"none"},
         Goes(m, pc, row)
  PROVE  /\ inbox' \in [Inbound -> Job]
         /\ inbox'[m].pc = pc /\ inbox'[m].row = row
         /\ inbox'[m].from = inbox[m].from /\ inbox'[m].jid = inbox[m].jid /\ inbox'[m].pn = inbox[m].pn
         /\ \A n \in Inbound \ {m} : inbox'[n] = inbox[n]
<1> DEFINE new == [inbox[m] EXCEPT !.pc = pc, !.row = row]
<1>1. inbox[m] \in Job
  BY DEF ContactsTypeOK
<1>2. /\ new \in Job /\ new.pc = pc /\ new.row = row
      /\ new.from = inbox[m].from /\ new.jid = inbox[m].jid /\ new.pn = inbox[m].pn
  <2>1. \A job \in Job : /\ [job EXCEPT !.pc = pc, !.row = row] \in Job
                         /\ [job EXCEPT !.pc = pc, !.row = row].pc = pc
                         /\ [job EXCEPT !.pc = pc, !.row = row].row = row
    BY DEF Job, Pcs
  <2>2. \A job \in Job : /\ [job EXCEPT !.pc = pc, !.row = row].from = job.from
                         /\ [job EXCEPT !.pc = pc, !.row = row].jid = job.jid
                         /\ [job EXCEPT !.pc = pc, !.row = row].pn = job.pn
    BY DEF Job
  <2> QED BY <1>1, <2>1, <2>2
<1>3. inbox' = [inbox EXCEPT ![m] = new]
  BY DEF Goes
<1> QED BY <1>2, <1>3 DEF ContactsTypeOK

\* A job that is under way has a sender's address.
LEMMA JobSender ==
  ASSUME ContactsTypeOK, JobsFit, NEW m \in Inbound, inbox[m].pc # "absent"
  PROVE  /\ inbox[m] \in Job /\ ByWhom[m] \in People
         /\ inbox[m].from \in Address /\ Person(inbox[m].from) = ByWhom[m]
         /\ inbox[m].jid \in Address \cup {NoAddress}
         /\ Person(inbox[m].jid) \in {ByWhom[m], "none"}
BY Addresses, NobodysAddress, ContactsAssumption DEF ContactsTypeOK, JobsFit

\* Settle ends with the job at a contact.
LEMMA Settles ==
  ASSUME ContactsTypeOK, NEW m \in Inbound, NEW c \in Existing, Settle(m, c)
  PROVE  \E pc \in {"refresh", "filed"} : Goes(m, pc, c)
BY DEF Settle

\* The jobs that only read, and the contact they go on with.
Looking(m) == FindContact(m) \/ FindLegacy(m) \/ FindWinner(m)

\* What a step does to the jobs: it adds one, or moves one that keeps its
\* addresses, or sends those under way back to the queue.
LEMMA LooksAre ==
  ASSUME ContactsTypeOK, NEW m \in Inbound, Looking(m)
  PROVE  /\ Working(m) /\ UNCHANGED <<arrivals, arriving, contact, campaign, blurred>>
         /\ \E pc \in Pcs, row \in ContactIds \cup {"none"} : Goes(m, pc, row)
<1>1. Existing \subseteq ContactIds /\ \A a : Under(a) \subseteq Existing
  BY DEF Existing, Under
<1>2. CASE FindContact(m)
  BY <1>1, <1>2, Settles DEF FindContact, Working, JobAt, Pcs
<1>3. CASE FindLegacy(m)
  BY <1>1, <1>3 DEF FindLegacy, Working, JobAt, Pcs
<1>4. CASE FindWinner(m)
  BY <1>1, <1>4 DEF FindWinner, Working, JobAt, Pcs
<1> QED BY <1>2, <1>3, <1>4 DEF Looking

\* Contacts stay, with the person they are of; none goes from a number to a LID.
KeepsPeople ==
  \A c \in Existing :
    /\ c \in Existing' /\ Person(contact'[c].phone) = Person(contact[c].phone)
    /\ IsLid(contact'[c].phone) => IsLid(contact[c].phone)

\* What was found stays found.
LEMMA FoundStays ==
  ASSUME KeepsPeople, NEW m \in Inbound, Found(m),
         inbox'[m].row = inbox[m].row, inbox'[m].jid = inbox[m].jid
  PROVE  Found(m)'
BY DEF KeepsPeople, Found

FitInv == ContactsTypeOK /\ JobsFit /\ ContactsFit /\ RowsFit

\* A job that moves keeps what it says of its sender, as long as it comes
\* nowhere without reason.
LEMMA JobsFitOnMove ==
  ASSUME FitInv, NEW m \in Inbound, NEW pc \in Pcs, NEW row \in ContactIds \cup {"none"},
         Goes(m, pc, row), inbox[m].pc # "absent", UNCHANGED arriving,
         pc \in {"legacy", "migrate"} => inbox[m].pn # NoAddress,
         pc \notin {"queued", "dropped"} /\ ByWhom[m] \in Paired => IsLid(inbox[m].from)
  PROVE  JobsFit'
BY JobMoves DEF FitInv, JobsFit

\* The rows of the other jobs stay right when one moves.
LEMMA RowsFitOnMove ==
  ASSUME FitInv, NEW m \in Inbound, NEW pc \in Pcs, NEW row \in ContactIds \cup {"none"},
         Goes(m, pc, row), KeepsPeople,
         pc \in {"migrate", "refresh"} => Found(m)',
         pc = "filed" => /\ row \in Existing'
                         /\ Person(contact'[row].phone) = ByWhom[m]
  PROVE  RowsFit'
<1> SUFFICES ASSUME NEW n \in Inbound
             PROVE  /\ inbox'[n].pc \in {"migrate", "refresh"} => Found(n)'
                    /\ inbox'[n].pc = "filed" => /\ inbox'[n].row \in Existing'
                                                 /\ Person(contact'[inbox'[n].row].phone) = ByWhom[n]
  BY DEF RowsFit
<1>1. CASE n = m
  BY <1>1, JobMoves DEF FitInv
<1>2. CASE n # m
  <2>1. inbox'[n] = inbox[n]
    BY <1>2, JobMoves DEF FitInv
  <2> QED BY <2>1, FoundStays DEF FitInv, RowsFit, KeepsPeople
<1> QED BY <1>1, <1>2

\* A contact that is written keeps its person.
LEMMA WriteKeepsPeople ==
  ASSUME ContactsTypeOK, NEW c \in ContactIds, NEW rec \in Contact,
         contact' = [contact EXCEPT ![c] = rec],
         c \in Existing => /\ Person(rec.phone) = Person(contact[c].phone)
                           /\ IsLid(rec.phone) => IsLid(contact[c].phone)
  PROVE  KeepsPeople
BY RowsWritten DEF KeepsPeople, Existing

\* A contact that is written is one person's.
LEMMA WriteFits ==
  ASSUME FitInv, NEW c \in ContactIds, NEW rec \in Contact,
         contact' = [contact EXCEPT ![c] = rec],
         Person(rec.jid) \in {Person(rec.phone), "none"}, IsLid(rec.phone) => IsLid(rec.jid)
  PROVE  ContactsFit'
<1> SUFFICES ASSUME NEW d \in Existing'
             PROVE  /\ Person(contact'[d].jid) \in {Person(contact'[d].phone), "none"}
                    /\ IsLid(contact'[d].phone) => IsLid(contact'[d].jid)
  BY DEF ContactsFit
<1>1. CASE d = c
  BY <1>1, RowsWritten DEF FitInv
<1>2. CASE d # c
  BY <1>2, RowsWritten DEF FitInv, ContactsFit, Existing
<1> QED BY <1>1, <1>2

\* Nothing is lost where no contact is written.
LEMMA SameContacts ==
  ASSUME FitInv, UNCHANGED contact
  PROVE  /\ KeepsPeople /\ ContactsFit' /\ Existing' = Existing
         /\ contact' \in [ContactIds -> Contact \cup {NoContact}]
BY DEF KeepsPeople, FitInv, ContactsFit, Existing, ContactsTypeOK

\* A contact under one of the sender's addresses is the sender's.
LEMMA UnderSender ==
  ASSUME ContactsTypeOK, NEW a \in Address, NEW c \in Under(a)
  PROVE  c \in Existing /\ c \in ContactIds /\ contact[c].phone = a
BY DEF Under, Existing

-------------------------------------------------------------------------------
(* The steps keep it *)

\* The actions that touch neither a contact nor a job under way.
LEMMA AddFits ==
  ASSUME FitInv, NEW m \in Inbound, NEW from \in Address, NEW jid \in Address \cup {NoAddress},
         NEW pn \in Address \cup {NoAddress}, Add(m, from, jid, pn), UNCHANGED contact, arriving' \subseteq arriving,
         from \in {Number(ByWhom[m]), Lid(ByWhom[m])}, jid \in {NoAddress, Number(ByWhom[m]), Lid(ByWhom[m])},
         IsLid(from) => jid = Lid(ByWhom[m]) /\ pn = NoAddress,
         pn # NoAddress => jid = Lid(ByWhom[m]) /\ from = Number(ByWhom[m])
  PROVE  /\ inbox' \in [Inbound -> Job] /\ JobsFit' /\ ContactsFit' /\ RowsFit'
         /\ \A n \in Inbound : \/ inbox'[n] = inbox[n]
                               \/ inbox[n] = NoJob /\ inbox'[n].pc = "queued"
<1> DEFINE new == [NoJob EXCEPT !.pc = "queued", !.from = from, !.jid = jid, !.pn = pn]
<1>1. new \in Job /\ new.pc = "queued" /\ new.from = from /\ new.jid = jid /\ new.pn = pn
  BY DEF Job, NoJob
<1>2. \/ inbox' = inbox
      \/ inbox[m] = NoJob /\ inbox' = [inbox EXCEPT ![m] = new]
  BY DEF Add
<1>3. CASE inbox' = inbox
  <2>1. RowsFit'
    BY <1>3, SameContacts, FoundStays DEF FitInv, RowsFit
  <2> QED BY <1>3, <2>1, SameContacts DEF FitInv, ContactsTypeOK, JobsFit
<1>4. CASE inbox[m] = NoJob /\ inbox' = [inbox EXCEPT ![m] = new]
  <2> HIDE DEF new
  <2>1. inbox' \in [Inbound -> Job] /\ inbox'[m] = new /\ \A n \in Inbound \ {m} : inbox'[n] = inbox[n]
    BY <1>1, <1>4 DEF FitInv, ContactsTypeOK
  <2>2. JobsFit'
    BY <1>1, <2>1 DEF FitInv, JobsFit
  <2>3. RowsFit'
    BY <1>1, <2>1, SameContacts, FoundStays DEF FitInv, RowsFit
  <2> QED BY <1>1, <1>4, <2>1, <2>2, <2>3, SameContacts
<1> QED BY <1>2, <1>3, <1>4

\* A message comes with its sender's addresses.
LEMMA GatewayFits ==
  ASSUME FitInv,
         \/ \E m \in Inbound : Webhook(m) \/ \E jid \in Address, alt \in BOOLEAN : NormalizeInbound(m, jid, alt)
         \/ \E chat \in arriving : WithResolvedPhone(chat)
         \/ \E typed \in SUBSET People : CreateBroadcast(typed)
  PROVE  /\ FitInv' /\ UNCHANGED <<contact, blurred>>
         /\ \A n \in Inbound : \/ inbox'[n] = inbox[n]
                               \/ inbox[n] = NoJob /\ inbox'[n].pc = "queued"
<1>1. CASE \E m \in Inbound : Webhook(m)
  <2> PICK m \in Inbound : Webhook(m)
    BY <1>1
  <2> ByWhom[m] \in People
    BY ContactsAssumption
  <2>1. /\ inbox' \in [Inbound -> Job] /\ JobsFit' /\ ContactsFit' /\ RowsFit'
        /\ \A n \in Inbound : inbox'[n] = inbox[n] \/ (inbox[n] = NoJob /\ inbox'[n].pc = "queued")
    BY AddFits, Addresses, NobodysAddress DEF Webhook
  <2>2. arrivals' \in [Inbound -> 0..MaxDeliveries]
    BY ContactsAssumption DEF Webhook, FitInv, ContactsTypeOK
  <2> QED BY <2>1, <2>2 DEF FitInv, ContactsTypeOK, Webhook
<1>2. CASE \E m \in Inbound : \E jid \in Address, alt \in BOOLEAN : NormalizeInbound(m, jid, alt)
  <2> PICK m \in Inbound, jid \in Address, alt \in BOOLEAN : NormalizeInbound(m, jid, alt)
    BY <1>2
  <2>1. arrivals' \in [Inbound -> 0..MaxDeliveries]
    BY ContactsAssumption DEF NormalizeInbound, FitInv, ContactsTypeOK
  <2>2. arriving' \subseteq Chat
    BY DEF NormalizeInbound, FitInv, ContactsTypeOK, Chat
  <2>3. JobsFit'
    BY DEF NormalizeInbound, FitInv, JobsFit
  <2>4. RowsFit'
    BY SameContacts, FoundStays DEF NormalizeInbound, FitInv, RowsFit
  <2> QED BY <2>1, <2>2, <2>3, <2>4, SameContacts DEF FitInv, ContactsTypeOK, NormalizeInbound
<1>3. CASE \E chat \in arriving : WithResolvedPhone(chat)
  <2> PICK chat \in arriving : WithResolvedPhone(chat)
    BY <1>3
  <2> DEFINE m == chat.message
  <2>1. /\ m \in Inbound /\ chat.jid \in Address /\ Person(chat.jid) = ByWhom[m] /\ ByWhom[m] \in People
        /\ chat.jid \in {Number(ByWhom[m]), Lid(ByWhom[m])}
    BY ContactsAssumption, AddressKinds DEF FitInv, ContactsTypeOK, Chat, JobsFit
  <2>2. PICK pn \in SenderPn(chat) : Add(m, IF pn = NoAddress THEN chat.jid ELSE pn, chat.jid, pn)
    BY DEF WithResolvedPhone
  <2>3. /\ pn \in {NoAddress, Number(ByWhom[m])}
        /\ pn # NoAddress => chat.jid = Lid(ByWhom[m])
    BY <2>1, Addresses DEF SenderPn
  <2> DEFINE from == IF pn = NoAddress THEN chat.jid ELSE pn
  <2>4. /\ from \in Address /\ from \in {Number(ByWhom[m]), Lid(ByWhom[m])}
        /\ IsLid(from) => chat.jid = Lid(ByWhom[m]) /\ pn = NoAddress
        /\ pn # NoAddress => chat.jid = Lid(ByWhom[m]) /\ from = Number(ByWhom[m])
        /\ pn \in Address \cup {NoAddress}
    BY <2>1, <2>3, Addresses
  <2>5. Add(m, from, chat.jid, pn) /\ UNCHANGED contact /\ arriving' \subseteq arriving
    BY <2>2 DEF WithResolvedPhone
  <2> HIDE DEF from
  <2>6. /\ inbox' \in [Inbound -> Job] /\ JobsFit' /\ ContactsFit' /\ RowsFit'
        /\ \A n \in Inbound : inbox'[n] = inbox[n] \/ (inbox[n] = NoJob /\ inbox'[n].pc = "queued")
    BY <2>1, <2>4, <2>5, AddFits
  <2> QED BY <2>6 DEF FitInv, ContactsTypeOK, WithResolvedPhone
<1>4. CASE \E typed \in SUBSET People : CreateBroadcast(typed)
  <2> PICK typed \in SUBSET People : CreateBroadcast(typed)
    BY <1>4
  <2>1. campaign' \subseteq Address
    BY Addresses, ContactOf DEF CreateBroadcast, CollectAudience, FitInv
  <2>2. JobsFit'
    BY DEF CreateBroadcast, FitInv, JobsFit
  <2>3. RowsFit'
    BY SameContacts, FoundStays DEF CreateBroadcast, FitInv, RowsFit
  <2> QED BY <2>1, <2>2, <2>3, SameContacts DEF FitInv, ContactsTypeOK, CreateBroadcast
<1> QED BY <1>1, <1>2, <1>3, <1>4

\* No job of a paired number goes on, unless behind a LID.
LEMMA StartFits ==
  ASSUME FitInv, NEW m \in Inbound, StartJob(m)
  PROVE  /\ FitInv'
         /\ inbox[m].pc = "queued"
         /\ \E pc \in {"dropped", "find"} : Goes(m, pc, "none") /\ (pc = "find" => ~IsForeignPlatformNumber(m))
<1>1. inbox[m].pc = "queued" /\ UNCHANGED <<arrivals, arriving, contact, campaign>>
  BY DEF StartJob, JobAt
<1>2. PICK pc \in {"dropped", "find"} : Goes(m, pc, "none") /\ (pc = "find" => ~IsForeignPlatformNumber(m))
  BY DEF StartJob
<1>3. ByWhom[m] \in People /\ blurred' \subseteq People
  BY ContactsAssumption DEF StartJob, FitInv, ContactsTypeOK
<1>4. pc = "find" /\ ByWhom[m] \in Paired => IsLid(inbox[m].from)
  BY <1>1, <1>2, <1>3, Addresses DEF IsForeignPlatformNumber, FitInv, JobsFit
<1>5. JobsFit'
  BY <1>1, <1>2, <1>4, JobsFitOnMove DEF Pcs
<1>6. RowsFit'
  BY <1>1, <1>2, SameContacts, RowsFitOnMove DEF Pcs
<1> QED BY <1>1, <1>2, <1>3, <1>5, <1>6, SameContacts, JobMoves DEF FitInv, ContactsTypeOK, Pcs

\* The jobs that only read go on with the sender's contact, and create one only
\* when there is none under the hidden number.
LEMMA LooksFit ==
  ASSUME FitInv, NEW m \in Inbound, Looking(m)
  PROVE  /\ FitInv' /\ Working(m) /\ UNCHANGED <<contact, blurred>>
         /\ \E pc \in Pcs, row \in ContactIds \cup {"none"} :
              /\ Goes(m, pc, row)
              /\ pc = "create" => inbox[m].pn = NoAddress \/ Under(Lid(ByWhom[m])) = {}
              /\ pc \in {"failed"} => inbox[m].pc = "conflict" /\ Under(inbox[m].from) = {}
              /\ pc \notin {"conflict", "queued"}
<1>1. Working(m) /\ UNCHANGED <<arrivals, arriving, contact, campaign, blurred>>
  BY LooksAre DEF FitInv
<1>2. /\ inbox[m].pc # "absent" /\ inbox[m].from \in Address /\ ByWhom[m] \in People
      /\ Person(inbox[m].from) = ByWhom[m]
      /\ ByWhom[m] \in Paired => IsLid(inbox[m].from)
      /\ inbox[m].pn # NoAddress => inbox[m].jid = Lid(ByWhom[m]) /\ inbox[m].from = Number(ByWhom[m])
      /\ IsLid(inbox[m].from) => inbox[m].jid = Lid(ByWhom[m])
      /\ inbox[m].pc \in {"legacy", "migrate"} => inbox[m].pn # NoAddress
  BY <1>1, JobSender DEF Working, FitInv, JobsFit
<1>3. PICK pc \in Pcs, row \in ContactIds \cup {"none"} :
         /\ Goes(m, pc, row)
         /\ pc \in {"legacy", "migrate"} => inbox[m].pn # NoAddress
         /\ pc \in {"migrate", "refresh", "filed"} => row \in Existing /\ Person(contact[row].phone) = ByWhom[m]
         /\ pc \in {"migrate", "refresh"} /\ IsLid(contact[row].phone) => IsLid(inbox[m].jid)
         /\ pc = "create" => inbox[m].pn = NoAddress \/ Under(Lid(ByWhom[m])) = {}
         /\ pc \in {"failed"} => inbox[m].pc = "conflict" /\ Under(inbox[m].from) = {}
         /\ pc \notin {"conflict", "queued", "dropped", "absent"}
  <2>1. CASE FindContact(m)
    <3>1. CASE \E c \in Under(inbox[m].from) : Settle(m, c)
      <4> PICK c \in Under(inbox[m].from) : Settle(m, c)
        BY <3>1
      <4>1. c \in Existing /\ c \in ContactIds /\ contact[c].phone = inbox[m].from
        BY <1>2, UnderSender DEF FitInv
      <4>2. PICK pc \in {"refresh", "filed"} : Goes(m, pc, c)
        BY <4>1, Settles DEF FitInv
      <4>3. IsLid(contact[c].phone) => IsLid(inbox[m].jid)
        BY <1>2, <4>1, Addresses
      <4> QED BY <1>2, <4>1, <4>2, <4>3 DEF Pcs
    <3>2. CASE /\ Under(inbox[m].from) = {}
               /\ Goes(m, IF LegacyKey(m) # NoAddress THEN "legacy" ELSE "create", "none")
      <4>1. inbox[m].pn = NoAddress <=> LegacyKey(m) = NoAddress
        BY <1>2, Addresses, NobodysAddress DEF LegacyKey
      <4> QED BY <3>2, <4>1 DEF Pcs
    <3> QED BY <2>1, <3>1, <3>2 DEF FindContact
  <2>2. CASE FindLegacy(m)
    <3>1. inbox[m].pc = "legacy" /\ LegacyKey(m) = Lid(ByWhom[m]) /\ Lid(ByWhom[m]) \in Address
      BY <1>2, <2>2, Addresses DEF FindLegacy, JobAt, LegacyKey
    <3>2. CASE \E c \in Under(LegacyKey(m)) : Goes(m, "migrate", c)
      <4> PICK c \in Under(LegacyKey(m)) : Goes(m, "migrate", c)
        BY <3>2
      <4>1. c \in Existing /\ c \in ContactIds /\ contact[c].phone = Lid(ByWhom[m])
        BY <3>1, UnderSender DEF FitInv
      <4> QED BY <1>2, <3>1, <4>1, Addresses DEF Pcs
    <3>3. CASE Under(LegacyKey(m)) = {} /\ Goes(m, "create", "none")
      BY <3>1, <3>3 DEF Pcs
    <3> QED BY <2>2, <3>2, <3>3 DEF FindLegacy
  <2>3. CASE FindWinner(m)
    <3>1. CASE \E c \in Under(inbox[m].from) : Goes(m, "filed", c)
      BY <1>2, <3>1, UnderSender DEF FitInv, Pcs
    <3>2. CASE Under(inbox[m].from) = {} /\ Goes(m, "failed", "none")
      BY <2>3, <3>2 DEF FindWinner, JobAt, Pcs
    <3> QED BY <2>3, <3>1, <3>2 DEF FindWinner
  <2> QED BY <2>1, <2>2, <2>3 DEF Looking
<1>4. JobsFit'
  BY <1>1, <1>2, <1>3, JobsFitOnMove
<1>5. contact' = contact /\ KeepsPeople /\ Existing' = Existing
  BY <1>1, SameContacts
<1>6. inbox'[m].row = row /\ inbox'[m].jid = inbox[m].jid
  BY <1>3, JobMoves DEF FitInv
<1>7. pc \in {"migrate", "refresh"} => Found(m)'
  BY <1>3, <1>5, <1>6 DEF Found
<1>8. RowsFit'
  BY <1>3, <1>5, <1>7, RowsFitOnMove
<1> QED BY <1>1, <1>3, <1>4, <1>8, SameContacts, JobMoves DEF FitInv, ContactsTypeOK

\* What a job writes of its sender: a contact of the sender's own, or a new one.
LEMMA WriteOfJob ==
  ASSUME FitInv, NEW m \in Inbound, inbox[m].pc # "absent",
         NEW c \in ContactIds, NEW rec \in Contact,
         contact' = [contact EXCEPT ![c] = rec],
         Person(rec.phone) = ByWhom[m], Person(rec.jid) \in {ByWhom[m], "none"},
         IsLid(rec.phone) => IsLid(rec.jid),
         c \in Existing => /\ Person(contact[c].phone) = ByWhom[m]
                           /\ IsLid(rec.phone) => IsLid(contact[c].phone),
         UNCHANGED <<arrivals, arriving, campaign>>, blurred' \subseteq People,
         Goes(m, "filed", c),
         inbox[m].pc # "queued",
         inbox[m].pc # "dropped"
  PROVE  FitInv' /\ KeepsPeople
<1>1. KeepsPeople
  BY WriteKeepsPeople DEF FitInv
<1>2. ContactsFit'
  BY WriteFits
<1>3. JobsFit'
  BY JobsFitOnMove DEF Pcs, FitInv, JobsFit
<1>4. c \in Existing' /\ Person(contact'[c].phone) = ByWhom[m]
  <2>1. ContactsTypeOK
    BY DEF FitInv
  <2>2. Existing' = Existing \cup {c} /\ contact'[c] = rec
    BY <2>1, RowsWritten
  <2> QED BY <2>2
<1>5. RowsFit'
  BY <1>1, <1>4, RowsFitOnMove DEF Pcs
<1> QED BY <1>1, <1>2, <1>3, <1>5, RowsWritten, JobMoves DEF FitInv, ContactsTypeOK, Pcs

\* How a job ends at a contact it did not look for.
LEMMA SettleFits ==
  ASSUME FitInv, NEW m \in Inbound, inbox[m].pc \notin {"absent", "queued", "dropped"},
         NEW c \in Existing, contact[c].phone = inbox[m].from, Settle(m, c),
         UNCHANGED <<arrivals, arriving, contact, campaign, blurred>>
  PROVE  FitInv' /\ \E pc \in {"refresh", "filed"} : Goes(m, pc, c)
<1>1. PICK pc \in {"refresh", "filed"} : Goes(m, pc, c)
  BY Settles DEF FitInv
<1>2. c \in ContactIds
  BY DEF Existing
<1>3. JobsFit'
  BY <1>1, <1>2, JobsFitOnMove DEF Pcs, FitInv, JobsFit
<1>4. contact' = contact /\ KeepsPeople /\ Existing' = Existing
  BY SameContacts
<1>5. Person(contact[c].phone) = ByWhom[m] /\ (IsLid(contact[c].phone) => IsLid(inbox[m].jid))
  BY JobSender, Addresses DEF FitInv, JobsFit
<1>6. inbox'[m].row = c /\ inbox'[m].jid = inbox[m].jid
  BY <1>1, <1>2, JobMoves DEF FitInv, Pcs
<1>7. Found(m)'
  BY <1>4, <1>5, <1>6 DEF Found
<1>8. RowsFit'
  BY <1>1, <1>2, <1>4, <1>5, <1>7, RowsFitOnMove DEF Pcs
<1> QED BY <1>1, <1>2, <1>3, <1>8, SameContacts, JobMoves DEF FitInv, ContactsTypeOK, Pcs

\* The contact that gets the number is the sender's already.
LEMMA MigrateFits ==
  ASSUME FitInv, NEW m \in Inbound, Migrate(m)
  PROVE  /\ FitInv' /\ UNCHANGED blurred /\ inbox[m].pc = "migrate"
         /\ inbox[m].from = Number(ByWhom[m])
         /\ \/ /\ \E pc \in {"refresh", "filed"}, c \in ContactIds : Goes(m, pc, c)
               /\ UNCHANGED contact
            \/ /\ inbox[m].row \in Existing /\ Person(contact[inbox[m].row].phone) = ByWhom[m]
               /\ contact' = [contact EXCEPT ![inbox[m].row] = [phone |-> inbox[m].from, jid |-> inbox[m].jid]]
               /\ [phone |-> inbox[m].from, jid |-> inbox[m].jid] \in Contact
               /\ Goes(m, "filed", inbox[m].row)
<1> DEFINE row == inbox[m].row
           rec == [phone |-> inbox[m].from, jid |-> inbox[m].jid]
           others == Under(inbox[m].from) \ {row}
<1>1. inbox[m].pc = "migrate" /\ UNCHANGED <<arrivals, arriving, campaign, blurred>>
  BY DEF Migrate, JobAt
<1>2. /\ row \in Existing /\ row \in ContactIds /\ Person(contact[row].phone) = ByWhom[m]
      /\ inbox[m].from = Number(ByWhom[m]) /\ inbox[m].jid = Lid(ByWhom[m]) /\ ByWhom[m] \in People
  BY <1>1, ContactsAssumption DEF FitInv, RowsFit, Found, JobsFit, Existing
<1>3. rec \in Contact /\ rec.phone = inbox[m].from /\ rec.jid = inbox[m].jid
  BY <1>2, Addresses DEF Contact
<1>4. CASE others = {} /\ contact' = [contact EXCEPT ![row] = rec] /\ Goes(m, "filed", row)
  <2>1. /\ Person(rec.phone) = ByWhom[m] /\ Person(rec.jid) = ByWhom[m] /\ ~IsLid(rec.phone)
        /\ blurred' \subseteq People
    BY <1>1, <1>2, <1>3, Addresses DEF FitInv, ContactsTypeOK
  <2> HIDE DEF rec, row
  <2>2. FitInv'
    BY <1>1, <1>2, <1>3, <1>4, <2>1, WriteOfJob
  <2> QED BY <1>1, <1>2, <1>3, <1>4, <2>2 DEF rec, row
<1>5. CASE (\E c \in others : Settle(m, c)) /\ UNCHANGED contact
  <2> PICK c \in others : Settle(m, c)
    BY <1>5
  <2>1. c \in Existing /\ c \in ContactIds /\ contact[c].phone = inbox[m].from
    BY <1>2, Addresses, UnderSender DEF FitInv
  <2> HIDE DEF others
  <2>2. FitInv' /\ \E pc \in {"refresh", "filed"} : Goes(m, pc, c)
    BY <1>1, <1>5, <2>1, SettleFits
  <2> QED BY <1>1, <1>2, <1>5, <2>1, <2>2
<1> QED BY <1>4, <1>5 DEF Migrate

\* The chat that is noted is the sender's.
LEMMA RefreshFits ==
  ASSUME FitInv, NEW m \in Inbound, RefreshJid(m)
  PROVE  /\ FitInv' /\ UNCHANGED blurred /\ inbox[m].pc = "refresh"
         /\ inbox[m].row \in ContactIds /\ Goes(m, "filed", inbox[m].row)
         /\ Existing' = Existing /\ \A c \in Existing : contact'[c].phone = contact[c].phone
<1> DEFINE row == inbox[m].row
           rec == [contact[row] EXCEPT !.jid = inbox[m].jid]
<1>1. /\ inbox[m].pc = "refresh" /\ UNCHANGED <<arrivals, arriving, campaign, blurred>>
      /\ contact' = [contact EXCEPT ![row] = rec] /\ Goes(m, "filed", row)
  BY DEF RefreshJid, JobAt
<1>2. /\ Found(m) /\ row \in ContactIds /\ inbox[m].jid \in Address \cup {NoAddress}
      /\ Person(contact[row].phone) = ByWhom[m]
  BY <1>1, JobSender DEF FitInv, RowsFit, Found, Existing
<1>3. contact[row] \in Contact /\ contact[row].phone \in Address
  BY <1>2, ContactOf DEF Found, FitInv
<1>4. rec \in Contact /\ rec.phone = contact[row].phone /\ rec.jid = inbox[m].jid
  BY <1>2, <1>3 DEF Contact
<1> HIDE DEF rec
<1>5. /\ Person(rec.phone) = ByWhom[m] /\ Person(rec.jid) \in {ByWhom[m], "none"}
      /\ IsLid(rec.phone) => IsLid(rec.jid)
      /\ blurred' \subseteq People
  BY <1>1, <1>2, <1>4, JobSender DEF Found, FitInv, ContactsTypeOK
<1>6. FitInv'
  <2> HIDE DEF row
  <2> QED BY <1>1, <1>2, <1>4, <1>5, WriteOfJob
<1>7. Existing' = Existing /\ \A c \in Existing : contact'[c].phone = contact[c].phone
  <2>1. row \in Existing
    BY <1>2 DEF Found
  <2>2. /\ Existing' = Existing \cup {row} /\ contact'[row] = rec
        /\ \A d \in ContactIds \ {row} : contact'[d] = contact[d]
    BY <1>1, <1>2, <1>4, RowsWritten DEF FitInv
  <2>3. Existing \subseteq ContactIds
    BY DEF Existing
  <2> QED BY <1>4, <2>1, <2>2, <2>3
<1> QED BY <1>1, <1>2, <1>6, <1>7

\* A created contact is the sender's.
LEMMA CreateFits ==
  ASSUME FitInv, NEW m \in Inbound, CreateContact(m)
  PROVE  /\ FitInv' /\ UNCHANGED blurred /\ inbox[m].pc = "create"
         /\ \/ /\ Goes(m, "conflict", "none") /\ UNCHANGED contact /\ Under(inbox[m].from) # {}
            \/ /\ Under(inbox[m].from) = {}
               /\ \E c \in ContactIds \ Existing :
                    /\ contact' = [contact EXCEPT ![c] = [phone |-> inbox[m].from, jid |-> inbox[m].jid]]
                    /\ [phone |-> inbox[m].from, jid |-> inbox[m].jid] \in Contact
                    /\ Goes(m, "filed", c)
<1> DEFINE rec == [phone |-> inbox[m].from, jid |-> inbox[m].jid]
<1>1. inbox[m].pc = "create" /\ UNCHANGED <<arrivals, arriving, campaign, blurred>>
  BY DEF CreateContact, JobAt
<1>2. /\ rec \in Contact /\ rec.phone = inbox[m].from /\ rec.jid = inbox[m].jid
      /\ Person(rec.phone) = ByWhom[m] /\ Person(rec.jid) \in {ByWhom[m], "none"}
      /\ IsLid(rec.phone) => IsLid(rec.jid)
  BY <1>1, JobSender, Addresses DEF Contact, FitInv, JobsFit
<1>3. CASE /\ Under(inbox[m].from) = {} /\ HasFree
           /\ contact' = [contact EXCEPT ![Freed] = rec] /\ Goes(m, "filed", Freed)
  <2> DEFINE c == Freed
  <2>1. c \in ContactIds \ Existing /\ blurred' \subseteq People
    BY <1>1, <1>3, FreedIsFree DEF FitInv, ContactsTypeOK
  <2> HIDE DEF rec, c
  <2>2. contact' = [contact EXCEPT ![c] = rec] /\ Goes(m, "filed", c)
    BY <1>3 DEF c
  <2>3. FitInv'
    BY <1>1, <1>2, <2>1, <2>2, WriteOfJob
  <2> QED BY <1>1, <1>2, <1>3, <2>1, <2>2, <2>3 DEF rec
<1>4. CASE Under(inbox[m].from) # {} /\ Goes(m, "conflict", "none") /\ UNCHANGED contact
  <2>1. JobsFit'
    BY <1>1, <1>4, JobsFitOnMove DEF Pcs, FitInv, JobsFit
  <2>2. RowsFit'
    BY <1>4, SameContacts, RowsFitOnMove DEF Pcs
  <2> QED BY <1>1, <1>4, <2>1, <2>2, SameContacts, JobMoves DEF FitInv, ContactsTypeOK, Pcs
<1> QED BY <1>3, <1>4 DEF CreateContact

\* A job that is run again starts anew.
LEMMA DeathFits ==
  ASSUME FitInv, WorkerDies
  PROVE  /\ FitInv' /\ UNCHANGED <<contact, blurred>>
         /\ \A m \in Inbound : ~Working(m)' /\ (inbox'[m] = inbox[m] \/ inbox'[m].pc = "queued")
<1>1. /\ inbox' = [m \in Inbound |-> IF Working(m) THEN [inbox[m] EXCEPT !.pc = "queued", !.row = "none"] ELSE inbox[m]]
      /\ UNCHANGED <<arrivals, arriving, contact, campaign, blurred>>
  BY DEF WorkerDies
<1>2. \A m \in Inbound :
         /\ inbox'[m] \in Job
         /\ \/ inbox'[m] = inbox[m] /\ ~Working(m)
            \/ /\ Working(m) /\ inbox'[m].pc = "queued"
               /\ inbox'[m].from = inbox[m].from /\ inbox'[m].jid = inbox[m].jid /\ inbox'[m].pn = inbox[m].pn
  <2> TAKE m \in Inbound
  <2> DEFINE job == inbox[m]
             again == [job EXCEPT !.pc = "queued", !.row = "none"]
  <2>1. job \in Job
    BY DEF FitInv, ContactsTypeOK
  <2>2. /\ again \in Job /\ again.pc = "queued"
        /\ again.from = job.from /\ again.jid = job.jid /\ again.pn = job.pn
    BY <2>1 DEF Job
  <2>3. inbox'[m] = IF Working(m) THEN again ELSE job
    BY <1>1
  <2> HIDE DEF again
  <2> QED BY <2>1, <2>2, <2>3
<1>3. JobsFit'
  <2> DEFINE Fits(m, job) ==
               LET p == ByWhom[m] IN
               /\ job.from \in {Number(p), Lid(p)} /\ job.jid \in {NoAddress, Number(p), Lid(p)}
               /\ IsLid(job.from) => job.jid = Lid(p) /\ job.pn = NoAddress
               /\ job.pn # NoAddress => job.jid = Lid(p) /\ job.from = Number(p)
               /\ job.pc \in {"legacy", "migrate"} => job.pn # NoAddress
               /\ job.pc \notin {"queued", "dropped"} /\ p \in Paired => IsLid(job.from)
  <2>1. \A chat \in arriving' : Person(chat.jid) = ByWhom[chat.message]
    BY <1>1 DEF FitInv, JobsFit
  <2>2. ASSUME NEW m \in Inbound, inbox'[m] = inbox[m], inbox'[m].pc # "absent"
        PROVE  Fits(m, inbox'[m])
    BY <2>2 DEF FitInv, JobsFit
  <2>3. ASSUME NEW m \in Inbound, Working(m), inbox'[m].pc = "queued", inbox'[m].from = inbox[m].from,
               inbox'[m].jid = inbox[m].jid, inbox'[m].pn = inbox[m].pn
        PROVE  Fits(m, inbox'[m])
    <3>1. inbox[m].pc # "absent"
      BY <2>3 DEF Working
    <3> QED BY <2>3, <3>1 DEF FitInv, JobsFit
  <2>4. \A m \in Inbound : inbox'[m].pc # "absent" => Fits(m, inbox'[m])
    BY <1>2, <2>2, <2>3
  <2> QED BY <2>1, <2>4 DEF JobsFit
<1>4. RowsFit'
  <2> SUFFICES ASSUME NEW n \in Inbound
               PROVE  /\ inbox'[n].pc \in {"migrate", "refresh"} => Found(n)'
                      /\ inbox'[n].pc = "filed" => /\ inbox'[n].row \in Existing'
                                                   /\ Person(contact'[inbox'[n].row].phone) = ByWhom[n]
    BY DEF RowsFit
  <2> QED BY <1>1, <1>2, SameContacts DEF FitInv, RowsFit, Working
<1>5. \A m \in Inbound : ~Working(m)' /\ (inbox'[m] = inbox[m] \/ inbox'[m].pc = "queued")
  BY <1>2 DEF Working
<1>6. inbox' \in [Inbound -> Job]
  BY <1>1, <1>2
<1> QED BY <1>1, <1>3, <1>4, <1>5, <1>6, SameContacts DEF FitInv, ContactsTypeOK

\* Other parts bring contacts in by number, with no chat.
LEMMA UpsertFits ==
  ASSUME FitInv, NEW a \in Address, ~IsLid(a), Upsert(a),
         UNCHANGED <<arrivals, arriving, inbox>>, campaign' \subseteq Address
  PROVE  /\ FitInv' /\ UNCHANGED inbox
         /\ \/ UNCHANGED <<contact, blurred>>
            \/ /\ blurred' = blurred \cup {Person(a)}
               /\ \E c \in ContactIds \ Existing :
                    /\ contact' = [contact EXCEPT ![c] = [phone |-> a, jid |-> NoAddress]]
                    /\ [phone |-> a, jid |-> NoAddress] \in Contact
<1> DEFINE rec == [phone |-> a, jid |-> NoAddress]
<1>1. CASE UNCHANGED <<contact, blurred>>
  <2>1. JobsFit'
    BY DEF FitInv, JobsFit
  <2>2. RowsFit'
    BY <1>1, SameContacts, FoundStays DEF FitInv, RowsFit
  <2> QED BY <1>1, <2>1, <2>2, SameContacts DEF FitInv, ContactsTypeOK
<1>2. CASE HasFree /\ contact' = [contact EXCEPT ![Freed] = rec] /\ blurred' = blurred \cup {Person(a)}
  <2> DEFINE c == Freed
  <2>1. c \in ContactIds \ Existing
    BY <1>2, FreedIsFree
  <2>2. rec \in Contact /\ rec.phone = a /\ rec.jid = NoAddress
    BY DEF Contact
  <2>3. blurred' \subseteq People
    BY <1>2, AddressKinds DEF FitInv, ContactsTypeOK
  <2> HIDE DEF rec, c
  <2>4. contact' = [contact EXCEPT ![c] = rec]
    BY <1>2 DEF c
  <2>5. KeepsPeople
    BY <2>1, <2>2, <2>4, WriteKeepsPeople DEF FitInv
  <2>6. ContactsFit'
    BY <2>1, <2>2, <2>4, NobodysAddress, WriteFits
  <2>7. JobsFit'
    BY DEF FitInv, JobsFit
  <2>8. RowsFit'
    BY <2>5, FoundStays DEF FitInv, RowsFit, KeepsPeople
  <2>9. contact' \in [ContactIds -> Contact \cup {NoContact}]
    BY <2>1, <2>2, <2>4, RowsWritten DEF FitInv
  <2> QED BY <1>2, <2>1, <2>2, <2>3, <2>4, <2>6, <2>7, <2>8, <2>9 DEF FitInv, ContactsTypeOK, rec
<1> QED BY <1>1, <1>2 DEF Upsert

-------------------------------------------------------------------------------
(* One lead each *)

\* Broadcasts are sent to numbers.
AudienceFit == \A a \in campaign : ~IsLid(a)

BlurInv == PairsBlur /\ LosersBlur /\ Clear /\ OneLeadEach

\* Contacts keep the addresses they are under.
SamePhones == Existing' = Existing /\ \A c \in Existing : contact'[c].phone = contact[c].phone

\* The contacts under an address stay.
LEMMA SameUnder ==
  ASSUME SamePhones PROVE \A a : Under(a)' = Under(a)
BY DEF SamePhones, Under

\* They do where no contact is written.
LEMMA SameAreSame == UNCHANGED contact => SamePhones
BY DEF SamePhones, Existing

\* A working job that goes on, with what its next place asks for.
LEMMA MoveBlurs ==
  ASSUME FitInv, BlurInv, SamePhones, UNCHANGED blurred,
         NEW m \in Inbound, NEW pc \in Pcs, NEW row \in ContactIds \cup {"none"},
         Working(m), Goes(m, pc, row),
         pc = "conflict" => Under(inbox[m].from) # {},
         pc = "failed" => inbox[m].pc = "conflict" /\ Under(inbox[m].from) = {},
         pc = "create" => inbox[m].pn = NoAddress \/ Under(Lid(ByWhom[m])) = {}
  PROVE  BlurInv'
<1>1. /\ inbox'[m].pc = pc /\ inbox'[m].from = inbox[m].from /\ inbox'[m].pn = inbox[m].pn
      /\ \A n \in Inbound \ {m} : inbox'[n] = inbox[n]
  BY JobMoves DEF FitInv
<1>2. \A n \in Inbound : inbox'[n].from = inbox[n].from /\ inbox'[n].pn = inbox[n].pn /\ (Working(n)' => Working(n))
  BY <1>1 DEF Working
<1>3. \A a : Under(a)' = Under(a)
  BY SameUnder
<1>4. PairsBlur'
  BY <1>2 DEF BlurInv, PairsBlur
<1>5. LosersBlur'
  <2> SUFFICES ASSUME NEW n \in Inbound
               PROVE  /\ inbox'[n].pc = "conflict" => (Under(inbox[n].from) # {})' \/ ByWhom[n] \in blurred'
                      /\ inbox'[n].pc = "failed" => ByWhom[n] \in blurred'
    BY DEF LosersBlur
  <2>1. (Under(inbox[n].from))' = Under(inbox[n].from)
    BY <1>2 DEF SamePhones, Under
  <2> QED BY <1>1, <2>1 DEF BlurInv, LosersBlur
<1>6. Clear'
  <2> SUFFICES ASSUME NEW n \in Inbound, Working(n)', ByWhom[n] \notin blurred'
               PROVE  /\ IsLid(inbox'[n].from) => Under(Number(ByWhom[n]))' = {}
                      /\ ~IsLid(inbox'[n].from) /\ (inbox'[n].pn = NoAddress \/ inbox'[n].pc = "create")
                           => Under(Lid(ByWhom[n]))' = {}
    BY DEF Clear
  <2>1. Under(Number(ByWhom[n]))' = Under(Number(ByWhom[n])) /\ Under(Lid(ByWhom[n]))' = Under(Lid(ByWhom[n]))
    BY <1>3
  <2> QED BY <1>1, <1>2, <2>1 DEF BlurInv, Clear
<1>7. OneLeadEach'
  BY DEF BlurInv, OneLeadEach, SamePhones
<1> QED BY <1>4, <1>5, <1>6, <1>7 DEF BlurInv

\* Jobs come to the queue, or back to it.
LEMMA RestBlurs ==
  ASSUME FitInv, BlurInv, UNCHANGED <<contact, blurred>>,
         \A n \in Inbound : inbox'[n] = inbox[n] \/ inbox'[n].pc = "queued"
  PROVE  BlurInv'
<1>1. \A a : Under(a)' = Under(a)
  BY SameUnder, SameAreSame
<1>2. \A n \in Inbound : (Working(n)' => inbox'[n] = inbox[n] /\ Working(n))
  BY DEF Working
<1>3. PairsBlur'
  BY <1>2 DEF BlurInv, PairsBlur
<1>4. LosersBlur'
  BY <1>1 DEF BlurInv, LosersBlur
<1>5. Clear'
  <2> SUFFICES ASSUME NEW n \in Inbound, Working(n)', ByWhom[n] \notin blurred'
               PROVE  /\ IsLid(inbox'[n].from) => Under(Number(ByWhom[n]))' = {}
                      /\ ~IsLid(inbox'[n].from) /\ (inbox'[n].pn = NoAddress \/ inbox'[n].pc = "create")
                           => Under(Lid(ByWhom[n]))' = {}
    BY DEF Clear
  <2>1. Under(Number(ByWhom[n]))' = Under(Number(ByWhom[n])) /\ Under(Lid(ByWhom[n]))' = Under(Lid(ByWhom[n]))
    BY <1>1
  <2> QED BY <1>2, <2>1 DEF BlurInv, Clear
<1>6. OneLeadEach'
  BY SameAreSame DEF BlurInv, OneLeadEach, SamePhones
<1> QED BY <1>3, <1>4, <1>5, <1>6 DEF BlurInv

\* The job that starts blurs its sender if it must.
LEMMA StartBlurs ==
  ASSUME FitInv, BlurInv, NEW m \in Inbound, StartJob(m)
  PROVE  BlurInv'
<1>1. PICK pc \in {"dropped", "find"} : Goes(m, pc, "none") /\ (pc = "find" => ~IsForeignPlatformNumber(m))
  BY StartFits
<1>2. /\ inbox[m].pc = "queued" /\ inbox'[m].pc = pc
      /\ inbox'[m].from = inbox[m].from /\ inbox'[m].pn = inbox[m].pn
      /\ \A n \in Inbound \ {m} : inbox'[n] = inbox[n]
  BY <1>1, JobMoves, StartFits DEF FitInv, Pcs
<1>3. /\ UNCHANGED contact /\ blurred \subseteq blurred'
      /\ pc = "find" /\ Blurs(m) => ByWhom[m] \in blurred'
  BY <1>1 DEF StartJob
<1>4. \A a : Under(a)' = Under(a)
  BY <1>3, SameUnder, SameAreSame
<1>5. \A n \in Inbound : Working(n)' <=> IF n = m THEN pc = "find" ELSE Working(n)
  BY <1>2 DEF Working
<1>6. PairsBlur'
  <2> SUFFICES ASSUME NEW n \in Inbound, NEW k \in Inbound, Working(n)', Working(k)', ByWhom[n] = ByWhom[k],
                      inbox'[n].from # inbox'[k].from
               PROVE  ByWhom[n] \in blurred'
    BY DEF PairsBlur
  <2>1. CASE n # m /\ k # m
    BY <1>2, <1>3, <1>5, <2>1 DEF BlurInv, PairsBlur
  <2>2. CASE n = m /\ k # m
    BY <1>2, <1>3, <1>5, <2>2 DEF Blurs
  <2>3. CASE n # m /\ k = m
    BY <1>2, <1>3, <1>5, <2>3 DEF Blurs
  <2> QED BY <2>1, <2>2, <2>3
<1>7. LosersBlur'
  <2> SUFFICES ASSUME NEW n \in Inbound
               PROVE  /\ inbox'[n].pc = "conflict" => (Under(inbox[n].from) # {})' \/ ByWhom[n] \in blurred'
                      /\ inbox'[n].pc = "failed" => ByWhom[n] \in blurred'
    BY DEF LosersBlur
  <2>1. (Under(inbox[n].from))' = Under(inbox[n].from)
    BY <1>2, <1>3, SameAreSame DEF SamePhones, Under
  <2> QED BY <1>2, <1>3, <2>1 DEF BlurInv, LosersBlur
<1>8. Clear'
  <2> SUFFICES ASSUME NEW n \in Inbound, Working(n)', ByWhom[n] \notin blurred'
               PROVE  /\ IsLid(inbox'[n].from) => Under(Number(ByWhom[n]))' = {}
                      /\ ~IsLid(inbox'[n].from) /\ (inbox'[n].pn = NoAddress \/ inbox'[n].pc = "create")
                           => Under(Lid(ByWhom[n]))' = {}
    BY DEF Clear
  <2>1. Under(Number(ByWhom[n]))' = Under(Number(ByWhom[n])) /\ Under(Lid(ByWhom[n]))' = Under(Lid(ByWhom[n]))
    BY <1>4
  <2>2. CASE n = m
    BY <1>2, <1>3, <1>5, <2>1, <2>2 DEF Blurs
  <2>3. CASE n # m
    BY <1>2, <1>3, <1>5, <2>1, <2>3 DEF BlurInv, Clear
  <2> QED BY <2>2, <2>3
<1>9. OneLeadEach'
  BY <1>3, SameAreSame DEF BlurInv, OneLeadEach, SamePhones
<1> QED BY <1>6, <1>7, <1>8, <1>9 DEF BlurInv

\* A contact that is written blurs nobody it should not.
LEMMA WriteBlurs ==
  ASSUME FitInv, BlurInv, NEW c \in ContactIds, NEW rec \in Contact,
         contact' = [contact EXCEPT ![c] = rec], blurred \subseteq blurred',
         \A n \in Inbound : inbox'[n] = inbox[n] \/ inbox'[n].pc = "filed",
         c \in Existing => Person(contact[c].phone) = Person(rec.phone),
         \A d \in Existing \ {c} : Person(contact[d].phone) = Person(rec.phone) => Person(rec.phone) \in blurred',
         \A n \in Inbound : Working(n)' /\ ByWhom[n] = Person(rec.phone) /\ ByWhom[n] \notin blurred'
                              => inbox[n].from = rec.phone
  PROVE  BlurInv'
<1>1. /\ Existing' = Existing \cup {c} /\ contact'[c] = rec
      /\ \A d \in ContactIds \ {c} : contact'[d] = contact[d]
  BY RowsWritten DEF FitInv
<1>2. \A n \in Inbound : Working(n)' => inbox'[n] = inbox[n] /\ Working(n)
  BY DEF Working
<1>3. \A n \in Inbound : Working(n) => Person(inbox[n].from) = ByWhom[n]
  BY JobSender DEF FitInv, Working
<1>4. PairsBlur'
  BY <1>2 DEF BlurInv, PairsBlur
<1>5. LosersBlur'
  <2> SUFFICES ASSUME NEW n \in Inbound
               PROVE  /\ inbox'[n].pc = "conflict" => (Under(inbox[n].from) # {})' \/ ByWhom[n] \in blurred'
                      /\ inbox'[n].pc = "failed" => ByWhom[n] \in blurred'
    BY DEF LosersBlur
  <2>1. CASE inbox'[n].pc = "failed"
    BY <2>1 DEF BlurInv, LosersBlur
  <2>2. CASE inbox'[n].pc = "conflict" /\ ByWhom[n] \notin blurred'
    <3>1. inbox'[n] = inbox[n] /\ Working(n)' /\ Working(n)
      BY <2>2 DEF Working
    <3>2. PICK d \in Existing : contact[d].phone = inbox[n].from
      BY <2>2, <3>1 DEF BlurInv, LosersBlur, Under
    <3>3. d \in ContactIds
      BY DEF Existing
    <3>4. d = c => rec.phone = inbox[n].from
      BY <1>3, <2>2, <3>1, <3>2
    <3>5. d \in Existing' /\ contact'[d].phone = inbox'[n].from
      BY <1>1, <3>1, <3>2, <3>3, <3>4
    <3> QED BY <2>2, <3>5 DEF Under
  <2> QED BY <2>1, <2>2
<1>6. Clear'
  <2> SUFFICES ASSUME NEW n \in Inbound, Working(n)', ByWhom[n] \notin blurred'
               PROVE  /\ IsLid(inbox'[n].from) => Under(Number(ByWhom[n]))' = {}
                      /\ ~IsLid(inbox'[n].from) /\ (inbox'[n].pn = NoAddress \/ inbox'[n].pc = "create")
                           => Under(Lid(ByWhom[n]))' = {}
    BY DEF Clear
  <2>1. inbox'[n] = inbox[n] /\ Working(n) /\ ByWhom[n] \in People /\ ByWhom[n] \notin blurred
    BY <1>2, ContactsAssumption
  <2>2. ASSUME NEW a, Person(a) = ByWhom[n], a # inbox[n].from, Under(a) = {}
        PROVE  Under(a)' = {}
    <3>1. rec.phone # a
      BY <2>1, <2>2
    <3>2. \A d \in Existing : contact[d].phone # a
      BY <2>2 DEF Under
    <3>3. \A d \in Existing' : contact'[d].phone # a
      BY <1>1, <3>1, <3>2 DEF Existing
    <3> QED BY <3>3 DEF Under
  <2>3. CASE IsLid(inbox[n].from)
    <3>1. Under(Number(ByWhom[n])) = {}
      BY <2>1, <2>3 DEF BlurInv, Clear
    <3>2. Person(Number(ByWhom[n])) = ByWhom[n] /\ Number(ByWhom[n]) # inbox[n].from
      BY <2>1, <2>3, Addresses
    <3> QED BY <2>1, <2>2, <2>3, <3>1, <3>2
  <2>4. CASE ~IsLid(inbox[n].from) /\ (inbox[n].pn = NoAddress \/ inbox[n].pc = "create")
    <3>1. Under(Lid(ByWhom[n])) = {}
      BY <2>1, <2>4 DEF BlurInv, Clear
    <3>2. Person(Lid(ByWhom[n])) = ByWhom[n] /\ Lid(ByWhom[n]) # inbox[n].from
      BY <2>1, <2>4, Addresses
    <3> QED BY <2>1, <2>2, <2>4, <3>1, <3>2
  <2> QED BY <2>1, <2>3, <2>4
<1>7. OneLeadEach'
  <2>1. \A d \in Existing : d \in ContactIds
    BY DEF Existing
  <2>2. \A d \in Existing' : Person(contact'[d].phone) = IF d = c THEN Person(rec.phone) ELSE Person(contact[d].phone)
    BY <1>1, <2>1
  <2> SUFFICES ASSUME NEW d \in Existing', NEW e \in Existing', d # e,
                      Person(contact'[d].phone) = Person(contact'[e].phone)
               PROVE  Person(contact'[d].phone) \in blurred'
    BY DEF OneLeadEach
  <2>3. CASE d # c /\ e # c
    BY <1>1, <2>2, <2>3 DEF BlurInv, OneLeadEach
  <2>4. CASE d = c \/ e = c
    BY <1>1, <2>2, <2>4
  <2> QED BY <2>3, <2>4
<1> QED BY <1>4, <1>5, <1>6, <1>7 DEF BlurInv

\* The others under way for the sender look under the number already, or blur.
LEMMA MigrateBlurs ==
  ASSUME FitInv, BlurInv, NEW m \in Inbound, Migrate(m)
  PROVE  BlurInv'
<1> DEFINE rec == [phone |-> inbox[m].from, jid |-> inbox[m].jid]
<1>1. /\ UNCHANGED blurred /\ Working(m) /\ inbox[m].from = Number(ByWhom[m]) /\ ByWhom[m] \in People
      /\ inbox[m].pc = "migrate"
  BY MigrateFits, ContactsAssumption DEF Working
<1>2. CASE UNCHANGED contact /\ \E pc \in {"refresh", "filed"}, c \in ContactIds : Goes(m, pc, c)
  BY <1>1, <1>2, MoveBlurs, SameAreSame DEF Pcs
<1>3. CASE /\ inbox[m].row \in Existing /\ Person(contact[inbox[m].row].phone) = ByWhom[m]
           /\ contact' = [contact EXCEPT ![inbox[m].row] = rec]
           /\ rec \in Contact /\ Goes(m, "filed", inbox[m].row)
  <2>1. inbox[m].row \in ContactIds
    BY <1>3 DEF Existing
  <2>2. inbox'[m].pc = "filed" /\ \A n \in Inbound \ {m} : inbox'[n] = inbox[n]
    BY <1>3, <2>1, JobMoves DEF FitInv, Pcs
  <2>3. rec.phone = inbox[m].from /\ Person(rec.phone) = ByWhom[m]
    BY <1>1, Addresses
  <2>4. \A d \in Existing \ {inbox[m].row} : Person(contact[d].phone) = ByWhom[m] => ByWhom[m] \in blurred
    BY <1>3 DEF BlurInv, OneLeadEach
  <2>5. \A n \in Inbound : Working(n)' => n # m /\ Working(n)
    BY <2>2 DEF Working
  <2>6. \A n \in Inbound : Working(n)' /\ ByWhom[n] = ByWhom[m] /\ ByWhom[n] \notin blurred
                            => inbox[n].from = inbox[m].from
    BY <1>1, <2>5 DEF BlurInv, PairsBlur
  <2>7. \A n \in Inbound : inbox'[n] = inbox[n] \/ inbox'[n].pc = "filed"
    BY <2>2
  <2>8. blurred \subseteq blurred' /\ blurred' = blurred
    BY <1>1
  <2>9. \A d \in Existing \ {inbox[m].row} : Person(contact[d].phone) = Person(rec.phone)
             => Person(rec.phone) \in blurred'
    BY <2>3, <2>4, <2>8
  <2>10. \A n \in Inbound : Working(n)' /\ ByWhom[n] = Person(rec.phone) /\ ByWhom[n] \notin blurred'
                             => inbox[n].from = rec.phone
    BY <2>3, <2>6, <2>8
  <2>11. Person(contact[inbox[m].row].phone) = Person(rec.phone)
    BY <1>3, <2>3
  <2>12. contact' = [contact EXCEPT ![inbox[m].row] = rec] /\ rec \in Contact
    BY <1>3
  <2> HIDE DEF rec
  <2> QED BY <2>1, <2>7, <2>8, <2>9, <2>10, <2>11, <2>12, WriteBlurs
<1> QED BY <1>2, <1>3, MigrateFits

\* The sender had no contact under either address, or is blurred.
LEMMA CreateBlurs ==
  ASSUME FitInv, BlurInv, NEW m \in Inbound, CreateContact(m)
  PROVE  BlurInv'
<1> DEFINE rec == [phone |-> inbox[m].from, jid |-> inbox[m].jid]
           p == ByWhom[m]
<1>1. /\ UNCHANGED blurred /\ Working(m) /\ inbox[m].pc = "create" /\ p \in People
      /\ inbox[m].from \in Address /\ Person(inbox[m].from) = p
  <2>1. UNCHANGED blurred /\ Working(m) /\ inbox[m].pc = "create" /\ p \in People
    BY CreateFits, ContactsAssumption DEF Working
  <2> QED BY <2>1, JobSender DEF FitInv
<1>2. CASE Goes(m, "conflict", "none") /\ UNCHANGED contact /\ Under(inbox[m].from) # {}
  BY <1>1, <1>2, MoveBlurs, SameAreSame DEF Pcs
<1>3. CASE /\ Under(inbox[m].from) = {}
           /\ \E c \in ContactIds \ Existing :
                /\ contact' = [contact EXCEPT ![c] = rec]
                /\ rec \in Contact /\ Goes(m, "filed", c)
  <2> PICK c \in ContactIds \ Existing :
        contact' = [contact EXCEPT ![c] = rec] /\ rec \in Contact /\ Goes(m, "filed", c)
    BY <1>3
  <2>2. inbox'[m].pc = "filed" /\ \A n \in Inbound \ {m} : inbox'[n] = inbox[n]
    BY JobMoves DEF FitInv, Pcs
  <2>3. rec.phone = inbox[m].from /\ Person(rec.phone) = p
    BY <1>1
  <2>4. ASSUME NEW d \in Existing, Person(contact[d].phone) = p, p \notin blurred
        PROVE  FALSE
    <3>1. contact[d].phone \in {Number(p), Lid(p)}
      BY <2>4, ContactOf, AddressKinds DEF FitInv
    <3>2. inbox[m].from \in {Number(p), Lid(p)}
      BY <1>1, AddressKinds
    <3>3. contact[d].phone # inbox[m].from
      BY <1>3 DEF Under
    <3>4. /\ IsLid(inbox[m].from) => Under(Number(p)) = {}
          /\ ~IsLid(inbox[m].from) => Under(Lid(p)) = {}
      BY <1>1, <2>4 DEF BlurInv, Clear
    <3>5. Under(contact[d].phone) = {}
      BY <1>1, <3>1, <3>2, <3>3, <3>4, Addresses
    <3> QED BY <3>5 DEF Under
  <2>5. \A n \in Inbound : Working(n)' => n # m /\ Working(n)
    BY <2>2 DEF Working
  <2>6. \A n \in Inbound : Working(n)' /\ ByWhom[n] = p /\ ByWhom[n] \notin blurred
                            => inbox[n].from = inbox[m].from
    BY <1>1, <2>5 DEF BlurInv, PairsBlur
  <2>7. \A n \in Inbound : inbox'[n] = inbox[n] \/ inbox'[n].pc = "filed"
    BY <2>2
  <2>8. blurred \subseteq blurred' /\ blurred' = blurred
    BY <1>1
  <2>9. \A d \in Existing \ {c} : Person(contact[d].phone) = Person(rec.phone)
             => Person(rec.phone) \in blurred'
    BY <2>3, <2>4, <2>8
  <2>10. \A n \in Inbound : Working(n)' /\ ByWhom[n] = Person(rec.phone) /\ ByWhom[n] \notin blurred'
                             => inbox[n].from = rec.phone
    BY <2>3, <2>6, <2>8
  <2> HIDE DEF rec
  <2> QED BY <2>7, <2>8, <2>9, <2>10, WriteBlurs
<1> QED BY <1>2, <1>3, CreateFits

\* Whose number is learnt elsewhere is blurred.
LEMMA UpsertBlurs ==
  ASSUME FitInv, BlurInv, NEW a \in Address, ~IsLid(a), Upsert(a), UNCHANGED <<arrivals, arriving, inbox>>,
         campaign' \subseteq Address
  PROVE  BlurInv'
<1> DEFINE rec == [phone |-> a, jid |-> NoAddress]
<1>1. CASE UNCHANGED <<contact, blurred>>
  BY <1>1, RestBlurs
<1>2. CASE /\ blurred' = blurred \cup {Person(a)}
           /\ \E c \in ContactIds \ Existing : contact' = [contact EXCEPT ![c] = rec] /\ rec \in Contact
  <2> PICK c \in ContactIds \ Existing : contact' = [contact EXCEPT ![c] = rec] /\ rec \in Contact
    BY <1>2
  <2>1. rec.phone = a
    OBVIOUS
  <2> HIDE DEF rec
  <2> QED BY <1>2, <2>1, WriteBlurs
<1> QED BY <1>1, <1>2, UpsertFits

\* Broadcasts are only ever sent to numbers.
LEMMA AudienceNext ==
  ASSUME AudienceFit, [ContactsNext]_contactVars PROVE AudienceFit'
<1>1. campaign' \subseteq campaign \/ \E typed \in SUBSET People : CreateBroadcast(typed)
  BY DEF ContactsNext, contactVars, NormalizeInbound, Webhook, StartJob, Resolving, FindContact, FindLegacy,
         Migrate, RefreshJid, CreateContact, FindWinner, WithResolvedPhone, WorkerDies, SendBroadcast, CreateFromBooking
<1>2. CASE \E typed \in SUBSET People : CreateBroadcast(typed)
  <2> PICK typed \in SUBSET People : CreateBroadcast(typed)
    BY <1>2
  <2>1. \A p \in typed : ~IsLid(Number(p))
    BY Addresses
  <2> QED BY <2>1 DEF CreateBroadcast, CollectAudience, AudienceFit
<1> QED BY <1>1, <1>2 DEF AudienceFit

ContactsIInv == FitInv /\ BlurInv /\ AudienceFit

\* At first there is nobody.
LEMMA ContactsIInvInit == ContactsInit => ContactsIInv
<1> SUFFICES ASSUME ContactsInit PROVE ContactsIInv
  OBVIOUS
<1>1. ContactsTypeOK
  BY ContactsAssumption DEF ContactsInit, ContactsTypeOK, Job, NoJob
<1>2. Existing = {} /\ \A m \in Inbound : inbox[m].pc = "absent"
  BY DEF ContactsInit, Existing, NoJob
<1> QED BY <1>1, <1>2 DEF ContactsIInv, FitInv, BlurInv, AudienceFit, JobsFit, ContactsFit, RowsFit, PairsBlur,
                          LosersBlur, Clear, OneLeadEach, Working, ContactsInit

\* Every step keeps the invariant.
LEMMA ContactsIInvNext == ContactsIInv /\ [ContactsNext]_contactVars => ContactsIInv'
<1> SUFFICES ASSUME FitInv, BlurInv, AudienceFit, [ContactsNext]_contactVars PROVE FitInv' /\ BlurInv'
  BY AudienceNext DEF ContactsIInv
<1>1. CASE \/ \E m \in Inbound : Webhook(m) \/ \E jid \in Address, alt \in BOOLEAN : NormalizeInbound(m, jid, alt)
           \/ \E chat \in arriving : WithResolvedPhone(chat)
           \/ \E typed \in SUBSET People : CreateBroadcast(typed)
  BY <1>1, GatewayFits, RestBlurs
<1>2. ASSUME NEW m \in Inbound, StartJob(m) PROVE FitInv' /\ BlurInv'
  BY <1>2, StartFits, StartBlurs
<1>3. ASSUME NEW m \in Inbound, Looking(m) PROVE FitInv' /\ BlurInv'
  <2>1. /\ FitInv' /\ Working(m) /\ UNCHANGED <<contact, blurred>> /\ SamePhones
        /\ \E pc \in Pcs, row \in ContactIds \cup {"none"} :
             /\ Goes(m, pc, row)
             /\ pc = "create" => inbox[m].pn = NoAddress \/ Under(Lid(ByWhom[m])) = {}
             /\ pc \in {"failed"} => inbox[m].pc = "conflict" /\ Under(inbox[m].from) = {}
             /\ pc \notin {"conflict", "queued"}
    BY <1>3, LooksFit, SameAreSame
  <2> PICK pc \in Pcs, row \in ContactIds \cup {"none"} :
             /\ Goes(m, pc, row)
             /\ pc = "create" => inbox[m].pn = NoAddress \/ Under(Lid(ByWhom[m])) = {}
             /\ pc \in {"failed"} => inbox[m].pc = "conflict" /\ Under(inbox[m].from) = {}
             /\ pc \notin {"conflict", "queued"}
    BY <2>1
  <2>2. pc = "create" => inbox[m].pn = NoAddress \/ Under(Lid(ByWhom[m])) = {}
    OBVIOUS
  <2> QED BY <2>1, <2>2, MoveBlurs
<1>4. ASSUME NEW m \in Inbound, Migrate(m) PROVE FitInv' /\ BlurInv'
  BY <1>4, MigrateFits, MigrateBlurs
<1>5. ASSUME NEW m \in Inbound, RefreshJid(m) PROVE FitInv' /\ BlurInv'
  <2>1. /\ FitInv' /\ UNCHANGED blurred /\ Working(m) /\ SamePhones
        /\ inbox[m].row \in ContactIds /\ Goes(m, "filed", inbox[m].row)
    BY <1>5, RefreshFits DEF SamePhones, Working
  <2> QED BY <2>1, MoveBlurs DEF Pcs
<1>6. ASSUME NEW m \in Inbound, CreateContact(m) PROVE FitInv' /\ BlurInv'
  BY <1>6, CreateFits, CreateBlurs
<1>7. CASE WorkerDies
  BY <1>7, DeathFits, RestBlurs
<1>8. ASSUME NEW a \in campaign, SendBroadcast(a) PROVE FitInv' /\ BlurInv'
  <2>1. /\ a \in Address /\ ~IsLid(a) /\ Upsert(a)
        /\ UNCHANGED <<arrivals, arriving, inbox>> /\ campaign' \subseteq Address
    BY <1>8 DEF SendBroadcast, AudienceFit, FitInv, ContactsTypeOK
  <2> QED BY <2>1, UpsertFits, UpsertBlurs
<1>9. ASSUME NEW p \in People, CreateFromBooking(p) PROVE FitInv' /\ BlurInv'
  <2>1. /\ Upsert(Number(p)) /\ UNCHANGED <<arrivals, arriving, inbox>> /\ campaign' \subseteq Address
    BY <1>9 DEF CreateFromBooking, FitInv, ContactsTypeOK
  <2> QED BY <2>1, Addresses, UpsertFits, UpsertBlurs
<1>10. CASE UNCHANGED contactVars
  <2>1. FitInv'
    <3>1. JobsFit'
      BY <1>10 DEF contactVars, FitInv, JobsFit
    <3>2. RowsFit'
      BY <1>10, SameContacts, FoundStays DEF contactVars, FitInv, RowsFit
    <3> QED BY <1>10, <3>1, <3>2, SameContacts DEF contactVars, FitInv, ContactsTypeOK
  <2> QED BY <1>10, <2>1, RestBlurs DEF contactVars
<1> QED BY <1>1, <1>2, <1>3, <1>4, <1>5, <1>6, <1>7, <1>8, <1>9, <1>10 DEF ContactsNext, Resolving, Looking

\* So it holds throughout.
LEMMA ContactsIInvHolds == ContactsSpec => []ContactsIInv
BY ContactsIInvInit, ContactsIInvNext, PTL DEF ContactsSpec

\* Jobs, rows and deliveries keep their types.
THEOREM ContactsTypeCorrect == ContactsSpec => []ContactsTypeOK
<1>1. ContactsIInv => ContactsTypeOK
  BY DEF ContactsIInv, FitInv
<1> QED BY <1>1, ContactsIInvHolds, PTL

\* However many people, messages and deliveries there are, whoever writes has one
\* contact, but for what the program cannot see through.
THEOREM OneLeadIsKept == ContactsSpec => []OneLeadEach
<1>1. ContactsIInv => OneLeadEach
  BY DEF ContactsIInv, BlurInv
<1> QED BY <1>1, ContactsIInvHolds, PTL

\* And a message ends with that contact, at which it can be answered.
THEOREM MessagesAreFiled == ContactsSpec => []MessagesFindTheirLead
<1>1. ContactsIInv => MessagesFindTheirLead
  <2> SUFFICES ASSUME FitInv, BlurInv PROVE MessagesFindTheirLead
    BY DEF ContactsIInv
  <2>1. ASSUME NEW m \in Inbound, inbox[m].pc = "filed"
        PROVE  /\ Person(contact[inbox[m].row].phone) = ByWhom[m]
               /\ Person(contact[inbox[m].row].jid) \in {ByWhom[m], "none"}
               /\ ByWhom[m] \in Paired => IsLid(inbox[m].from)
    <3>1. inbox[m].row \in Existing /\ Person(contact[inbox[m].row].phone) = ByWhom[m]
      BY <2>1 DEF FitInv, RowsFit
    <3>2. ByWhom[m] \in Paired => IsLid(inbox[m].from)
      BY <2>1 DEF FitInv, JobsFit
    <3> QED BY <3>1, <3>2 DEF FitInv, ContactsFit
  <2>2. \A m \in Inbound : inbox[m].pc = "failed" => ByWhom[m] \in blurred
    BY DEF BlurInv, LosersBlur
  <2>3. \A c \in Existing : IsLid(contact[c].phone) => IsLid(contact[c].jid)
    BY DEF FitInv, ContactsFit
  <2> QED BY <2>1, <2>2, <2>3 DEF MessagesFindTheirLead, JobAt
<1> QED BY <1>1, ContactsIInvHolds, PTL
===============================================================================

----------------------------- MODULE Conversations -----------------------------
(***************************************************************************)
(* The conversation runtime of apps/worker: the jobs that drain the        *)
(* inbound queue (processInbound) and the delayed queue (processDelay)     *)
(* against the conversation rows of ONE contact, with the flow engine      *)
(* called in between.                                                      *)
(*                                                                         *)
(* A job is a sequence of awaits with no transaction and no lock around    *)
(* it, so each action below is the code between two points at which        *)
(* another job of the same contact can slip in: what a job read of the     *)
(* row travels with it in job[w].row and goes stale.  A job's sends and    *)
(* timers are one action (Run), its persist() another (Save).              *)
(*                                                                         *)
(* Time is what the guards make of it.  lastMessageAt is the order "newer" *)
(* on rows; the restart cooldown is the set "fresh" of rows touched within *)
(* it; the one-minute reply window is the counter "recent".                *)
(***************************************************************************)
EXTENDS FlowEngine, FiniteSets

CONSTANTS
  Convs,            \* conversation rows that can be created
  FlowIds,          \* flows of the organization, in createdAt order
  Flow,             \* Flow[f]: the definition of f
  Legacy,           \* at most one ACTIVE row an older persist() left behind
  Bound,            \* flows bound to this connection; the rest are org-wide
  DefaultFlow,      \* the connection's defaultFlowId, or NULL
  Deletable,        \* flows the business may delete
  Switchable,       \* flows the business may switch on and off
  Workers,          \* slots of the inbound consumer (concurrency 8)
  DelayWorkers,     \* slots of the delays consumer (concurrency 4)
  LOOP_MAX_REPLIES,
  OFFER_COUNT,      \* slots a booking menu offers
  BookingOutcomes,  \* what booking may find: a calcomLink, no slots, slots
  MaxInbound,       \* bound: inbound messages
  MaxCrashes        \* bound: jobs lost with their worker and run again

Jobs == Workers \cup DelayWorkers

ASSUME RuntimeAssumption ==
  /\ NULL \notin Convs /\ NULL \notin FlowIds
  /\ FlowIds \subseteq Nat
  /\ DOMAIN Flow = FlowIds /\ \A f \in FlowIds : IsFlowDefinition(Flow[f])
  /\ Legacy \subseteq Convs /\ \A c, d \in Legacy : c = d
  /\ Bound \subseteq FlowIds
  /\ DefaultFlow \in FlowIds \cup {NULL}
  /\ Deletable \subseteq FlowIds /\ Switchable \subseteq FlowIds
  /\ Workers \cap DelayWorkers = {}
  /\ LOOP_MAX_REPLIES \in Nat \ {0}
  /\ OFFER_COUNT \in Nat \ {0}
  /\ BookingOutcomes \subseteq {"link", "none", "slots"}
  /\ MaxInbound \in Nat /\ MaxCrashes \in Nat

VARIABLES
  conv,     \* the conversation rows
  newer,    \* <<c, d>>: c's lastMessageAt is after d's
  earlier,  \* earlier[c]: rows whose lastMessageAt is before c's createdAt
  fresh,    \* rows whose lastMessageAt is within the restart cooldown
  recent,   \* messages sent to the contact within the reply window
  timers,   \* timers[<<c, r>>]: delay jobs pending for row c towards node r
  stored,   \* flow rows that exist
  live,     \* flow rows that are active
  source,   \* contact.source: the flow that first engaged the lead
  fields,   \* contact.fields
  job,      \* the job each worker slot is running
  inbound,  \* inbound messages received so far
  crashes,  \* jobs run again so far
  asked,    \* history: rows opened by a keyword
  outrun    \* history: pending timers whose pause a reply has ended, counted anew
            \* when a job saves a row that has moved on since it read it

rowVars == <<conv, newer, earlier, fresh, asked>>
contactVars == <<source, fields>>
flowVars == <<stored, live>>
vars == <<rowVars, recent, timers, flowVars, contactVars, job, inbound, crashes, outrun>>

-------------------------------------------------------------------------------
(* Rows and jobs *)

Row == [status: {"unused", "ACTIVE", "COMPLETED", "HANDOFF", "ABANDONED"},
        flow: FlowIds \cup {NULL}, state: FlowState, opener: Answer]
UnusedRow == [status |-> "unused", flow |-> NULL, state |-> EmptyState, opener |-> NULL]

\* conv: convo.id (NULL: none); row: the row as the job read it; to: the node a
\* delay job resumes at; contactFields and hasSource: the contact as read.
Job == [pc: {"idle", "load", "route", "open", "admit", "run", "book", "save"},
        text: Answer, keyword: BOOLEAN, conv: Convs \cup {NULL}, row: Row,
        flow: FlowIds \cup {NULL}, to: Target,
        contactFields: [Fields -> Answer], hasSource: BOOLEAN,
        next: FlowState, saved: [Fields -> Answer], waiting: BOOLEAN, stale: BOOLEAN]

NoSaved == [f \in Fields |-> NULL]
IdleJob == [pc |-> "idle", text |-> NULL, keyword |-> FALSE, conv |-> NULL,
            row |-> UnusedRow, flow |-> NULL, to |-> NULL,
            contactFields |-> NoSaved, hasSource |-> FALSE,
            next |-> EmptyState, saved |-> NoSaved, waiting |-> FALSE, stale |-> FALSE]

TypeOK ==
  /\ conv \in [Convs -> Row]
  /\ newer \subseteq Convs \X Convs
  /\ earlier \in [Convs -> SUBSET Convs]
  /\ fresh \subseteq Convs
  /\ recent \in Nat
  /\ timers \in [Convs \X Target -> Nat]
  /\ stored \subseteq FlowIds /\ live \subseteq stored
  /\ source \in FlowIds \cup {NULL}
  /\ fields \in [Fields -> Answer]
  /\ job \in [Jobs -> Job]
  /\ inbound \in Nat /\ crashes \in Nat
  /\ asked \subseteq Convs
  /\ outrun \in [Convs \X Target -> Nat]

Used == {c \in Convs : conv[c].status # "unused"}

\* The row of S with the greatest lastMessageAt, NULL when S is empty.
Latest(S) ==
  IF \E c \in S : \A d \in S \ {c} : <<c, d>> \in newer
  THEN CHOOSE c \in S : \A d \in S \ {c} : <<c, d>> \in newer
  ELSE NULL

LatestActiveOfAnyStatus == Latest(Used)

\* The contact's conversation in progress.
LatestActive == Latest({c \in Convs : conv[c].status = "ACTIVE"})

\* lastMessageAt of c is set to now.
Touch(c) ==
  /\ newer' = {p \in newer : p[2] # c} \cup ({c} \X (Used \ {c}))
  /\ earlier' = [d \in Convs |-> earlier[d] \ {c}]
  /\ fresh' = fresh \cup {c}

Untouched == UNCHANGED <<newer, earlier, fresh>>

-------------------------------------------------------------------------------
(* Which flow a message starts *)

\* candidateFlows' order: bound to this number first, then by createdAt.
Outranks(f, g) == \/ f \in Bound /\ g \notin Bound
                  \/ (f \in Bound <=> g \in Bound) /\ f < g

First(S) ==
  IF \E f \in S : \A g \in S \ {f} : Outranks(f, g)
  THEN CHOOSE f \in S : \A g \in S \ {f} : Outranks(f, g)
  ELSE NULL

ByKeyword(f, text) == /\ TriggerSpecificity(Flow[f].trigger) = 1
                      /\ MatchesTrigger(Flow[f].trigger, text)

SelectKeywordFlow(text) == First({f \in live : ByKeyword(f, text)})

SelectFlowByTrigger(text) ==
  LET catchAll == {f \in live : TriggerSpecificity(Flow[f].trigger) = 0}
  IN  IF SelectKeywordFlow(text) # NULL THEN SelectKeywordFlow(text)
      ELSE IF DefaultFlow \in live THEN DefaultFlow
      ELSE IF catchAll # {} THEN First(catchAll)
      ELSE First(live)

-------------------------------------------------------------------------------
\* A row written before persist() derived the status from the engine's state:
\* still ACTIVE, although its state says the run has ended.
LegacyRow == [status |-> "ACTIVE", flow |-> First(FlowIds), opener |-> NULL,
              state |-> [EmptyState EXCEPT !.status = "completed"]]

Init ==
  /\ \E kept \in SUBSET Legacy :
       /\ conv = [c \in Convs |-> IF c \in kept THEN LegacyRow ELSE UnusedRow]
       /\ fresh \in {{}, kept}
  /\ newer = {} /\ earlier = [c \in Convs |-> {}]
  /\ recent = 0
  /\ timers = [p \in Convs \X Target |-> 0]
  /\ stored = FlowIds /\ live = FlowIds
  /\ source = NULL /\ fields = NoSaved
  /\ job = [w \in Jobs |-> IdleJob]
  /\ inbound = 0 /\ crashes = 0
  /\ asked = {}
  /\ outrun = [p \in Convs \X Target |-> 0]

\* The job of slot w ends; it goes on at pc.
Ends(w) == job' = [job EXCEPT ![w] = IdleJob]
GoesTo(w, pc) == job' = [job EXCEPT ![w].pc = pc]

-------------------------------------------------------------------------------
(* processInbound *)

\* Resolve the contact and read its latest ACTIVE conversation.
ReadRows(w, text) ==
  /\ job' = [job EXCEPT ![w] =
              [IdleJob EXCEPT
                 !.pc = "route", !.text = text, !.conv = LatestActive,
                 !.row = IF LatestActive = NULL THEN UnusedRow ELSE conv[LatestActive],
                 !.contactFields = fields, !.hasSource = source # NULL]]
  /\ UNCHANGED <<rowVars, recent, timers, flowVars, contactVars, crashes, outrun>>

Receive(w, text) ==
  /\ job[w].pc = "idle" /\ inbound < MaxInbound
  /\ inbound' = inbound + 1
  /\ ReadRows(w, text)

\* BullMQ hands a stalled job to a worker again, with the same data.
ReceiveAgain(w) ==
  /\ job[w].pc = "load"
  /\ ReadRows(w, job[w].text)
  /\ UNCHANGED inbound

KeywordKeepsRunning(w) ==
  /\ job[w].pc = "route" /\ SelectKeywordFlow(job[w].text) # NULL
  /\ job' = [job EXCEPT ![w].pc = "open", ![w].keyword = TRUE, ![w].conv = NULL,
                         ![w].flow = SelectKeywordFlow(job[w].text)]
  /\ UNCHANGED <<rowVars, recent, timers, flowVars, contactVars, inbound, crashes, outrun>>

\* A keyword abandons the conversation in progress and starts over.
RouteByKeyword(w) ==
  /\ job[w].pc = "route" /\ SelectKeywordFlow(job[w].text) # NULL
  /\ conv' = IF job[w].conv = NULL THEN conv
              ELSE [conv EXCEPT ![job[w].conv].status = "ABANDONED"]
  /\ job' = [job EXCEPT ![w].pc = "open", ![w].keyword = TRUE, ![w].conv = NULL,
                         ![w].flow = SelectKeywordFlow(job[w].text)]
  /\ UNCHANGED <<newer, earlier, fresh, asked, recent, timers, flowVars, contactVars,
                 inbound, crashes, outrun>>

FlowOfTrigger(j) == SelectFlowByTrigger(j.text)

\* The flow a message that is no keyword belongs to.
FlowOf(j) ==
  IF j.conv # NULL /\ j.row.flow \in stored THEN j.row.flow
  ELSE SelectFlowByTrigger(j.text)

NotAKeyword(w) == job[w].pc = "route" /\ SelectKeywordFlow(job[w].text) = NULL

RouteNowhere(w) ==
  /\ NotAKeyword(w) /\ FlowOf(job[w]) = NULL
  /\ Ends(w)
  /\ UNCHANGED <<rowVars, recent, timers, flowVars, contactVars, inbound, crashes, outrun>>

RouteToRunning(w) ==
  /\ NotAKeyword(w) /\ FlowOf(job[w]) # NULL /\ job[w].conv # NULL
  /\ job' = [job EXCEPT ![w].pc = "admit", ![w].flow = FlowOf(job[w])]
  /\ UNCHANGED <<rowVars, recent, timers, flowVars, contactVars, inbound, crashes, outrun>>

\* The restart cooldown: this contact's last conversation is too recent.
CoolingDown == Latest(Used) \in fresh

\* File the message on the previous conversation, and slide its window.
RouteToPrevious(w) ==
  /\ NotAKeyword(w) /\ FlowOf(job[w]) # NULL /\ job[w].conv = NULL
  /\ CoolingDown
  /\ Touch(Latest(Used))
  /\ Ends(w)
  /\ UNCHANGED <<conv, asked, recent, timers, flowVars, contactVars, inbound, crashes, outrun>>

RouteToNew(w) ==
  /\ NotAKeyword(w) /\ FlowOf(job[w]) # NULL /\ job[w].conv = NULL
  /\ ~CoolingDown
  /\ job' = [job EXCEPT ![w].pc = "open", ![w].flow = FlowOf(job[w])]
  /\ UNCHANGED <<rowVars, recent, timers, flowVars, contactVars, inbound, crashes, outrun>>

\* Create the conversation row, under an id not used before.
Open(w) ==
  /\ job[w].pc = "open" /\ Used # Convs
  /\ LET c == CHOOSE d \in Convs : d \notin Used
         row == [status |-> "ACTIVE", flow |-> job[w].flow,
                 state |-> EmptyState, opener |-> NULL]
     IN  /\ conv' = [conv EXCEPT ![c] = row]
         /\ job' = [job EXCEPT ![w].pc = "admit", ![w].conv = c, ![w].row = row]
         /\ newer' = newer \cup ({c} \X Used)
         /\ earlier' = [earlier EXCEPT ![c] = Used]
         /\ fresh' = fresh \cup {c}
         /\ asked' = IF job[w].keyword THEN asked \cup {c} ELSE asked
  /\ UNCHANGED <<recent, timers, flowVars, contactVars, inbound, crashes, outrun>>

\* The reply-rate ceiling.
TooManyReplies == recent >= LOOP_MAX_REPLIES

\* Another run of this contact finished before this row was created, and
\* recently; the lead did not ask for this one with a keyword.
DuplicateRun(j) ==
  /\ ~j.keyword
  /\ \E d \in earlier[j.conv] \ {j.conv} :
       conv[d].status \in {"COMPLETED", "HANDOFF"} /\ d \in fresh
  /\ ~ByKeyword(j.flow, IF conv[j.conv].opener = NULL THEN j.text ELSE conv[j.conv].opener)

\* The state belongs to a run that is over, or that has not begun.
RunOver(state) == state.node = NULL \/ state.status = "completed"

AlreadyOverByRow(j) == conv[j.conv].status \in {"COMPLETED", "HANDOFF"}

\* A row still marked ACTIVE whose run has ended.
AlreadyOver(j) ==
  RunOver(j.row.state) /\ ~j.keyword /\ j.row.state.status \in {"completed", "handoff"}

\* Every admitted message is stored on the row and engages the contact; then
\* the row is left with the given status, or the job goes on.
Admit(w, status) ==
  LET c == job[w].conv
  IN  /\ conv' = [conv EXCEPT ![c].status = status,
                              ![c].opener = IF @ = NULL THEN job[w].text ELSE @]
      /\ source' = IF job[w].hasSource THEN source ELSE job[w].flow
      /\ UNCHANGED <<asked, fields, recent, timers, flowVars, inbound, crashes, outrun>>

AdmitTooMany(w) ==
  /\ job[w].pc = "admit" /\ TooManyReplies
  /\ Admit(w, "HANDOFF") /\ Untouched
  /\ Ends(w)

AdmitDuplicate(w) ==
  /\ job[w].pc = "admit" /\ ~TooManyReplies /\ DuplicateRun(job[w])
  /\ Admit(w, "HANDOFF") /\ Touch(job[w].conv)
  /\ Ends(w)

AdmitFinished(w) ==
  /\ job[w].pc = "admit" /\ ~TooManyReplies /\ ~DuplicateRun(job[w])
  /\ job[w].row.state.awaiting # "booking" /\ AlreadyOver(job[w])
  /\ Admit(w, IF job[w].row.state.status = "handoff" THEN "HANDOFF" ELSE "COMPLETED")
  /\ Touch(job[w].conv)
  /\ Ends(w)

AdmitToRun(w) ==
  /\ job[w].pc = "admit" /\ ~TooManyReplies /\ ~DuplicateRun(job[w])
  /\ job[w].row.state.awaiting = "booking" \/ ~AlreadyOver(job[w])
  /\ Admit(w, conv[job[w].conv].status) /\ Untouched
  /\ GoesTo(w, IF job[w].row.state.awaiting = "booking" THEN "book" ELSE "run")

-------------------------------------------------------------------------------
(* applyAndPersist, handleBookingReply and processDelay *)

Sends(actions) == Cardinality({n \in DOMAIN actions : actions[n].kind = "send_message"})
Emits(actions, kind) == \E n \in DOMAIN actions : actions[n].kind = kind

\* What the save_field effects of a run leave to be stored: the last one wins.
SavedBy(actions) ==
  [f \in Fields |->
     LET saves == {n \in DOMAIN actions :
                     actions[n].kind = "save_field" /\ actions[n].field = f}
         last == {n \in saves : \A m \in saves : m <= n}
     IN  IF last = {} THEN NULL ELSE actions[CHOOSE n \in last : TRUE].value]

\* The engine's answer to this job.
EngineResult(w) ==
  LET j == job[w]
  IN  IF w \in DelayWorkers THEN ResumeDelay(Flow[j.flow], j.row.state)
      ELSE IF RunOver(j.row.state) THEN Start(Flow[j.flow])
      ELSE Step(Flow[j.flow], j.row.state, j.text)

\* The state goes on to persist().
ToSave(w, state, saved, waiting) ==
  job' = [job EXCEPT ![w].pc = "save", ![w].next = state,
                     ![w].saved = saved, ![w].waiting = waiting]

ArmNothing(c, actions) == UNCHANGED timers

\* Timers requested by the effects of the run of row c.
Arm(c, actions) ==
  timers' = [p \in DOMAIN timers |->
               IF p[1] = c /\ \E n \in DOMAIN actions :
                                actions[n].kind = "schedule_delay" /\ actions[n].node = p[2]
               THEN timers[p] + 1 ELSE timers[p]]

\* The engine threw: the job fails and is not retried.
RunFails(w) ==
  /\ job[w].pc = "run"
  /\ \E result \in {EngineResult(w)} : result.throws
  /\ Ends(w)
  /\ UNCHANGED <<rowVars, recent, timers, flowVars, contactVars, inbound, crashes, outrun>>

\* Carry out effects without a booking.
Run(w) ==
  /\ job[w].pc = "run"
  /\ \E result \in {EngineResult(w)} :
       /\ ~result.throws /\ ~Emits(result.actions, "book_appointment")
       /\ recent' = recent + Sends(result.actions)
       /\ Arm(job[w].conv, result.actions)
       /\ ToSave(w, result.state, SavedBy(result.actions), result.awaitingInput)
  /\ UNCHANGED <<rowVars, flowVars, contactVars, inbound, crashes, outrun>>

\* Carry out effects that end in book_appointment, and find slots to offer.
RunToMenu(w) ==
  /\ job[w].pc = "run" /\ "slots" \in BookingOutcomes
  /\ \E result \in {EngineResult(w)} :
       /\ ~result.throws /\ Emits(result.actions, "book_appointment")
       /\ recent' = recent + Sends(result.actions) + 1
       /\ ToSave(w, [result.state EXCEPT !.offered = OFFER_COUNT],
                 SavedBy(result.actions), result.awaitingInput)
  /\ UNCHANGED <<rowVars, timers, flowVars, contactVars, inbound, crashes, outrun>>

\* The tenant books by link, or has no slots: say so and resume the flow.  Of
\* the resumed run's effects only the messages are carried out.
RunPastBooking(w) ==
  /\ job[w].pc = "run" /\ BookingOutcomes \cap {"link", "none"} # {}
  /\ \E result \in {EngineResult(w)} :
       /\ ~result.throws /\ Emits(result.actions, "book_appointment")
       /\ \E resumed \in {ResumeBooking(Flow[job[w].flow], result.state)} :
            IF resumed.throws
            THEN recent' = recent + Sends(result.actions) + 1 /\ Ends(w)
            ELSE /\ recent' = recent + Sends(result.actions) + 1 + Sends(resumed.actions)
                 /\ ToSave(w, resumed.state, SavedBy(result.actions), result.awaitingInput)
  /\ UNCHANGED <<rowVars, timers, flowVars, contactVars, inbound, crashes, outrun>>

Picked(j) == NumberOf[j.text] \in 1..j.row.state.offered

\* Not a number of the menu: send the menu again, and leave the row alone.
BookAgain(w) ==
  /\ job[w].pc = "book" /\ ~Picked(job[w])
  /\ recent' = recent + 1
  /\ Ends(w)
  /\ UNCHANGED <<rowVars, timers, flowVars, contactVars, inbound, crashes, outrun>>

\* Book the slot, confirm it, and resume the flow; of the resumed run's effects
\* only messages and saved fields are carried out.
BookSlot(w) ==
  /\ job[w].pc = "book" /\ Picked(job[w])
  /\ \E resumed \in {ResumeBooking(Flow[job[w].flow], job[w].row.state)} :
       IF resumed.throws
       THEN recent' = recent + 1 /\ Ends(w)
       ELSE /\ recent' = recent + 1 + Sends(resumed.actions)
            /\ ToSave(w, resumed.state, SavedBy(resumed.actions), resumed.awaitingInput)
  /\ UNCHANGED <<rowVars, timers, flowVars, contactVars, inbound, crashes, outrun>>

StatusUnlessHandoff(state, waiting) ==
  IF state.status = "handoff" THEN "HANDOFF" ELSE "ACTIVE"

\* The row status persist() derives.
StatusOf(state, waiting) ==
  IF state.status = "handoff" THEN "HANDOFF"
  ELSE IF state.status = "completed" \/ state.node = NULL THEN "COMPLETED"
  ELSE IF waiting \/ state.awaiting = "delay" THEN "ACTIVE"
  ELSE "COMPLETED"

MergedWithoutOld(j) == j.saved

\* The saved fields over the contact's fields as the job read them.
Merged(j) == [f \in Fields |-> IF j.saved[f] # NULL THEN j.saved[f] ELSE j.contactFields[f]]

Save(w) ==
  /\ job[w].pc = "save"
  /\ LET j == job[w]
     IN  /\ conv' = [conv EXCEPT ![j.conv].state = j.next,
                                 ![j.conv].status = StatusOf(j.next, j.waiting)]
         /\ Touch(j.conv)
         /\ fields' = IF j.saved = NoSaved THEN fields ELSE Merged(j)
         /\ outrun' =
              IF conv[j.conv].state # j.row.state
              THEN [p \in DOMAIN outrun |-> IF p[1] = j.conv THEN 0 ELSE outrun[p]]
              ELSE IF w \in Workers /\ j.row.state.awaiting = "delay"
              THEN [outrun EXCEPT ![<<j.conv, j.row.state.resume>>] = @ + 1]
              ELSE outrun
  /\ Ends(w)
  /\ UNCHANGED <<asked, source, recent, timers, flowVars, inbound, crashes>>

InPauseAnyDelay(c, to) ==
  /\ conv[c].status = "ACTIVE" /\ conv[c].flow # NULL /\ conv[c].flow \in stored

InPauseAtNode(c, to) ==
  /\ conv[c].status = "ACTIVE" /\ conv[c].flow # NULL
  /\ conv[c].state.awaiting = "delay" /\ conv[c].state.node = to
  /\ conv[c].flow \in stored

\* The row is in the very pause the timer was armed for.
InPause(c, to) ==
  /\ conv[c].status = "ACTIVE" /\ conv[c].flow # NULL
  /\ conv[c].state.awaiting = "delay" /\ conv[c].state.resume = to
  /\ conv[c].flow \in stored

ReadDelayed(d, c, to, stale) ==
  job' = [job EXCEPT ![d] =
            IF InPause(c, to)
            THEN [IdleJob EXCEPT !.pc = "run", !.conv = c, !.row = conv[c], !.to = to,
                                 !.flow = conv[c].flow, !.contactFields = fields,
                                 !.hasSource = TRUE, !.stale = stale]
            ELSE IdleJob]

\* A delay lasts a minute or more; the job that armed it has ended by then.
StillArming(c, to) ==
  \E w \in Jobs : /\ job[w].pc = "save" /\ job[w].conv = c
                  /\ job[w].next.awaiting = "delay" /\ job[w].next.resume = to

\* A delay timer fires.  Of several on one row towards one node the first armed
\* is the first to fire.
Fire(d, c, to) ==
  /\ job[d].pc = "idle" /\ timers[<<c, to>>] > 0 /\ ~StillArming(c, to)
  /\ timers' = [timers EXCEPT ![<<c, to>>] = @ - 1]
  /\ outrun' = [outrun EXCEPT ![<<c, to>>] = IF @ > 0 THEN @ - 1 ELSE 0]
  /\ ReadDelayed(d, c, to, outrun[<<c, to>>] > 0)
  /\ UNCHANGED <<rowVars, recent, flowVars, contactVars, inbound, crashes>>

FireAgain(d) ==
  /\ job[d].pc = "load"
  /\ ReadDelayed(d, job[d].conv, job[d].to, job[d].stale)
  /\ UNCHANGED <<rowVars, recent, timers, flowVars, contactVars, inbound, crashes, outrun>>

-------------------------------------------------------------------------------
(* What one exchange may make of a row: for Dialogue *)

TalkOf(row) == [status |-> row.status, flow |-> row.flow, run |-> row.state]
Talk == [c \in Convs |-> TalkOf(conv[c])]

Outcome(run, actions) == [run |-> run, saved |-> SavedBy(actions)]

\* A booking menu answered with a number of it.
BookedOutcomes(f, state, text) ==
  {Outcome(result.state, result.actions) :
     result \in {r \in {ResumeBooking(Flow[f], state)} :
                  NumberOf[text] \in 1..state.offered /\ ~r.throws}}

\* A run that asked for a booking: it waits on the menu, or has gone past it.
MenuOutcomes(f, result) ==
  {Outcome([result.state EXCEPT !.offered = OFFER_COUNT], result.actions) :
     o \in BookingOutcomes \cap {"slots"}}
  \cup
  {Outcome(past.state, result.actions) :
     past \in {r \in {ResumeBooking(Flow[f], result.state)} :
                ~r.throws /\ BookingOutcomes \cap {"link", "none"} # {}}}

RunOutcomes(f, result) ==
  IF result.throws THEN {}
  ELSE IF Emits(result.actions, "book_appointment") THEN MenuOutcomes(f, result)
  ELSE {Outcome(result.state, result.actions)}

\* Only a live run is taken further.
Outcomes(f, state, text) ==
  IF state.status # "active" THEN {}
  ELSE IF state.awaiting = "booking" THEN BookedOutcomes(f, state, text)
  ELSE RunOutcomes(f, IF RunOver(state) THEN Start(Flow[f]) ELSE Step(Flow[f], state, text))

Standing(state) ==
  CASE state.status = "handoff" -> "HANDOFF"
    [] state.status = "completed" -> "COMPLETED"
    [] OTHER -> "ACTIVE"

-------------------------------------------------------------------------------
(* The environment *)

\* The worker process dies with the job under way; the job will run again.
Crash(w) ==
  /\ job[w].pc \notin {"idle", "load"} /\ crashes < MaxCrashes
  /\ crashes' = crashes + 1
  /\ job' = [job EXCEPT ![w] =
              IF w \in DelayWorkers
              THEN [IdleJob EXCEPT !.pc = "load", !.conv = job[w].conv, !.to = job[w].to,
                                   !.stale = job[w].stale]
              ELSE [IdleJob EXCEPT !.pc = "load", !.text = job[w].text]]
  /\ UNCHANGED <<rowVars, recent, timers, flowVars, contactVars, inbound, outrun>>

\* Hours pass without a job: the row touched longest ago leaves the cooldown.
Expire(c) ==
  /\ c \in fresh /\ recent = 0
  /\ \A d \in fresh \ {c} : <<d, c>> \in newer
  /\ \A w \in Jobs : job[w].pc = "idle"
  /\ fresh' = fresh \ {c}
  /\ UNCHANGED <<conv, newer, earlier, asked, recent, timers, flowVars, contactVars,
                 job, inbound, crashes, outrun>>

\* The one-minute window slides past some of the messages sent.
SlideWindow ==
  /\ recent > 0
  /\ recent' \in 0..(recent - 1)
  /\ UNCHANGED <<rowVars, timers, flowVars, contactVars, job, inbound, crashes, outrun>>

ToggleFlow(f) ==
  /\ f \in Switchable \cap stored
  /\ live' = IF f \in live THEN live \ {f} ELSE live \cup {f}
  /\ UNCHANGED <<rowVars, recent, timers, stored, contactVars, job, inbound, crashes, outrun>>

\* Delete a flow: its conversations lose their link to it.
DeleteFlow(f) ==
  /\ f \in Deletable \cap stored
  /\ stored' = stored \ {f} /\ live' = live \ {f}
  /\ conv' = [c \in Convs |-> IF conv[c].flow = f THEN [conv[c] EXCEPT !.flow = NULL]
                              ELSE conv[c]]
  /\ UNCHANGED <<newer, earlier, fresh, asked, recent, timers, contactVars, job, inbound,
                 crashes, outrun>>

Inbound(w) ==
  \/ \E text \in Texts : Receive(w, text)
  \/ ReceiveAgain(w)
  \/ RouteByKeyword(w) \/ RouteNowhere(w) \/ RouteToRunning(w)
  \/ RouteToPrevious(w) \/ RouteToNew(w)
  \/ Open(w)
  \/ AdmitTooMany(w) \/ AdmitDuplicate(w) \/ AdmitFinished(w) \/ AdmitToRun(w)
  \/ BookAgain(w) \/ BookSlot(w)

Delayed(d) ==
  \/ \E c \in Convs, to \in Target : Fire(d, c, to)
  \/ FireAgain(d)

Applying(w) ==
  RunFails(w) \/ Run(w) \/ RunToMenu(w) \/ RunPastBooking(w) \/ Save(w)

Next ==
  \/ \E w \in Workers : Inbound(w)
  \/ \E d \in DelayWorkers : Delayed(d)
  \/ \E w \in Jobs : Applying(w) \/ Crash(w)
  \/ \E c \in Convs : Expire(c)
  \/ SlideWindow
  \/ \E f \in FlowIds : ToggleFlow(f) \/ DeleteFlow(f)

Spec == Init /\ [][Next]_vars

\* The consumers run: a job under way goes on, and a pending timer fires.
Fairness == /\ \A w \in Workers : WF_vars(job[w].pc # "idle" /\ Inbound(w))
            /\ \A d \in DelayWorkers : WF_vars(Delayed(d))
            /\ \A w \in Jobs : WF_vars(Applying(w))

FairSpec == Spec /\ Fairness

-------------------------------------------------------------------------------
(* Properties *)

\* A run of the contact that has finished, recently; also one whose row does not
\* say so (process-inbound.ts:365-370).
FinishedLately(d) ==
  /\ d \in fresh
  /\ \/ conv[d].status \in {"COMPLETED", "HANDOFF"}
     \/ conv[d].status = "ACTIVE" /\ conv[d].state.status # "active"

Replies(w) == /\ job[w].pc \in {"run", "book"} /\ job'[w] # job[w]
              /\ recent' > recent

\* A row marked ACTIVE carries a run that can go on: new, or live at a node.
\* Otherwise a dead conversation is picked up as the live one for ever
\* (process-inbound.ts:736-739).  Rows older than that fix are exempt.
ActiveRowIsLive ==
  \A c \in Convs \ Legacy :
    conv[c].status = "ACTIVE" =>
      /\ conv[c].state.status = "active"
      /\ conv[c].state.node # NULL \/ conv[c].state = EmptyState

\* A contact never has two conversations in progress at once.
OneActive ==
  \A c, d \in Convs : conv[c].status = "ACTIVE" /\ conv[d].status = "ACTIVE" => c = d

\* Once a run of the contact has finished, recently, no job answers with the
\* script again, on that row or on another, unless the lead asked for it with a
\* keyword (process-inbound.ts:46-49).
QuietAfterFinish ==
  [][\A w \in Workers : Replies(w) =>
       \/ job[w].conv \in asked
       \/ ~\E d \in Convs : FinishedLately(d)]_vars

\* A row that was completed, handed to a person or abandoned stays so, and its
\* state is not rewritten.
OverIsOver ==
  [][\A c \in Convs :
       conv[c].status \in {"COMPLETED", "HANDOFF", "ABANDONED"}
         => conv'[c].status = conv[c].status /\ conv'[c].state = conv[c].state]_vars

\* With one job at a time the rows and the contact's fields behave as Dialogue
\* says: a job's reads, its run of the engine and its save amount to one exchange
\* with the row as it is when it is saved, a lost job to none, and the status
\* stored is the one the stored run calls for (process-inbound.ts:736-739).
D == INSTANCE Dialogue WITH
       NewRun <- EmptyState, Older <- Legacy, OlderTalk <- TalkOf(LegacyRow),
       Outcomes <- Outcomes, Standing <- Standing,
       talk <- Talk, flows <- stored
ImplementsDialogue == D!Spec

\* A field of the contact, once stored, only changes because the run being
\* persisted has an answer for that very field.
FieldsOnlyFromAnswers ==
  [][\A f \in Fields : fields[f] # NULL /\ fields'[f] # fields[f] =>
       \E w \in Jobs : /\ job[w].pc = "save" /\ job'[w].pc = "idle"
                       /\ job[w].saved[f] # NULL /\ job[w].saved[f] = fields'[f]]_vars

\* A conversation under way keeps to the flow it was started from for as long as
\* that flow exists, also while it is switched off or another would win the
\* routing: the node its state is at is never looked up in another flow.
KeepsItsFlow ==
  \A w \in Jobs :
    /\ job[w].pc \in {"admit", "run", "book", "save"}
    /\ conv[job[w].conv].flow \in stored
    => job[w].flow = conv[job[w].conv].flow

\* Whenever a row of a flow that exists waits on the clock, the timer that will
\* resume it is pending, or a delay job is already at it (types.ts:146).
TimerPending ==
  \A c \in Convs :
    conv[c].status = "ACTIVE" /\ conv[c].state.awaiting = "delay" /\ conv[c].flow \in stored
      => \/ timers[<<c, conv[c].state.resume>>] > 0
         \/ \E d \in DelayWorkers : job[d].pc # "idle" /\ job[d].conv = c

\* A timer resumes the pause it was armed for and no later one: a reply that
\* ended that pause makes its timer a no-op (step.ts:82-85).  A flow that comes
\* back to the same delay breaks this: the pause is told by its node only.  A job
\* that saves a row another has moved on meanwhile may put the run back in a pause
\* it had left; timers count as outrun only from then on.
StaleTimerIsNoOp == \A d \in DelayWorkers : job[d].pc = "run" => ~job[d].stale

\* A conversation waiting on the clock is resumed in the end.
DelayEnds ==
  \A c \in Convs :
    (conv[c].status = "ACTIVE" /\ conv[c].state.awaiting = "delay")
      ~> ~(conv[c].status = "ACTIVE" /\ conv[c].state.awaiting = "delay")
=============================================================================

-------------------------- MODULE ConversationsProofs --------------------------
(***************************************************************************)
(* What holds of the conversation runtime for every organization, any      *)
(* number of jobs at a time, and any limits.  Whatever the flows: the type *)
(* of its state, that a row marked ACTIVE can go on, and that it keeps its *)
(* flow.  Of flows whose walks end and that ask something after a booking: *)
(* a timed pause has its timer.  Of flows that do not come back: the timer *)
(* of a pause that is over resumes nothing.                                *)
(* And what holds when the contact's messages are processed one at a time  *)
(* and no timer is armed: there is one conversation in progress, what is   *)
(* over stays over and brings no reply, the stored fields are the answers  *)
(* given, and the runtime as a whole implements Dialogue.                  *)
(***************************************************************************)
EXTENDS Conversations, FlowEngineProofs, FiniteSetTheorems

Statuses == {"unused", "ACTIVE", "COMPLETED", "HANDOFF", "ABANDONED"}
Steps == {"idle", "load", "route", "open", "admit", "run", "book", "save"}

\* What a job has established by the time it gets to each of its steps.
Ready(w, j) ==
  /\ w \in Workers /\ j.pc # "idle" => j.text \in Texts
  /\ w \in DelayWorkers /\ j.pc # "idle" => j.conv \in Convs
  /\ j.pc \in {"open", "admit", "run", "book", "save"} => j.flow \in FlowIds
  /\ j.pc \in {"admit", "run", "book", "save"} => j.conv \in Convs

JobsReady == \A w \in Jobs : Ready(w, job[w])

TypeInv == TypeOK /\ JobsReady

-------------------------------------------------------------------------------
(* Constants and helpers *)

LEMMA FlowType ==
  ASSUME NEW f \in FlowIds
  PROVE  IsFlowDefinition(Flow[f])
BY RuntimeAssumption DEF RuntimeAssumption

LEMMA IdleJobType == IdleJob \in Job
<1>1. UnusedRow \in Row
  BY EmptyStateType DEF UnusedRow, Row, Answer
<1>2. NoSaved \in [Fields -> Answer]
  BY DEF NoSaved, Answer
<1> QED
  BY <1>1, <1>2, EmptyStateType DEF IdleJob, Job, Answer, Target

LEMMA LatestType ==
  ASSUME NEW S
  PROVE  Latest(S) \in S \cup {NULL}
BY DEF Latest

LEMMA FirstType ==
  ASSUME NEW S
  PROVE  First(S) \in S \cup {NULL}
BY DEF First

LEMMA SelectType ==
  ASSUME TypeOK, NEW text
  PROVE  /\ SelectKeywordFlow(text) \in FlowIds \cup {NULL}
         /\ SelectFlowByTrigger(text) \in FlowIds \cup {NULL}
<1>1. live \subseteq FlowIds
  BY DEF TypeOK
<1>2. SelectKeywordFlow(text) \in FlowIds \cup {NULL}
  BY <1>1, FirstType DEF SelectKeywordFlow
<1>3. First({f \in live : TriggerSpecificity(Flow[f].trigger) = 0}) \in FlowIds \cup {NULL}
  BY <1>1, FirstType
<1>4. First(live) \in FlowIds \cup {NULL}
  BY <1>1, FirstType
<1> QED
  BY <1>1, <1>2, <1>3, <1>4 DEF SelectFlowByTrigger

LEMMA FlowOfType ==
  ASSUME TypeOK, NEW j
  PROVE  FlowOf(j) \in FlowIds \cup {NULL}
BY SelectType DEF FlowOf, TypeOK

\* The number of messages a call sends is a number.
LEMMA SendsType ==
  ASSUME NEW result, IsResult(result)
  PROVE  Sends(result.actions) \in Nat
<1> DEFINE sent == {n \in DOMAIN result.actions : result.actions[n].kind = "send_message"}
<1>1. sent \subseteq 0..GUARD_MAX
  BY DEF IsResult
<1>2. IsFiniteSet(0..GUARD_MAX)
  BY FS_Interval, EngineAssumption DEF EngineAssumption
<1>3. IsFiniteSet(sent)
  BY <1>1, <1>2, FS_Subset
<1> QED
  BY <1>3, FS_CardinalityType DEF Sends

LEMMA SavedByType ==
  ASSUME NEW result, IsResult(result)
  PROVE  SavedBy(result.actions) \in [Fields -> Answer]
<1> SUFFICES ASSUME NEW f \in Fields
             PROVE  SavedBy(result.actions)[f] \in Answer
  BY DEF SavedBy
<1> DEFINE saves == {n \in DOMAIN result.actions :
                       result.actions[n].kind = "save_field" /\ result.actions[n].field = f}
           last == {n \in saves : \A m \in saves : m <= n}
<1>1. SavedBy(result.actions)[f] =
        IF last = {} THEN NULL ELSE result.actions[CHOOSE n \in last : TRUE].value
  BY DEF SavedBy
<1>2. \A n \in last : result.actions[n].value \in Answer
  BY DEF IsResult, Effect
<1> HIDE DEF last
<1> QED
  BY <1>1, <1>2 DEF Answer

LEMMA EngineResultType ==
  ASSUME TypeInv, NEW w \in Jobs, job[w].pc = "run"
  PROVE  IsResult(EngineResult(w))
<1>1. /\ IsFlowDefinition(Flow[job[w].flow]) /\ job[w].row.state \in FlowState
      /\ w \notin DelayWorkers => job[w].text \in Texts
  BY FlowType DEF TypeInv, TypeOK, JobsReady, Ready, Job, Row, Jobs
<1> QED
  BY <1>1, ResumeDelayResult, StartResult, StepResult DEF EngineResult

LEMMA StatusOfType ==
  ASSUME NEW state, NEW waiting
  PROVE  StatusOf(state, waiting) \in {"ACTIVE", "COMPLETED", "HANDOFF"}
BY DEF StatusOf

\* Replacing one job by a typed and ready one keeps all jobs typed and ready.
LEMMA JobReplaced ==
  ASSUME TypeInv, NEW w \in Jobs, NEW j \in Job, Ready(w, j),
         job' = [job EXCEPT ![w] = j]
  PROVE  job' \in [Jobs -> Job] /\ JobsReady'
BY DEF TypeInv, TypeOK, JobsReady

LEMMA EndsType ==
  ASSUME TypeInv, NEW w \in Jobs, Ends(w)
  PROVE  job' \in [Jobs -> Job] /\ JobsReady'
<1>1. Ready(w, IdleJob)
  BY DEF Ready, IdleJob
<1> QED
  BY <1>1, IdleJobType, JobReplaced DEF Ends

\* A job that goes on to be persisted.
LEMMA ToSaveType ==
  ASSUME TypeInv, NEW w \in Jobs, job[w].pc \in {"run", "book"},
         NEW state \in FlowState, NEW saved \in [Fields -> Answer],
         NEW waiting \in BOOLEAN, ToSave(w, state, saved, waiting)
  PROVE  job' \in [Jobs -> Job] /\ JobsReady'
<1> DEFINE j == [job[w] EXCEPT !.pc = "save", !.next = state, !.saved = saved,
                               !.waiting = waiting]
<1>1. job[w] \in Job
  BY DEF TypeInv, TypeOK
<1>2. j \in Job
  BY <1>1 DEF Job
<1>3. Ready(w, j)
  BY <1>1 DEF Ready, TypeInv, JobsReady, Job
<1>4. job' = [job EXCEPT ![w] = j]
  BY DEF ToSave, TypeInv, TypeOK
<1> HIDE DEF j
<1> QED
  BY <1>2, <1>3, <1>4, JobReplaced

-------------------------------------------------------------------------------
(* Every step keeps the types *)

\* The part of TypeOK about everything but the jobs.
DataOK ==
  /\ conv \in [Convs -> Row] /\ newer \subseteq Convs \X Convs
  /\ earlier \in [Convs -> SUBSET Convs] /\ fresh \subseteq Convs /\ recent \in Nat
  /\ timers \in [Convs \X Target -> Nat]
  /\ stored \subseteq FlowIds /\ live \subseteq stored
  /\ source \in FlowIds \cup {NULL} /\ fields \in [Fields -> Answer]
  /\ inbound \in Nat /\ crashes \in Nat /\ asked \subseteq Convs
  /\ outrun \in [Convs \X Target -> Nat]

LEMMA TypeInvParts == TypeInv <=> DataOK /\ job \in [Jobs -> Job] /\ JobsReady
BY DEF TypeInv, TypeOK, DataOK

LEMMA TypeInvPrimed ==
  ASSUME DataOK', job' \in [Jobs -> Job], JobsReady'
  PROVE  TypeInv'
BY DEF TypeInv, TypeOK, DataOK

LEMMA TouchType ==
  ASSUME DataOK, NEW c \in Convs, Touch(c)
  PROVE  /\ newer' \subseteq Convs \X Convs /\ earlier' \in [Convs -> SUBSET Convs]
         /\ fresh' \subseteq Convs
BY DEF DataOK, Touch, Used

LEMMA UsedType == Used \subseteq Convs
BY DEF Used

LEMMA ReadRowsType ==
  ASSUME TypeInv, NEW w \in Workers, NEW text \in Texts, ReadRows(w, text)
  PROVE  job' \in [Jobs -> Job] /\ JobsReady'
<1> DEFINE row == IF LatestActive = NULL THEN UnusedRow ELSE conv[LatestActive]
           j == [IdleJob EXCEPT
                   !.pc = "route", !.text = text, !.conv = LatestActive, !.row = row,
                   !.contactFields = fields, !.hasSource = source # NULL]
<1>1. LatestActive \in Convs \cup {NULL}
  BY LatestType DEF LatestActive
<1>2. row \in Row
  BY <1>1, IdleJobType DEF TypeInv, TypeOK, IdleJob, Job
<1>3. w \in Jobs /\ w \notin DelayWorkers
  BY RuntimeAssumption DEF Jobs, RuntimeAssumption
<1>4. fields \in [Fields -> Answer] /\ text \in Answer
  BY DEF TypeInv, TypeOK, Answer
<1> HIDE DEF row
<1>5. j \in Job
  BY <1>1, <1>2, <1>4, IdleJobType DEF Job
<1>6. Ready(w, j)
  BY <1>3, IdleJobType DEF Ready, Job
<1>7. job' = [job EXCEPT ![w] = j]
  BY DEF ReadRows, row
<1> HIDE DEF j
<1> QED
  BY <1>3, <1>5, <1>6, <1>7, JobReplaced

LEMMA ReceiveTypes ==
  ASSUME TypeInv, NEW w \in Workers,
         (\E text \in Texts : Receive(w, text)) \/ ReceiveAgain(w)
  PROVE  TypeInv'
<1>1. PICK text \in Texts : ReadRows(w, text) /\ inbound' \in Nat
  <2>1. CASE ReceiveAgain(w)
    BY <2>1 DEF ReceiveAgain, TypeInv, TypeOK, JobsReady, Ready, Jobs
  <2>2. CASE \E text \in Texts : Receive(w, text)
    BY <2>2 DEF Receive, TypeInv, TypeOK
  <2> QED
    BY <2>1, <2>2
<1>2. DataOK'
  BY <1>1 DEF ReadRows, rowVars, flowVars, contactVars, TypeInv, TypeOK, DataOK
<1> QED
  BY <1>1, <1>2, ReadRowsType, TypeInvPrimed

LEMMA RouteTypes ==
  ASSUME TypeInv, NEW w \in Workers,
         \/ RouteByKeyword(w) \/ RouteNowhere(w) \/ RouteToRunning(w)
         \/ RouteToPrevious(w) \/ RouteToNew(w)
  PROVE  TypeInv'
<1>1. /\ w \in Jobs /\ w \notin DelayWorkers
      /\ job \in [Jobs -> Job] /\ job[w] \in Job /\ DataOK /\ Ready(w, job[w])
  BY RuntimeAssumption DEF Jobs, TypeInv, TypeOK, DataOK, JobsReady, RuntimeAssumption
<1>2. SelectKeywordFlow(job[w].text) \in FlowIds \cup {NULL}
  BY SelectType DEF TypeInv
<1>3. FlowOf(job[w]) \in FlowIds \cup {NULL}
  BY FlowOfType DEF TypeInv
<1>4. CASE RouteByKeyword(w)
  <2> DEFINE j == [job[w] EXCEPT !.pc = "open", !.keyword = TRUE, !.conv = NULL,
                                 !.flow = SelectKeywordFlow(job[w].text)]
  <2>1. SelectKeywordFlow(job[w].text) \in FlowIds /\ job[w].pc = "route"
    BY <1>2, <1>4 DEF RouteByKeyword
  <2>2. j \in Job
    BY <1>1, <2>1 DEF Job
  <2>3. Ready(w, j)
    BY <1>1, <2>1 DEF Ready, Job
  <2>4. job' = [job EXCEPT ![w] = j]
    BY <1>1, <1>4 DEF RouteByKeyword
  <2>5. conv' \in [Convs -> Row]
    BY <1>1, <1>4 DEF RouteByKeyword, DataOK, Row, Job
  <2>6. DataOK'
    BY <1>1, <1>4, <2>5 DEF RouteByKeyword, DataOK, flowVars, contactVars
  <2> HIDE DEF j
  <2> QED
    BY <1>1, <2>2, <2>3, <2>4, <2>6, JobReplaced, TypeInvPrimed
<1>5. CASE RouteNowhere(w)
  <2>1. DataOK'
    BY <1>1, <1>5 DEF RouteNowhere, DataOK, rowVars, flowVars, contactVars
  <2> QED
    BY <1>1, <1>5, <2>1, EndsType, TypeInvPrimed DEF RouteNowhere
<1>6. CASE RouteToRunning(w)
  <2> DEFINE j == [job[w] EXCEPT !.pc = "admit", !.flow = FlowOf(job[w])]
  <2>1. FlowOf(job[w]) \in FlowIds /\ job[w].conv \in Convs /\ job[w].pc = "route"
    BY <1>1, <1>3, <1>6 DEF RouteToRunning, NotAKeyword, Job
  <2>2. j \in Job
    BY <1>1, <2>1 DEF Job
  <2>3. Ready(w, j)
    BY <1>1, <2>1 DEF Ready, Job
  <2>4. job' = [job EXCEPT ![w] = j]
    BY <1>1, <1>6 DEF RouteToRunning
  <2>5. DataOK'
    BY <1>1, <1>6 DEF RouteToRunning, DataOK, rowVars, flowVars, contactVars
  <2> HIDE DEF j
  <2> QED
    BY <1>1, <2>2, <2>3, <2>4, <2>5, JobReplaced, TypeInvPrimed
<1>7. CASE RouteToPrevious(w)
  <2>1. Latest(Used) \in Convs
    BY <1>1, <1>7 DEF RouteToPrevious, CoolingDown, DataOK
  <2>2. /\ newer' \subseteq Convs \X Convs /\ earlier' \in [Convs -> SUBSET Convs]
        /\ fresh' \subseteq Convs
    BY <1>1, <1>7, <2>1, TouchType DEF RouteToPrevious
  <2>3. DataOK'
    BY <1>1, <1>7, <2>2 DEF RouteToPrevious, DataOK, flowVars, contactVars
  <2> QED
    BY <1>1, <1>7, <2>3, EndsType, TypeInvPrimed DEF RouteToPrevious
<1>8. CASE RouteToNew(w)
  <2> DEFINE j == [job[w] EXCEPT !.pc = "open", !.flow = FlowOf(job[w])]
  <2>1. FlowOf(job[w]) \in FlowIds /\ job[w].pc = "route"
    BY <1>3, <1>8 DEF RouteToNew, NotAKeyword
  <2>2. j \in Job
    BY <1>1, <2>1 DEF Job
  <2>3. Ready(w, j)
    BY <1>1, <2>1 DEF Ready, Job
  <2>4. job' = [job EXCEPT ![w] = j]
    BY <1>1, <1>8 DEF RouteToNew
  <2>5. DataOK'
    BY <1>1, <1>8 DEF RouteToNew, DataOK, rowVars, flowVars, contactVars
  <2> HIDE DEF j
  <2> QED
    BY <1>1, <2>2, <2>3, <2>4, <2>5, JobReplaced, TypeInvPrimed
<1> QED
  BY <1>4, <1>5, <1>6, <1>7, <1>8

LEMMA OpenTypes ==
  ASSUME TypeInv, NEW w \in Workers, Open(w)
  PROVE  TypeInv'
<1> DEFINE c == CHOOSE d \in Convs : d \notin Used
           row == [status |-> "ACTIVE", flow |-> job[w].flow,
                   state |-> EmptyState, opener |-> NULL]
           j == [job[w] EXCEPT !.pc = "admit", !.conv = c, !.row = row]
<1>1. /\ w \in Jobs /\ w \notin DelayWorkers
      /\ job \in [Jobs -> Job] /\ job[w] \in Job /\ DataOK /\ Ready(w, job[w])
  BY RuntimeAssumption DEF Jobs, TypeInv, TypeOK, DataOK, JobsReady, RuntimeAssumption
<1>2. c \in Convs
  BY UsedType DEF Open
<1>3. job[w].flow \in FlowIds /\ job[w].pc = "open"
  BY <1>1 DEF Open, Ready
<1>4. row \in Row
  BY <1>3, EmptyStateType DEF Row, Answer
<1>5. /\ conv' = [conv EXCEPT ![c] = row]
      /\ job' = [job EXCEPT ![w].pc = "admit", ![w].conv = c, ![w].row = row]
  BY Zenon DEF Open
<1> HIDE DEF c, row
<1>6. job' = [job EXCEPT ![w] = j]
  BY <1>1, <1>5
<1>7. j \in Job
  BY <1>1, <1>2, <1>4 DEF Job
<1>8. Ready(w, j)
  BY <1>1, <1>2, <1>3 DEF Ready, Job
<1>9. /\ newer' = newer \cup ({c} \X Used) /\ earlier' = [earlier EXCEPT ![c] = Used]
      /\ fresh' = fresh \cup {c} /\ asked' \in {asked, asked \cup {c}}
      /\ UNCHANGED <<recent, timers, flowVars, contactVars, inbound, crashes, outrun>>
  BY DEF Open, c
<1>10. DataOK'
  BY <1>1, <1>2, <1>4, <1>5, <1>9, UsedType DEF DataOK, flowVars, contactVars
<1> HIDE DEF j
<1> QED
  BY <1>1, <1>7, <1>8, <1>10, <1>6, JobReplaced, TypeInvPrimed

\* Admit keeps the types, whatever the rest of the step does to the row order.
LEMMA AdmitType ==
  ASSUME TypeInv, NEW w \in Workers, job[w].pc = "admit", NEW status \in Statuses,
         Admit(w, status), Untouched \/ Touch(job[w].conv)
  PROVE  DataOK'
<1>1. /\ w \in Jobs /\ job[w] \in Job /\ DataOK
      /\ job[w].conv \in Convs /\ job[w].flow \in FlowIds
  BY DEF Jobs, TypeInv, TypeOK, DataOK, JobsReady, Ready
<1>2. /\ newer' \subseteq Convs \X Convs /\ earlier' \in [Convs -> SUBSET Convs]
      /\ fresh' \subseteq Convs
  BY <1>1, TouchType DEF Untouched, DataOK
<1>3. job[w].text \in Answer
  BY <1>1 DEF Job
<1>4. conv' \in [Convs -> Row]
  <2> DEFINE c == job[w].conv
             opener == IF conv[c].opener = NULL THEN job[w].text ELSE conv[c].opener
             row == [conv[c] EXCEPT !.status = status, !.opener = opener]
  <2>1. conv[c] \in Row /\ opener \in Answer
    BY <1>1, <1>3 DEF DataOK, Row
  <2>2. conv' = [conv EXCEPT ![c] = row]
    BY <1>1 DEF Admit, DataOK
  <2> HIDE DEF opener
  <2>3. row \in Row
    BY <2>1 DEF Row, Statuses
  <2> HIDE DEF row
  <2> QED
    BY <1>1, <2>3, <2>2 DEF DataOK
<1>5. source' \in FlowIds \cup {NULL}
  BY <1>1 DEF Admit, DataOK
<1> QED
  BY <1>1, <1>2, <1>4, <1>5 DEF Admit, DataOK, flowVars

LEMMA AdmitTypes ==
  ASSUME TypeInv, NEW w \in Workers,
         AdmitTooMany(w) \/ AdmitDuplicate(w) \/ AdmitFinished(w) \/ AdmitToRun(w)
  PROVE  TypeInv'
<1>1. /\ w \in Jobs /\ w \notin DelayWorkers
      /\ job \in [Jobs -> Job] /\ job[w] \in Job /\ DataOK /\ Ready(w, job[w])
  BY RuntimeAssumption DEF Jobs, TypeInv, TypeOK, DataOK, JobsReady, RuntimeAssumption
<1>2. CASE AdmitTooMany(w) \/ AdmitDuplicate(w) \/ AdmitFinished(w)
  <2>1. Ends(w)
    BY <1>2 DEF AdmitTooMany, AdmitDuplicate, AdmitFinished
  <2>2. DataOK'
    BY <1>2, AdmitType DEF AdmitTooMany, AdmitDuplicate, AdmitFinished, Statuses
  <2> QED
    BY <1>1, <2>1, <2>2, EndsType, TypeInvPrimed
<1>3. CASE AdmitToRun(w)
  <2> DEFINE pc == IF job[w].row.state.awaiting = "booking" THEN "book" ELSE "run"
             j == [job[w] EXCEPT !.pc = pc]
  <2>1. job[w].pc = "admit" /\ conv[job[w].conv].status \in Statuses
    BY <1>1, <1>3 DEF AdmitToRun, Ready, DataOK, Row, Statuses
  <2>2. DataOK'
    BY <1>3, <2>1, AdmitType DEF AdmitToRun
  <2>3. pc \in {"book", "run"}
    OBVIOUS
  <2>4. job' = [job EXCEPT ![w] = j]
    BY <1>1, <1>3 DEF AdmitToRun, GoesTo
  <2> HIDE DEF pc
  <2>5. j \in Job
    BY <1>1, <2>3 DEF Job
  <2>6. Ready(w, j)
    BY <1>1, <2>1, <2>3 DEF Ready, Job
  <2> HIDE DEF j
  <2> QED
    BY <1>1, <2>2, <2>4, <2>5, <2>6, JobReplaced, TypeInvPrimed
<1> QED
  BY <1>2, <1>3

LEMMA RunTypes ==
  ASSUME TypeInv, NEW w \in Jobs,
         RunFails(w) \/ Run(w) \/ RunToMenu(w) \/ RunPastBooking(w)
  PROVE  TypeInv'
<1>1. /\ job \in [Jobs -> Job] /\ job[w] \in Job /\ DataOK /\ Ready(w, job[w])
      /\ job[w].pc = "run"
  BY DEF TypeInv, TypeOK, DataOK, JobsReady, RunFails, Run, RunToMenu, RunPastBooking
<1> DEFINE result == EngineResult(w)
<1>2. IsResult(result)
  BY <1>1, EngineResultType
<1>3. /\ Sends(result.actions) \in Nat /\ SavedBy(result.actions) \in [Fields -> Answer]
      /\ result.state \in FlowState /\ result.awaitingInput \in BOOLEAN
  BY <1>2, SendsType, SavedByType DEF IsResult
<1> HIDE DEF result
<1>4. CASE RunFails(w)
  <2>1. DataOK'
    BY <1>1, <1>4 DEF RunFails, DataOK, rowVars, flowVars, contactVars
  <2> QED
    BY <1>4, <2>1, EndsType, TypeInvPrimed DEF RunFails
<1>5. CASE Run(w)
  <2>1. /\ recent' = recent + Sends(result.actions) /\ Arm(job[w].conv, result.actions)
        /\ ToSave(w, result.state, SavedBy(result.actions), result.awaitingInput)
        /\ UNCHANGED <<rowVars, flowVars, contactVars, inbound, crashes, outrun>>
    BY <1>5 DEF Run, result
  <2>2. timers' \in [Convs \X Target -> Nat]
    BY <1>1, <2>1 DEF Arm, DataOK
  <2>3. DataOK'
    BY <1>1, <1>3, <2>1, <2>2 DEF DataOK, rowVars, flowVars, contactVars
  <2> QED
    BY <1>1, <1>3, <2>1, <2>3, ToSaveType, TypeInvPrimed
<1>6. CASE RunToMenu(w)
  <2> DEFINE state == [result.state EXCEPT !.offered = OFFER_COUNT]
  <2>1. /\ recent' = recent + Sends(result.actions) + 1
        /\ ToSave(w, state, SavedBy(result.actions), result.awaitingInput)
        /\ UNCHANGED <<rowVars, timers, flowVars, contactVars, inbound, crashes, outrun>>
    BY <1>6 DEF RunToMenu, result
  <2>2. state \in FlowState
    BY <1>3, RuntimeAssumption DEF FlowState, RuntimeAssumption
  <2>3. DataOK'
    BY <1>1, <1>3, <2>1 DEF DataOK, rowVars, flowVars, contactVars
  <2> HIDE DEF state
  <2> QED
    BY <1>1, <1>3, <2>1, <2>2, <2>3, ToSaveType, TypeInvPrimed
<1>7. CASE RunPastBooking(w)
  <2> DEFINE resumed == ResumeBooking(Flow[job[w].flow], result.state)
  <2>1. IsResult(resumed)
    BY <1>1, <1>3, FlowType, ResumeBookingResult DEF Ready
  <2>2. Sends(resumed.actions) \in Nat /\ resumed.state \in FlowState
    BY <2>1, SendsType DEF IsResult
  <2>3. /\ \/ recent' = recent + Sends(result.actions) + 1 /\ Ends(w)
           \/ /\ recent' = recent + Sends(result.actions) + 1 + Sends(resumed.actions)
              /\ ToSave(w, resumed.state, SavedBy(result.actions), result.awaitingInput)
        /\ UNCHANGED <<rowVars, timers, flowVars, contactVars, inbound, crashes, outrun>>
    BY <1>7 DEF RunPastBooking, result
  <2> HIDE DEF resumed
  <2>4. DataOK'
    BY <1>1, <1>3, <2>2, <2>3 DEF DataOK, rowVars, flowVars, contactVars
  <2>5. job' \in [Jobs -> Job] /\ JobsReady'
    BY <1>1, <1>3, <2>2, <2>3, EndsType, ToSaveType
  <2> QED
    BY <2>4, <2>5, TypeInvPrimed
<1> QED
  BY <1>4, <1>5, <1>6, <1>7

LEMMA BookTypes ==
  ASSUME TypeInv, NEW w \in Workers, BookAgain(w) \/ BookSlot(w)
  PROVE  TypeInv'
<1>1. /\ w \in Jobs /\ job[w] \in Job /\ DataOK /\ Ready(w, job[w]) /\ job[w].pc = "book"
  BY DEF Jobs, TypeInv, TypeOK, DataOK, JobsReady, BookAgain, BookSlot
<1> DEFINE resumed == ResumeBooking(Flow[job[w].flow], job[w].row.state)
<1>2. job[w].row.state \in FlowState
  BY <1>1 DEF Job, Row
<1>3. IsResult(resumed)
  BY <1>1, <1>2, FlowType, ResumeBookingResult DEF Ready
<1>4. /\ Sends(resumed.actions) \in Nat /\ SavedBy(resumed.actions) \in [Fields -> Answer]
      /\ resumed.state \in FlowState /\ resumed.awaitingInput \in BOOLEAN
  BY <1>3, SendsType, SavedByType DEF IsResult
<1>5. /\ \/ recent' = recent + 1 /\ Ends(w)
         \/ /\ recent' = recent + 1 + Sends(resumed.actions)
            /\ ToSave(w, resumed.state, SavedBy(resumed.actions), resumed.awaitingInput)
      /\ UNCHANGED <<rowVars, timers, flowVars, contactVars, inbound, crashes, outrun>>
  BY DEF BookAgain, BookSlot
<1> HIDE DEF resumed
<1>6. DataOK'
  BY <1>1, <1>4, <1>5 DEF DataOK, rowVars, flowVars, contactVars
<1>7. job' \in [Jobs -> Job] /\ JobsReady'
  BY <1>1, <1>4, <1>5, EndsType, ToSaveType
<1> QED
  BY <1>6, <1>7, TypeInvPrimed

LEMMA SaveTypes ==
  ASSUME TypeInv, NEW w \in Jobs, Save(w)
  PROVE  TypeInv'
<1>1. /\ job[w] \in Job /\ DataOK /\ job[w].conv \in Convs
  BY DEF TypeInv, TypeOK, DataOK, JobsReady, Ready, Save
<1> DEFINE c == job[w].conv
           status == StatusOf(job[w].next, job[w].waiting)
           row == [conv[c] EXCEPT !.state = job[w].next, !.status = status]
<1>2. conv[c] \in Row /\ job[w].next \in FlowState
  BY <1>1 DEF DataOK, Job
<1>3. conv' = [conv EXCEPT ![c] = row] /\ Touch(c) /\ Ends(w)
  BY <1>1 DEF Save, DataOK
<1>4. status \in {"ACTIVE", "COMPLETED", "HANDOFF"}
  BY StatusOfType
<1> HIDE DEF status
<1>5. row \in Row
  BY <1>2, <1>4 DEF Row
<1>6. fields' \in [Fields -> Answer]
  <2>1. Merged(job[w]) \in [Fields -> Answer]
    BY <1>1 DEF Merged, Job
  <2> QED
    BY <1>1, <2>1 DEF Save, DataOK
<1>7. outrun' \in [Convs \X Target -> Nat]
  BY <1>1 DEF Save, DataOK, Job, Row, FlowState
<1> HIDE DEF row
<1>8. DataOK'
  BY <1>1, <1>5, <1>3, <1>6, <1>7, TouchType DEF Save, DataOK, flowVars
<1> QED
  BY <1>3, <1>8, EndsType, TypeInvPrimed

\* A delay job that has found its row: it runs, or is over.
LEMMA ReadDelayedType ==
  ASSUME TypeInv, NEW d \in DelayWorkers, NEW c \in Convs, NEW to \in Target,
         NEW stale \in BOOLEAN, ReadDelayed(d, c, to, stale)
  PROVE  job' \in [Jobs -> Job] /\ JobsReady'
<1> DEFINE j == [IdleJob EXCEPT !.pc = "run", !.conv = c, !.row = conv[c], !.to = to,
                                !.flow = conv[c].flow, !.contactFields = fields,
                                !.hasSource = TRUE, !.stale = stale]
<1>1. d \in Jobs /\ d \notin Workers
  BY RuntimeAssumption DEF Jobs, RuntimeAssumption
<1>2. CASE InPause(c, to)
  <2>1. conv[c] \in Row /\ conv[c].flow \in FlowIds /\ fields \in [Fields -> Answer]
    BY <1>2 DEF InPause, TypeInv, TypeOK
  <2>2. j \in Job
    BY <2>1, IdleJobType DEF Job
  <2>3. Ready(d, j)
    BY <1>1, <2>1, IdleJobType DEF Ready, Job
  <2>4. job' = [job EXCEPT ![d] = j]
    BY <1>2 DEF ReadDelayed
  <2> HIDE DEF j
  <2> QED
    BY <1>1, <2>2, <2>3, <2>4, JobReplaced
<1>3. CASE ~InPause(c, to)
  BY <1>1, <1>3, EndsType DEF ReadDelayed, Ends
<1> QED
  BY <1>2, <1>3

LEMMA DelayedTypes ==
  ASSUME TypeInv, NEW d \in DelayWorkers, Delayed(d)
  PROVE  TypeInv'
<1>1. DataOK
  BY TypeInvParts
<1>2. CASE \E c \in Convs, to \in Target : Fire(d, c, to)
  <2>1. PICK c \in Convs, to \in Target : Fire(d, c, to)
    BY <1>2
  <2>2. /\ outrun[<<c, to>>] \in Nat /\ timers[<<c, to>>] \in Nat \ {0}
    BY <1>1, <2>1 DEF Fire, DataOK
  <2>3. /\ timers' \in [Convs \X Target -> Nat]
        /\ outrun' \in [Convs \X Target -> Nat]
    BY <1>1, <2>1, <2>2 DEF Fire, DataOK
  <2>4. DataOK'
    BY <1>1, <2>1, <2>3 DEF Fire, DataOK, rowVars, flowVars, contactVars
  <2>5. (outrun[<<c, to>>] > 0) \in BOOLEAN
    BY <2>2, SMT
  <2>6. job' \in [Jobs -> Job] /\ JobsReady'
    BY <2>1, <2>5, ReadDelayedType, Zenon DEF Fire
  <2> QED
    BY <2>4, <2>6, TypeInvPrimed
<1>3. CASE FireAgain(d)
  <2>1. job[d] \in Job /\ job[d].conv \in Convs
    BY <1>3 DEF FireAgain, TypeInv, TypeOK, JobsReady, Ready, Jobs
  <2>2. DataOK'
    BY <1>1, <1>3 DEF FireAgain, DataOK, rowVars, flowVars, contactVars
  <2> QED
    BY <1>3, <2>1, <2>2, ReadDelayedType, TypeInvPrimed DEF FireAgain, Job
<1> QED
  BY <1>2, <1>3 DEF Delayed

LEMMA CrashTypes ==
  ASSUME TypeInv, NEW w \in Jobs, Crash(w)
  PROVE  TypeInv'
<1>1. /\ job[w] \in Job /\ DataOK /\ Ready(w, job[w])
      /\ job[w].pc # "idle"
  BY DEF TypeInv, TypeOK, DataOK, JobsReady, Crash
<1> DEFINE j == IF w \in DelayWorkers
                THEN [IdleJob EXCEPT !.pc = "load", !.conv = job[w].conv,
                                     !.to = job[w].to, !.stale = job[w].stale]
                ELSE [IdleJob EXCEPT !.pc = "load", !.text = job[w].text]
<1>2. j \in Job
  BY <1>1, IdleJobType DEF Job
<1>3. Ready(w, j)
  BY <1>1, IdleJobType, RuntimeAssumption DEF Ready, Job, RuntimeAssumption
<1>4. job' = [job EXCEPT ![w] = j]
  BY DEF Crash
<1> HIDE DEF j
<1>5. DataOK'
  BY <1>1 DEF Crash, DataOK, rowVars, flowVars, contactVars
<1> QED
  BY <1>2, <1>3, <1>4, <1>5, JobReplaced, TypeInvPrimed

LEMMA EnvironmentTypes ==
  ASSUME TypeInv,
         \/ \E c \in Convs : Expire(c)
         \/ SlideWindow
         \/ \E f \in FlowIds : ToggleFlow(f) \/ DeleteFlow(f)
         \/ UNCHANGED vars
  PROVE  TypeInv'
<1>1. DataOK /\ job \in [Jobs -> Job] /\ JobsReady
  BY TypeInvParts
<1>2. job' = job
  BY DEF Expire, SlideWindow, ToggleFlow, DeleteFlow, vars
<1>3. JobsReady'
  BY <1>1, <1>2 DEF JobsReady, Ready
<1>4. DataOK'
  <2>1. CASE \E c \in Convs : Expire(c)
    BY <1>1, <2>1 DEF Expire, DataOK, flowVars, contactVars
  <2>2. CASE SlideWindow
    BY <1>1, <2>2 DEF SlideWindow, DataOK, rowVars, flowVars, contactVars
  <2>3. CASE \E f \in FlowIds : ToggleFlow(f)
    BY <1>1, <2>3 DEF ToggleFlow, DataOK, rowVars, contactVars
  <2>4. CASE \E f \in FlowIds : DeleteFlow(f)
    <3>1. PICK f \in FlowIds : DeleteFlow(f)
      BY <2>4
    <3>2. conv' \in [Convs -> Row]
      BY <1>1, <3>1 DEF DeleteFlow, DataOK, Row
    <3>3. stored' \subseteq FlowIds /\ live' \subseteq stored'
      BY <1>1, <3>1 DEF DeleteFlow, DataOK
    <3>4. UNCHANGED <<newer, earlier, fresh, asked, recent, timers, source, fields, inbound, crashes, outrun>>
      BY <3>1 DEF DeleteFlow, contactVars
    <3> QED
      BY <1>1, <3>2, <3>3, <3>4 DEF DataOK
  <2>5. CASE UNCHANGED vars
    BY <1>1, <2>5 DEF vars, DataOK, rowVars, flowVars, contactVars
  <2> QED
    BY <2>1, <2>2, <2>3, <2>4, <2>5
<1> QED
  BY <1>1, <1>2, <1>3, <1>4, TypeInvPrimed

LEMMA InitTypes == Init => TypeInv
<1> SUFFICES ASSUME Init PROVE TypeInv
  OBVIOUS
<1>1. UnusedRow \in Row
  BY IdleJobType DEF IdleJob, Job
<1>2. \A kept \in SUBSET Legacy :
        kept # {} => LegacyRow \in Row
  BY EmptyStateType, FirstType DEF LegacyRow, Row, FlowState, Answer
<1>3. conv \in [Convs -> Row] /\ fresh \subseteq Convs
  <2>1. PICK kept \in SUBSET Legacy :
          /\ conv = [c \in Convs |-> IF c \in kept THEN LegacyRow ELSE UnusedRow]
          /\ fresh \in {{}, kept}
    BY DEF Init
  <2>2. fresh \subseteq Convs
    BY <2>1, RuntimeAssumption DEF RuntimeAssumption
  <2> QED
    BY <1>1, <1>2, <2>1, <2>2
<1>4. fields \in [Fields -> Answer]
  BY DEF Init, NoSaved, Answer
<1>5. DataOK
  BY <1>3, <1>4 DEF Init, DataOK
<1>6. job \in [Jobs -> Job] /\ JobsReady
  BY IdleJobType DEF Init, JobsReady, Ready, IdleJob
<1> QED
  BY <1>5, <1>6, TypeInvParts

LEMMA NextTypes == TypeInv /\ [Next]_vars => TypeInv'
<1> SUFFICES ASSUME TypeInv, [Next]_vars PROVE TypeInv'
  OBVIOUS
<1>1. CASE \E w \in Workers : Inbound(w)
  BY <1>1, ReceiveTypes, RouteTypes, OpenTypes, AdmitTypes, BookTypes DEF Inbound
<1>2. CASE \E d \in DelayWorkers : Delayed(d)
  BY <1>2, DelayedTypes
<1>3. CASE \E w \in Jobs : Applying(w) \/ Crash(w)
  BY <1>3, RunTypes, SaveTypes, CrashTypes DEF Applying
<1>4. CASE \/ \E c \in Convs : Expire(c)
           \/ SlideWindow
           \/ \E f \in FlowIds : ToggleFlow(f) \/ DeleteFlow(f)
           \/ UNCHANGED vars
  BY <1>4, EnvironmentTypes
<1> QED
  BY <1>1, <1>2, <1>3, <1>4 DEF Next

\* Type correctness of the runtime: whatever jobs interleave, crash and run
\* again, rows, timers and jobs stay within their types.
THEOREM TypeCorrect == Spec => []TypeOK
<1>1. Spec => []TypeInv
  BY InitTypes, NextTypes, PTL DEF Spec
<1>2. TypeInv => TypeOK
  BY DEF TypeInv
<1> QED
  BY <1>1, <1>2, PTL

-------------------------------------------------------------------------------
(* Rows marked ACTIVE *)

\* The row can go on: it is new, or live at a node.
Live(row) == row.status = "ACTIVE" =>
               /\ row.state.status = "active"
               /\ row.state.node # NULL \/ row.state = EmptyState

\* The status persist() derives is ACTIVE only for a live state.
LEMMA StatusOfLive ==
  ASSUME NEW state \in FlowState, NEW waiting, StatusOf(state, waiting) = "ACTIVE"
  PROVE  state.status = "active" /\ state.node # NULL
BY DEF StatusOf, FlowState

LEMMA ActiveInit == Init => ActiveRowIsLive
BY DEF Init, ActiveRowIsLive, UnusedRow

LEMMA ActiveNext == TypeInv /\ ActiveRowIsLive /\ [Next]_vars => ActiveRowIsLive'
<1> SUFFICES ASSUME TypeInv, ActiveRowIsLive, [Next]_vars, NEW c \in Convs \ Legacy
             PROVE  Live(conv'[c])
  BY DEF ActiveRowIsLive, Live
<1>1. /\ conv \in [Convs -> Row] /\ conv[c] \in Row /\ Live(conv[c]) /\ c \in Convs
      /\ \A w \in Jobs : job[w] \in Job
  BY DEF TypeInv, TypeOK, ActiveRowIsLive, Live
<1>2. CASE conv' = conv
  BY <1>1, <1>2
<1>3. ASSUME NEW w \in Workers, RouteByKeyword(w) PROVE Live(conv'[c])
  BY <1>1, <1>3 DEF RouteByKeyword, Live, Row
<1>4. ASSUME NEW w \in Workers, Open(w) PROVE Live(conv'[c])
  <2> DEFINE d == CHOOSE e \in Convs : e \notin Used
             row == [status |-> "ACTIVE", flow |-> job[w].flow,
                     state |-> EmptyState, opener |-> NULL]
  <2>1. conv' = [conv EXCEPT ![d] = row]
    BY <1>4, Zenon DEF Open
  <2>2. Live(row)
    BY DEF Live, EmptyState
  <2> HIDE DEF d, row
  <2> QED
    BY <1>1, <2>1, <2>2
<1>5. ASSUME NEW w \in Workers, NEW status \in Statuses, Admit(w, status),
             job[w].pc = "admit", status # "ACTIVE" \/ status = conv[job[w].conv].status
      PROVE  Live(conv'[c])
  BY <1>1, <1>5 DEF Admit, Live, Row
<1>6. ASSUME NEW w \in Workers,
             AdmitTooMany(w) \/ AdmitDuplicate(w) \/ AdmitFinished(w) \/ AdmitToRun(w)
      PROVE  Live(conv'[c])
  <2>1. CASE AdmitTooMany(w) \/ AdmitDuplicate(w) \/ AdmitFinished(w)
    BY <1>5, <2>1 DEF AdmitTooMany, AdmitDuplicate, AdmitFinished, Statuses
  <2>2. CASE AdmitToRun(w)
    <3>1. conv[job[w].conv].status \in Statuses
      BY <1>1, <2>2 DEF AdmitToRun, TypeInv, JobsReady, Ready, Jobs, Row, Statuses
    <3> QED
      BY <1>5, <2>2, <3>1 DEF AdmitToRun
  <2> QED
    BY <1>6, <2>1, <2>2
<1>7. ASSUME NEW w \in Jobs, Save(w) PROVE Live(conv'[c])
  <2> DEFINE status == StatusOf(job[w].next, job[w].waiting)
  <2>1. conv' = [conv EXCEPT ![job[w].conv].state = job[w].next,
                             ![job[w].conv].status = status]
    BY <1>7 DEF Save
  <2>2. status = "ACTIVE" => job[w].next.status = "active" /\ job[w].next.node # NULL
    BY <1>1, StatusOfLive DEF Job
  <2> HIDE DEF status
  <2> QED
    BY <1>1, <2>1, <2>2 DEF Live, Row
<1>8. ASSUME NEW f \in FlowIds, DeleteFlow(f) PROVE Live(conv'[c])
  BY <1>1, <1>8 DEF DeleteFlow, Live, Row
<1>9. CASE \E w \in Workers : Inbound(w)
  BY <1>2, <1>3, <1>4, <1>6, <1>9
     DEF Inbound, Receive, ReceiveAgain, ReadRows, RouteNowhere, RouteToRunning,
         RouteToPrevious, RouteToNew, BookAgain, BookSlot, rowVars
<1>10. CASE \E d \in DelayWorkers : Delayed(d)
  BY <1>2, <1>10 DEF Delayed, Fire, FireAgain, rowVars
<1>11. CASE \E w \in Jobs : Applying(w) \/ Crash(w)
  BY <1>2, <1>7, <1>11
     DEF Applying, Crash, RunFails, Run, RunToMenu, RunPastBooking, rowVars
<1>12. CASE \/ \E d \in Convs : Expire(d)
            \/ SlideWindow
            \/ \E f \in FlowIds : ToggleFlow(f) \/ DeleteFlow(f)
            \/ UNCHANGED vars
  BY <1>2, <1>8, <1>12 DEF Expire, SlideWindow, ToggleFlow, vars, rowVars
<1> QED
  BY <1>9, <1>10, <1>11, <1>12 DEF Next

\* However jobs interleave, crash and run again, a row marked ACTIVE is one
\* whose run can go on: persist() and the branches that close a row never leave
\* a dead run marked as the live one.
THEOREM ActiveRowsAreLive == Spec => []ActiveRowIsLive
<1>1. Init => TypeInv /\ ActiveRowIsLive
  BY InitTypes, ActiveInit
<1>2. TypeInv /\ ActiveRowIsLive /\ [Next]_vars => TypeInv' /\ ActiveRowIsLive'
  BY NextTypes, ActiveNext
<1> QED
  BY <1>1, <1>2, PTL DEF Spec

-------------------------------------------------------------------------------
(* One message at a time *)

\* What rests on one message at a time and no timed pauses.  The code guarantees
\* neither (its consumers run eight and four jobs at a time).
Serial == DelayWorkers = {} /\ \A v, w \in Workers : v = w

\* What a job knows of the rows when no other job can have moved them.
Knows(w) ==
  /\ job[w].pc \in {"admit", "run", "book", "save"}
       => conv[job[w].conv].status = "ACTIVE"
  /\ job[w].pc = "route"
       => /\ job[w].conv # NULL => conv[job[w].conv].status = "ACTIVE"
          /\ \A c \in Convs : conv[c].status = "ACTIVE" => c = job[w].conv
  /\ job[w].pc = "open" => \A c \in Convs : conv[c].status # "ACTIVE"

SerialInv == TypeInv /\ OneActive /\ \A w \in Workers : Knows(w)

\* What is over stays over, as a condition on one step.
StaysOver ==
  \A c \in Convs :
    conv[c].status \in {"COMPLETED", "HANDOFF", "ABANDONED"}
      => conv'[c].status = conv[c].status /\ conv'[c].state = conv[c].state

\* The conclusion of each lemma about a step.
Kept == OneActive' /\ (\A w \in Workers : Knows(w)') /\ StaysOver

-------------------------------------------------------------------------------
\* With one row in progress, the read finds it, or finds there is none.
LEMMA LatestActiveFound ==
  ASSUME OneActive
  PROVE  /\ \A c \in Convs : conv[c].status = "ACTIVE" => LatestActive = c
         /\ LatestActive # NULL =>
              LatestActive \in Convs /\ conv[LatestActive].status = "ACTIVE"
<1> DEFINE S == {c \in Convs : conv[c].status = "ACTIVE"}
<1>1. \A c, d \in S : c = d
  BY DEF OneActive
<1>2. \A c \in S : Latest(S) = c
  BY <1>1 DEF Latest
<1> QED
  BY <1>2, LatestType DEF LatestActive

\* A step that leaves every status and state, and the next place of its own job
\* to its own argument, keeps the rest.
LEMMA RowsKept ==
  ASSUME Serial, SerialInv, NEW w \in Workers,
         \A c \in Convs : conv'[c].status = conv[c].status /\ conv'[c].state = conv[c].state,
         Knows(w)'
  PROVE  Kept
BY DEF Serial, SerialInv, Kept, OneActive, StaysOver

\* The job of slot w after a step that sets it to j.
LEMMA JobIs ==
  ASSUME TypeInv, NEW w \in Workers, NEW j, job' = [job EXCEPT ![w] = j]
  PROVE  job'[w] = j
BY DEF TypeInv, TypeOK, Jobs

LEMMA ReceiveKeeps ==
  ASSUME Serial, SerialInv, NEW w \in Workers, NEW text, ReadRows(w, text)
  PROVE  Kept
<1> DEFINE row == IF LatestActive = NULL THEN UnusedRow ELSE conv[LatestActive]
           j == [IdleJob EXCEPT
                   !.pc = "route", !.text = text, !.conv = LatestActive, !.row = row,
                   !.contactFields = fields, !.hasSource = source # NULL]
<1>1. job' = [job EXCEPT ![w] = j] /\ conv' = conv
  BY DEF ReadRows, rowVars
<1>2. job'[w] = j
  BY <1>1, JobIs DEF SerialInv
<1>3. j.pc = "route" /\ j.conv = LatestActive
  BY DEF IdleJob
<1> HIDE DEF j
<1>4. Knows(w)'
  BY <1>1, <1>2, <1>3, LatestActiveFound DEF Knows, SerialInv
<1> QED
  BY <1>1, <1>4, RowsKept

LEMMA RouteKeeps ==
  ASSUME Serial, SerialInv, NEW w \in Workers,
         \/ RouteByKeyword(w) \/ RouteNowhere(w) \/ RouteToRunning(w)
         \/ RouteToPrevious(w) \/ RouteToNew(w)
  PROVE  Kept
<1>1. /\ job \in [Jobs -> Job] /\ job[w] \in Job /\ w \in Jobs
      /\ conv \in [Convs -> Row] /\ Knows(w) /\ OneActive
  BY DEF SerialInv, TypeInv, TypeOK, Jobs
<1>2. CASE RouteByKeyword(w)
  <2>1. job'[w].pc = "open"
    BY <1>1, <1>2 DEF RouteByKeyword, Job
  <2>2. /\ job[w].conv # NULL => conv[job[w].conv].status = "ACTIVE"
        /\ \A c \in Convs : conv[c].status = "ACTIVE" => c = job[w].conv
    BY <1>1, <1>2 DEF RouteByKeyword, Knows
  <2>3. \A c \in Convs : IF c = job[w].conv THEN conv'[c].status = "ABANDONED"
                         ELSE conv'[c] = conv[c]
    BY <1>1, <1>2, RuntimeAssumption DEF RouteByKeyword, Row, RuntimeAssumption
  <2>4. \A c \in Convs : conv'[c].status # "ACTIVE"
    BY <2>2, <2>3
  <2>5. StaysOver
    BY <2>2, <2>3, RuntimeAssumption DEF StaysOver, RuntimeAssumption
  <2>6. Knows(w)'
    BY <2>1, <2>4 DEF Knows
  <2> QED
    BY <2>4, <2>5, <2>6 DEF Kept, OneActive, Serial
<1>3. CASE RouteNowhere(w) \/ RouteToPrevious(w)
  <2>1. job'[w].pc = "idle" /\ conv' = conv
    BY <1>1, <1>3 DEF RouteNowhere, RouteToPrevious, Ends, IdleJob, rowVars
  <2> QED
    BY <2>1, RowsKept DEF Knows
<1>4. CASE RouteToRunning(w)
  <2>1. job'[w].pc = "admit" /\ job'[w].conv = job[w].conv /\ conv' = conv
    BY <1>1, <1>4 DEF RouteToRunning, Job, rowVars
  <2>2. conv[job[w].conv].status = "ACTIVE"
    BY <1>1, <1>4 DEF RouteToRunning, NotAKeyword, Knows
  <2> QED
    BY <2>1, <2>2, RowsKept DEF Knows
<1>5. CASE RouteToNew(w)
  <2>1. job'[w].pc = "open" /\ conv' = conv
    BY <1>1, <1>5 DEF RouteToNew, Job, rowVars
  <2>2. \A c \in Convs : conv[c].status # "ACTIVE"
    BY <1>1, <1>5, RuntimeAssumption
       DEF RouteToNew, NotAKeyword, Knows, RuntimeAssumption
  <2> QED
    BY <2>1, <2>2, RowsKept DEF Knows
<1> QED
  BY <1>2, <1>3, <1>4, <1>5

LEMMA OpenKeeps ==
  ASSUME Serial, SerialInv, NEW w \in Workers, Open(w)
  PROVE  Kept
<1> DEFINE c == CHOOSE d \in Convs : d \notin Used
           row == [status |-> "ACTIVE", flow |-> job[w].flow,
                   state |-> EmptyState, opener |-> NULL]
<1>1. /\ job \in [Jobs -> Job] /\ job[w] \in Job /\ w \in Jobs
      /\ conv \in [Convs -> Row] /\ Knows(w)
  BY DEF SerialInv, TypeInv, TypeOK, Jobs
<1>2. c \in Convs /\ conv[c].status = "unused"
  BY DEF Open, Used
<1>3. /\ conv' = [conv EXCEPT ![c] = row]
      /\ job' = [job EXCEPT ![w].pc = "admit", ![w].conv = c, ![w].row = row]
      /\ job[w].pc = "open"
  BY Zenon DEF Open
<1>4. row.status = "ACTIVE"
  OBVIOUS
<1> HIDE DEF c, row
<1>5. job'[w].pc = "admit" /\ job'[w].conv = c
  BY <1>1, <1>3 DEF Job
<1>6. \A d \in Convs : conv[d].status # "ACTIVE"
  BY <1>1, <1>3 DEF Knows
<1>7. OneActive' /\ conv'[c].status = "ACTIVE"
  BY <1>1, <1>2, <1>3, <1>4, <1>6 DEF OneActive
<1>8. StaysOver
  BY <1>1, <1>2, <1>3 DEF StaysOver
<1>9. Knows(w)'
  BY <1>5, <1>7 DEF Knows
<1> QED
  BY <1>7, <1>8, <1>9 DEF Kept, Serial

\* A job that closes its own row, or leaves it open and goes on.
LEMMA AdmitKeeps ==
  ASSUME Serial, SerialInv, NEW w \in Workers,
         AdmitTooMany(w) \/ AdmitDuplicate(w) \/ AdmitFinished(w) \/ AdmitToRun(w)
  PROVE  Kept
<1>1. /\ job \in [Jobs -> Job] /\ job[w] \in Job /\ w \in Jobs
      /\ conv \in [Convs -> Row] /\ Knows(w) /\ OneActive /\ Ready(w, job[w])
      /\ job[w].pc = "admit"
  BY DEF SerialInv, TypeInv, TypeOK, Jobs, JobsReady, AdmitTooMany, AdmitDuplicate,
         AdmitFinished, AdmitToRun
<1>2. job[w].conv \in Convs /\ conv[job[w].conv].status = "ACTIVE"
  BY <1>1 DEF Knows, Ready
<1>3. ASSUME NEW status, Admit(w, status)
      PROVE  /\ \A c \in Convs \ {job[w].conv} : conv'[c] = conv[c]
             /\ conv'[job[w].conv].status = status
             /\ conv'[job[w].conv].state = conv[job[w].conv].state
  BY <1>1, <1>2, <1>3 DEF Admit, Row
<1>4. CASE AdmitTooMany(w) \/ AdmitDuplicate(w) \/ AdmitFinished(w)
  <2>1. \E status \in {"HANDOFF", "COMPLETED"} : Admit(w, status)
    BY <1>4 DEF AdmitTooMany, AdmitDuplicate, AdmitFinished
  <2>2. job'[w].pc = "idle"
    BY <1>1, <1>4 DEF AdmitTooMany, AdmitDuplicate, AdmitFinished, Ends, IdleJob
  <2>3. \A c \in Convs : conv'[c].status # "ACTIVE"
    BY <1>1, <1>2, <1>3, <2>1 DEF OneActive
  <2>4. StaysOver
    BY <1>2, <1>3, <2>1 DEF StaysOver
  <2> QED
    BY <2>2, <2>3, <2>4 DEF Kept, Knows, OneActive, Serial
<1>5. CASE AdmitToRun(w)
  <2>1. job'[w].pc \in {"book", "run"} /\ job'[w].conv = job[w].conv
    BY <1>1, <1>5 DEF AdmitToRun, GoesTo, Job
  <2>2. \A c \in Convs : conv'[c].status = conv[c].status /\ conv'[c].state = conv[c].state
    BY <1>1, <1>2, <1>3, <1>5 DEF AdmitToRun
  <2> QED
    BY <1>2, <2>1, <2>2, RowsKept DEF Knows
<1> QED
  BY <1>4, <1>5

\* A job that ends, or hands its state on to be saved, leaving the rows alone.
LEMMA ApplyKeeps ==
  ASSUME Serial, SerialInv, NEW w \in Workers,
         \/ BookAgain(w) \/ BookSlot(w) \/ RunFails(w) \/ Run(w)
         \/ RunToMenu(w) \/ RunPastBooking(w)
  PROVE  Kept
<1>1. /\ job \in [Jobs -> Job] /\ job[w] \in Job /\ w \in Jobs
      /\ Knows(w) /\ Ready(w, job[w]) /\ job[w].pc \in {"run", "book"}
  BY DEF SerialInv, TypeInv, TypeOK, Jobs, JobsReady, BookAgain, BookSlot, RunFails,
         Run, RunToMenu, RunPastBooking
<1>2. conv' = conv
  BY DEF BookAgain, BookSlot, RunFails, Run, RunToMenu, RunPastBooking, rowVars
<1>3. \/ Ends(w)
      \/ \E state, saved, waiting : ToSave(w, state, saved, waiting)
  BY Zenon DEF BookAgain, BookSlot, RunFails, Run, RunToMenu, RunPastBooking
<1>4. CASE Ends(w)
  <2>1. job'[w].pc = "idle"
    BY <1>1, <1>4 DEF Ends, IdleJob
  <2> QED
    BY <1>2, <2>1, RowsKept DEF Knows
<1>5. ASSUME NEW state, NEW saved, NEW waiting, ToSave(w, state, saved, waiting)
      PROVE  Kept
  <2> DEFINE j == [job[w] EXCEPT !.pc = "save", !.next = state, !.saved = saved,
                                 !.waiting = waiting]
  <2>1. job' = [job EXCEPT ![w] = j]
    BY <1>1, <1>5 DEF ToSave
  <2>2. job'[w] = j
    BY <2>1, JobIs DEF SerialInv
  <2>3. j.pc = "save" /\ j.conv = job[w].conv
    BY <1>1 DEF Job
  <2> HIDE DEF j
  <2> QED
    BY <1>1, <1>2, <2>2, <2>3, RowsKept DEF Knows
<1> QED
  BY <1>3, <1>4, <1>5

LEMMA SaveKeeps ==
  ASSUME Serial, SerialInv, NEW w \in Workers, Save(w)
  PROVE  Kept
<1>1. /\ job \in [Jobs -> Job] /\ job[w] \in Job /\ w \in Jobs
      /\ conv \in [Convs -> Row] /\ Knows(w) /\ OneActive /\ Ready(w, job[w])
      /\ job[w].pc = "save"
  BY DEF SerialInv, TypeInv, TypeOK, Jobs, JobsReady, Save
<1>2. job[w].conv \in Convs /\ conv[job[w].conv].status = "ACTIVE"
  BY <1>1 DEF Knows, Ready
<1>3. \A c \in Convs \ {job[w].conv} : conv'[c] = conv[c]
  BY <1>1, <1>2 DEF Save
<1>4. job'[w].pc = "idle"
  BY <1>1 DEF Save, Ends, IdleJob
<1>5. OneActive' /\ StaysOver
  BY <1>1, <1>2, <1>3 DEF OneActive, StaysOver
<1> QED
  BY <1>4, <1>5 DEF Kept, Knows, Serial

LEMMA OthersKeep ==
  ASSUME Serial, SerialInv,
         \/ \E w \in Workers : Crash(w)
         \/ \E c \in Convs : Expire(c)
         \/ SlideWindow
         \/ \E f \in FlowIds : ToggleFlow(f) \/ DeleteFlow(f)
         \/ UNCHANGED vars
  PROVE  Kept
<1>1. /\ job \in [Jobs -> Job] /\ conv \in [Convs -> Row]
      /\ OneActive /\ \A w \in Workers : Knows(w) /\ w \in Jobs /\ job[w] \in Job
  BY DEF SerialInv, TypeInv, TypeOK, Jobs
<1>2. \A c \in Convs : conv'[c].status = conv[c].status /\ conv'[c].state = conv[c].state
  <2>1. ASSUME NEW f \in FlowIds, DeleteFlow(f)
        PROVE  \A c \in Convs : /\ conv'[c].status = conv[c].status
                               /\ conv'[c].state = conv[c].state
    BY <1>1, <2>1 DEF DeleteFlow, Row
  <2>2. (\E f \in FlowIds : DeleteFlow(f)) \/ conv' = conv
    BY DEF Crash, Expire, SlideWindow, ToggleFlow, vars, rowVars
  <2> QED
    BY <2>1, <2>2
<1>3. \A w \in Workers : job'[w] = job[w] \/ job'[w].pc = "load"
  <2>1. ASSUME NEW v \in Workers, Crash(v)
        PROVE  \A w \in Workers : job'[w] = job[w] \/ job'[w].pc = "load"
    <3>1. job' = [job EXCEPT ![v] = [IdleJob EXCEPT !.pc = "load", !.text = job[v].text]]
      BY <2>1 DEF Crash, Serial
    <3> QED
      BY <1>1, <3>1 DEF IdleJob
  <2>2. (\E w \in Workers : Crash(w)) \/ job' = job
    BY DEF Expire, SlideWindow, ToggleFlow, DeleteFlow, vars
  <2> QED
    BY <2>1, <2>2
<1>4. \A w \in Workers : job'[w] = job[w] => Knows(w)'
  <2> SUFFICES ASSUME NEW w \in Workers, job'[w] = job[w] PROVE Knows(w)'
    OBVIOUS
  <2>1. job[w].conv \in Convs \cup {NULL} /\ Ready(w, job[w])
    BY <1>1 DEF Job, SerialInv, TypeInv, JobsReady
  <2> QED
    BY <1>1, <1>2, <2>1 DEF Knows, Ready
<1>5. \A w \in Workers : job'[w].pc = "load" => Knows(w)'
  BY DEF Knows
<1> QED
  BY <1>1, <1>2, <1>3, <1>4, <1>5 DEF Kept, OneActive, StaysOver

-------------------------------------------------------------------------------
LEMMA SerialInit == Init => SerialInv
<1> SUFFICES ASSUME Init PROVE SerialInv
  OBVIOUS
<1>1. OneActive
  BY RuntimeAssumption DEF Init, OneActive, UnusedRow, RuntimeAssumption
<1>2. \A w \in Workers : Knows(w)
  BY DEF Init, Knows, Jobs, IdleJob
<1> QED
  BY <1>1, <1>2, InitTypes DEF SerialInv

LEMMA SerialNext ==
  ASSUME Serial
  PROVE  SerialInv /\ [Next]_vars => SerialInv' /\ StaysOver
<1> SUFFICES ASSUME SerialInv, [Next]_vars PROVE TypeInv' /\ Kept
  BY DEF SerialInv, Kept
<1>1. TypeInv'
  BY NextTypes DEF SerialInv
<1>2. Jobs = Workers
  BY DEF Jobs, Serial
<1>3. CASE \E w \in Workers : Inbound(w)
  BY <1>1, <1>3, ReceiveKeeps, RouteKeeps, OpenKeeps, AdmitKeeps, ApplyKeeps
     DEF Inbound, Receive, ReceiveAgain
<1>4. CASE \E w \in Jobs : Applying(w) \/ Crash(w)
  BY <1>1, <1>2, <1>4, ApplyKeeps, SaveKeeps, OthersKeep DEF Applying
<1>5. CASE \/ \E c \in Convs : Expire(c)
           \/ SlideWindow
           \/ \E f \in FlowIds : ToggleFlow(f) \/ DeleteFlow(f)
           \/ UNCHANGED vars
  BY <1>1, <1>5, OthersKeep
<1> QED
  BY <1>3, <1>4, <1>5 DEF Next, Serial

\* One message at a time, and no timers: the contact never has two
\* conversations in progress, whatever crashes, retries, deletions of flows and
\* pauses of the clock come in between.
THEOREM OneConversationAtATime ==
  ASSUME Serial
  PROVE  Spec => []OneActive
<1>1. SerialInv /\ [Next]_vars => SerialInv'
  BY SerialNext
<1>2. SerialInv => OneActive
  BY DEF SerialInv
<1> QED
  BY <1>1, <1>2, SerialInit, PTL DEF Spec

\* Under the same hypothesis a conversation that was completed, handed to a
\* person or abandoned is never reopened and its state is never rewritten.
THEOREM WhatIsOverStaysOver ==
  ASSUME Serial
  PROVE  Spec => OverIsOver
<1>1. SerialInv /\ [Next]_vars => SerialInv'
  BY SerialNext
<1>2. SerialInv /\ [Next]_vars => StaysOver
  BY SerialNext
<1>3. [][StaysOver]_vars => OverIsOver
  BY PTL DEF OverIsOver, StaysOver
<1> QED
  BY <1>1, <1>2, <1>3, SerialInit, PTL DEF Spec

-------------------------------------------------------------------------------
(* A job keeps to the flow of its conversation *)

Working == {"admit", "run", "book", "save"}

\* A job that has read a row, or works on one, has a row that exists; what it
\* takes for the row's flow is that, unless the flow has been deleted since.
FlowFits(w) ==
  /\ job[w].pc = "route" /\ job[w].conv # NULL =>
       /\ conv[job[w].conv].status # "unused"
       /\ conv[job[w].conv].flow \in {job[w].row.flow, NULL}
  /\ job[w].pc \in Working =>
       /\ conv[job[w].conv].status # "unused"
       /\ conv[job[w].conv].flow \in stored => job[w].flow = conv[job[w].conv].flow

FlowInv == TypeInv /\ \A w \in Jobs : FlowFits(w)

\* What any step may do to the rows that exist, and to the set of flows.
RowsDrift ==
  /\ \A c \in Convs : conv[c].status # "unused" =>
       conv'[c].status # "unused" /\ conv'[c].flow \in {conv[c].flow, NULL}
  /\ stored' \subseteq stored

LEMMA NextDrifts == TypeInv /\ [Next]_vars => RowsDrift
<1> SUFFICES ASSUME TypeInv, [Next]_vars PROVE RowsDrift
  OBVIOUS
<1>1. /\ conv \in [Convs -> Row] /\ stored \subseteq FlowIds
      /\ \A w \in Jobs : job[w] \in Job /\ Ready(w, job[w])
      /\ \A w \in Workers : w \in Jobs
  BY DEF TypeInv, TypeOK, JobsReady, Jobs
<1>2. CASE conv' = conv /\ stored' = stored
  BY <1>2 DEF RowsDrift
<1>3. ASSUME NEW w \in Workers, RouteByKeyword(w) PROVE RowsDrift
  BY <1>1, <1>3 DEF RouteByKeyword, RowsDrift, Row, flowVars
<1>4. ASSUME NEW w \in Workers, Open(w) PROVE RowsDrift
  <2> DEFINE d == CHOOSE e \in Convs : e \notin Used
             row == [status |-> "ACTIVE", flow |-> job[w].flow,
                     state |-> EmptyState, opener |-> NULL]
  <2>1. conv' = [conv EXCEPT ![d] = row] /\ stored' = stored
    BY <1>4, Zenon DEF Open, flowVars
  <2>2. d \in Convs /\ conv[d].status = "unused"
    BY <1>4 DEF Open, Used
  <2> HIDE DEF d, row
  <2> QED
    BY <1>1, <2>1, <2>2 DEF RowsDrift
<1>5. ASSUME NEW w \in Workers, NEW status, Admit(w, status), status # "unused"
      PROVE  RowsDrift
  BY <1>1, <1>5 DEF Admit, RowsDrift, Row, flowVars
<1>6. ASSUME NEW w \in Workers,
             AdmitTooMany(w) \/ AdmitDuplicate(w) \/ AdmitFinished(w)
      PROVE  RowsDrift
  BY <1>5, <1>6 DEF AdmitTooMany, AdmitDuplicate, AdmitFinished
<1>7. ASSUME NEW w \in Workers, AdmitToRun(w) PROVE RowsDrift
  BY <1>1, <1>7 DEF AdmitToRun, Admit, RowsDrift, Row, flowVars
<1>8. ASSUME NEW w \in Jobs, Save(w) PROVE RowsDrift
  <2>1. StatusOf(job[w].next, job[w].waiting) # "unused"
    BY StatusOfType
  <2>2. /\ conv' = [conv EXCEPT ![job[w].conv].state = job[w].next,
                   ![job[w].conv].status = StatusOf(job[w].next, job[w].waiting)]
        /\ stored' = stored
    BY <1>8 DEF Save, flowVars
  <2> QED
    BY <1>1, <2>1, <2>2 DEF RowsDrift, Row
<1>9. ASSUME NEW f \in FlowIds, DeleteFlow(f) PROVE RowsDrift
  BY <1>1, <1>9 DEF DeleteFlow, RowsDrift, Row
<1>10. CASE \E w \in Workers : Inbound(w)
  BY <1>2, <1>3, <1>4, <1>6, <1>7, <1>10
     DEF Inbound, Receive, ReceiveAgain, ReadRows, RouteNowhere, RouteToRunning,
         RouteToPrevious, RouteToNew, BookAgain, BookSlot, rowVars, flowVars
<1>11. CASE \E d \in DelayWorkers : Delayed(d)
  BY <1>2, <1>11 DEF Delayed, Fire, FireAgain, rowVars, flowVars
<1>12. CASE \E w \in Jobs : Applying(w) \/ Crash(w)
  BY <1>2, <1>8, <1>12
     DEF Applying, Crash, RunFails, Run, RunToMenu, RunPastBooking, rowVars, flowVars
<1>13. CASE \/ \E d \in Convs : Expire(d)
            \/ SlideWindow
            \/ \E f \in FlowIds : ToggleFlow(f) \/ DeleteFlow(f)
            \/ UNCHANGED vars
  BY <1>2, <1>9, <1>13 DEF Expire, SlideWindow, ToggleFlow, vars, rowVars, flowVars
<1> QED
  BY <1>10, <1>11, <1>12, <1>13 DEF Next

\* A job that did not move, or went on with the same row and flow, or has
\* neither any more, still fits.
LEMMA FlowCarried ==
  ASSUME FlowInv, RowsDrift, NEW w \in Jobs,
         \/ job'[w] = job[w]
         \/ /\ job[w].pc \in Working
            /\ job'[w].pc # "route"
            /\ job'[w].conv = job[w].conv /\ job'[w].flow = job[w].flow
         \/ job'[w].pc \notin Working \cup {"route"}
  PROVE  FlowFits(w)'
<1>1. /\ FlowFits(w) /\ Ready(w, job[w]) /\ job[w] \in Job
      /\ NULL \notin stored'
  BY RuntimeAssumption DEF FlowInv, TypeInv, TypeOK, JobsReady, RowsDrift, RuntimeAssumption
<1>2. /\ job[w].pc \in Working => job[w].conv \in Convs
      /\ job[w].pc = "route" /\ job[w].conv # NULL => job[w].conv \in Convs
  BY <1>1 DEF Ready, Job, Working
<1>3. CASE job'[w] = job[w]
  BY <1>1, <1>2, <1>3 DEF FlowFits, RowsDrift
<1>4. CASE /\ job[w].pc \in Working
           /\ job'[w].pc # "route"
           /\ job'[w].conv = job[w].conv /\ job'[w].flow = job[w].flow
  BY <1>1, <1>2, <1>4 DEF FlowFits, RowsDrift
<1>5. CASE job'[w].pc \notin Working \cup {"route"}
  BY <1>5 DEF FlowFits
<1> QED
  BY <1>3, <1>4, <1>5

LEMMA ReadFits ==
  ASSUME FlowInv, NEW w \in Workers, NEW text, ReadRows(w, text)
  PROVE  FlowFits(w)'
<1> DEFINE row == IF LatestActive = NULL THEN UnusedRow ELSE conv[LatestActive]
           j == [IdleJob EXCEPT
                   !.pc = "route", !.text = text, !.conv = LatestActive, !.row = row,
                   !.contactFields = fields, !.hasSource = source # NULL]
<1>1. job' = [job EXCEPT ![w] = j] /\ conv' = conv
  BY DEF ReadRows, rowVars
<1>2. job'[w] = j
  BY <1>1, JobIs DEF FlowInv
<1>3. j.pc = "route" /\ j.conv = LatestActive /\ j.row = row
  BY DEF IdleJob
<1> HIDE DEF j
<1>4. LatestActive # NULL => row = conv[LatestActive] /\ row.status = "ACTIVE"
  BY LatestType DEF LatestActive
<1> HIDE DEF row
<1> QED
  BY <1>1, <1>2, <1>3, <1>4 DEF FlowFits, Working

LEMMA RouteFits ==
  ASSUME FlowInv, NEW w \in Workers, RouteToRunning(w)
  PROVE  FlowFits(w)'
<1>1. /\ job'[w].pc = "admit" /\ job'[w].conv = job[w].conv
      /\ job'[w].flow = FlowOf(job[w]) /\ conv' = conv /\ stored' = stored
  BY DEF RouteToRunning, FlowInv, TypeInv, TypeOK, Job, Jobs, rowVars, flowVars
<1>2. job[w].pc = "route" /\ job[w].conv # NULL /\ FlowFits(w)
  BY DEF RouteToRunning, NotAKeyword, FlowInv, Jobs
<1>3. stored \subseteq FlowIds /\ NULL \notin stored
  BY RuntimeAssumption DEF FlowInv, TypeInv, TypeOK, RuntimeAssumption
<1> QED
  BY <1>1, <1>2, <1>3 DEF FlowFits, FlowOf, Working

LEMMA OpenFits ==
  ASSUME FlowInv, NEW w \in Workers, Open(w)
  PROVE  FlowFits(w)'
<1> DEFINE c == CHOOSE d \in Convs : d \notin Used
           row == [status |-> "ACTIVE", flow |-> job[w].flow,
                   state |-> EmptyState, opener |-> NULL]
<1>1. /\ conv \in [Convs -> Row] /\ job \in [Jobs -> Job] /\ w \in Jobs /\ c \in Convs
  BY DEF FlowInv, TypeInv, TypeOK, Jobs, Open, Used
<1>2. /\ conv' = [conv EXCEPT ![c] = row]
      /\ job' = [job EXCEPT ![w].pc = "admit", ![w].conv = c, ![w].row = row]
  BY Zenon DEF Open
<1>3. row.status = "ACTIVE" /\ row.flow = job[w].flow
  OBVIOUS
<1> HIDE DEF c, row
<1>4. job'[w].pc = "admit" /\ job'[w].conv = c /\ job'[w].flow = job[w].flow
  BY <1>1, <1>2 DEF Job
<1>5. conv'[c] = row
  BY <1>1, <1>2
<1> QED
  BY <1>3, <1>4, <1>5 DEF FlowFits, Working

LEMMA DelayedFits ==
  ASSUME FlowInv, NEW d \in DelayWorkers, NEW c, NEW to, NEW stale,
         ReadDelayed(d, c, to, stale), conv' = conv
  PROVE  FlowFits(d)'
<1> DEFINE j == [IdleJob EXCEPT !.pc = "run", !.conv = c, !.row = conv[c], !.to = to,
                                !.flow = conv[c].flow, !.contactFields = fields,
                                !.hasSource = TRUE, !.stale = stale]
<1>1. job' = [job EXCEPT ![d] = IF InPause(c, to) THEN j ELSE IdleJob]
  BY DEF ReadDelayed
<1>2. job'[d] = IF InPause(c, to) THEN j ELSE IdleJob
  BY <1>1 DEF FlowInv, TypeInv, TypeOK, Jobs
<1>3. /\ j.pc = "run" /\ j.conv = c /\ j.flow = conv[c].flow
      /\ IdleJob.pc = "idle"
  BY DEF IdleJob
<1> HIDE DEF j
<1> QED
  BY <1>2, <1>3 DEF FlowFits, InPause, Working

-------------------------------------------------------------------------------
LEMMA FlowNext == FlowInv /\ [Next]_vars => FlowInv'
<1> SUFFICES ASSUME FlowInv, [Next]_vars, NEW v \in Jobs PROVE FlowFits(v)'
  BY NextTypes DEF FlowInv
<1>1. RowsDrift
  BY NextDrifts DEF FlowInv
<1>2. job \in [Jobs -> Job] /\ \A w \in Workers \cup DelayWorkers : w \in Jobs
  BY DEF FlowInv, TypeInv, TypeOK, Jobs
<1>3. CASE job'[v] = job[v]
  BY <1>1, <1>3, FlowCarried
<1>4. ASSUME NEW w, NEW j, job' = [job EXCEPT ![w] = j], w # v PROVE job'[v] = job[v]
  BY <1>2, <1>4
<1>5. ASSUME job' = [job EXCEPT ![v] = IdleJob] PROVE FlowFits(v)'
  <2>1. job'[v].pc = "idle"
    BY <1>2, <1>5 DEF IdleJob
  <2> QED
    BY <1>1, <2>1, FlowCarried DEF Working
<1>6. CASE \E w \in Workers : Inbound(w)
  <2> PICK w \in Workers : Inbound(w)
    BY <1>6
  <2>1. CASE (\E text \in Texts : Receive(w, text)) \/ ReceiveAgain(w)
    <3>1. PICK text : ReadRows(w, text)
      BY <2>1 DEF Receive, ReceiveAgain
    <3>2. w # v => job'[v] = job[v]
      BY <1>2, <3>1 DEF ReadRows
    <3> QED
      BY <1>3, <3>1, <3>2, ReadFits
  <2>2. CASE RouteByKeyword(w) \/ RouteToNew(w)
    <3>1. /\ w # v => job'[v] = job[v]
          /\ job'[w].pc = "open"
      BY <1>2, <2>2 DEF RouteByKeyword, RouteToNew, Job
    <3> QED
      BY <1>1, <1>3, <3>1, FlowCarried DEF Working
  <2>3. CASE RouteToRunning(w)
    <3>1. w # v => job'[v] = job[v]
      BY <1>2, <2>3 DEF RouteToRunning
    <3> QED
      BY <1>3, <2>3, <3>1, RouteFits
  <2>4. CASE Open(w)
    <3>1. w # v => job'[v] = job[v]
      BY <1>2, <2>4 DEF Open
    <3> QED
      BY <1>3, <2>4, <3>1, OpenFits
  <2>5. CASE AdmitToRun(w)
    <3>1. /\ w # v => job'[v] = job[v]
          /\ job[w].pc \in Working /\ job'[w].pc \in Working
          /\ job'[w].conv = job[w].conv /\ job'[w].flow = job[w].flow
      BY <1>2, <2>5 DEF AdmitToRun, GoesTo, Job, Working
    <3> QED
      BY <1>1, <1>3, <3>1, FlowCarried DEF Working
  <2>6. CASE \/ RouteNowhere(w) \/ RouteToPrevious(w)
             \/ AdmitTooMany(w) \/ AdmitDuplicate(w) \/ AdmitFinished(w)
             \/ BookAgain(w)
    <3>1. Ends(w)
      BY <2>6 DEF RouteNowhere, RouteToPrevious, AdmitTooMany, AdmitDuplicate,
                  AdmitFinished, BookAgain
    <3> QED
      BY <1>2, <1>3, <1>5, <3>1 DEF Ends
  <2>7. CASE BookSlot(w)
    <3>1. job[w].pc = "book" /\
            (Ends(w) \/ \E state, saved, waiting : ToSave(w, state, saved, waiting))
      BY <2>7, Zenon DEF BookSlot
    <3>2. CASE Ends(w)
      BY <1>2, <1>3, <1>5, <3>2 DEF Ends
    <3>3. CASE \E state, saved, waiting : ToSave(w, state, saved, waiting)
      <4>1. /\ w # v => job'[v] = job[v]
            /\ job'[w].pc = "save"
            /\ job'[w].conv = job[w].conv /\ job'[w].flow = job[w].flow
        BY <1>2, <3>3 DEF ToSave, Job
      <4> QED
        BY <1>1, <1>3, <3>1, <4>1, FlowCarried DEF Working
    <3> QED
      BY <3>1, <3>2, <3>3
  <2> QED
    BY <2>1, <2>2, <2>3, <2>4, <2>5, <2>6, <2>7 DEF Inbound
<1>7. CASE \E d \in DelayWorkers : Delayed(d)
  <2> PICK d \in DelayWorkers : Delayed(d)
    BY <1>7
  <2>1. PICK c, to, stale : ReadDelayed(d, c, to, stale)
    BY Zenon DEF Delayed, Fire, FireAgain
  <2>2. conv' = conv
    BY DEF Delayed, Fire, FireAgain, rowVars
  <2>3. d # v => job'[v] = job[v]
    BY <1>2, <2>1 DEF ReadDelayed
  <2> QED
    BY <1>3, <2>1, <2>2, <2>3, DelayedFits
<1>8. CASE \E w \in Jobs : Applying(w) \/ Crash(w)
  <2> PICK w \in Jobs : Applying(w) \/ Crash(w)
    BY <1>8
  <2>1. CASE Crash(w)
    <3>1. /\ w # v => job'[v] = job[v]
          /\ job'[w].pc = "load"
      BY <1>2, <2>1 DEF Crash, IdleJob
    <3> QED
      BY <1>1, <1>3, <3>1, FlowCarried DEF Working
  <2>2. CASE Applying(w)
    <3>1. /\ job[w].pc \in Working
          /\ Ends(w) \/ \E state, saved, waiting : ToSave(w, state, saved, waiting)
      BY <2>2, Zenon DEF Applying, RunFails, Run, RunToMenu, RunPastBooking, Save, Working
    <3>2. CASE Ends(w)
      BY <1>2, <1>3, <1>5, <3>2 DEF Ends
    <3>3. CASE \E state, saved, waiting : ToSave(w, state, saved, waiting)
      <4>1. /\ w # v => job'[v] = job[v]
            /\ job'[w].pc = "save"
            /\ job'[w].conv = job[w].conv /\ job'[w].flow = job[w].flow
        BY <1>2, <3>3 DEF ToSave, Job
      <4> QED
        BY <1>1, <1>3, <3>1, <4>1, FlowCarried DEF Working
    <3> QED
      BY <3>1, <3>2, <3>3
  <2> QED
    BY <2>1, <2>2
<1>9. CASE \/ \E d \in Convs : Expire(d)
           \/ SlideWindow
           \/ \E f \in FlowIds : ToggleFlow(f) \/ DeleteFlow(f)
           \/ UNCHANGED vars
  BY <1>3, <1>9 DEF Expire, SlideWindow, ToggleFlow, DeleteFlow, vars
<1> QED
  BY <1>6, <1>7, <1>8, <1>9 DEF Next

\* A job never looks up the node of a conversation in a flow that is not the
\* conversation's own, for any number of jobs, and whatever is switched off,
\* deleted or bound while they run.
THEOREM FlowsAreKept == Spec => []KeepsItsFlow
<1>1. Init => FlowInv
  <2> SUFFICES ASSUME Init, NEW w \in Jobs PROVE FlowFits(w)
    BY InitTypes DEF FlowInv
  <2>1. job[w].pc = "idle"
    BY DEF Init, IdleJob
  <2> QED
    BY <2>1 DEF FlowFits, Working
<1>2. FlowInv => KeepsItsFlow
  BY DEF FlowInv, FlowFits, KeepsItsFlow, Working
<1> QED
  BY <1>1, <1>2, FlowNext, PTL DEF Spec

-------------------------------------------------------------------------------
(* What is stored of the contact *)

\* The fields a job at work has read are those stored now.
ReadNow(w) == job[w].pc \notin {"idle", "load"} => job[w].contactFields = fields

FieldsInv == TypeInv /\ \A w \in Workers : ReadNow(w)

\* A stored field changes to an answer of the run being saved, as a condition on
\* one step.
AnswersOnly ==
  \A f \in Fields : fields[f] # NULL /\ fields'[f] # fields[f] =>
    \E w \in Jobs : /\ job[w].pc = "save" /\ job'[w].pc = "idle"
                    /\ job[w].saved[f] # NULL /\ job[w].saved[f] = fields'[f]

\* With one job at a time, a step of it that stores nothing keeps what it read.
LEMMA FieldsCarried ==
  ASSUME Serial, FieldsInv, NEW w \in Workers, fields' = fields,
         \/ job'[w].pc \in {"idle", "load"}
         \/ job'[w].contactFields = fields
         \/ job[w].pc \notin {"idle", "load"} /\ job'[w].contactFields = job[w].contactFields
  PROVE  (\A v \in Workers : ReadNow(v)') /\ AnswersOnly
BY DEF Serial, FieldsInv, ReadNow, AnswersOnly

LEMMA FieldsNext ==
  ASSUME Serial
  PROVE  FieldsInv /\ [Next]_vars => FieldsInv' /\ AnswersOnly
<1> SUFFICES ASSUME FieldsInv, [Next]_vars
             PROVE  (\A v \in Workers : ReadNow(v)') /\ AnswersOnly
  BY NextTypes DEF FieldsInv
<1>1. /\ job \in [Jobs -> Job] /\ Jobs = Workers
      /\ \A w \in Workers : job[w] \in Job /\ ReadNow(w)
  BY DEF FieldsInv, TypeInv, TypeOK, Jobs, Serial
<1>2. ASSUME NEW w \in Workers, Ends(w) PROVE job'[w].pc = "idle"
  BY <1>1, <1>2 DEF Ends, IdleJob
<1>3. ASSUME NEW w \in Workers, NEW state, NEW saved, NEW waiting,
             ToSave(w, state, saved, waiting)
      PROVE  job'[w].contactFields = job[w].contactFields
  BY <1>1, <1>3 DEF ToSave, Job
<1>4. ASSUME NEW w \in Workers, NEW text, ReadRows(w, text)
      PROVE  fields' = fields /\ job'[w].contactFields = fields
  BY <1>1, <1>4 DEF ReadRows, contactVars, IdleJob
<1>5. ASSUME NEW w \in Workers, Inbound(w)
      PROVE  /\ fields' = fields
             /\ \/ job'[w].pc \in {"idle", "load"}
                \/ job'[w].contactFields = fields
                \/ /\ job[w].pc \notin {"idle", "load"}
                   /\ job'[w].contactFields = job[w].contactFields
  <2>1. CASE (\E text \in Texts : Receive(w, text)) \/ ReceiveAgain(w)
    BY <1>4, <2>1 DEF Receive, ReceiveAgain
  <2>2. CASE RouteByKeyword(w) \/ RouteToRunning(w) \/ RouteToNew(w)
    BY <1>1, <2>2 DEF RouteByKeyword, RouteToRunning, RouteToNew, NotAKeyword,
                      contactVars, Job
  <2>3. CASE RouteNowhere(w) \/ RouteToPrevious(w) \/ BookAgain(w)
    BY <1>2, <2>3 DEF RouteNowhere, RouteToPrevious, BookAgain, contactVars
  <2>4. CASE Open(w)
    <3> DEFINE c == CHOOSE d \in Convs : d \notin Used
               row == [status |-> "ACTIVE", flow |-> job[w].flow,
                       state |-> EmptyState, opener |-> NULL]
    <3>1. /\ job' = [job EXCEPT ![w].pc = "admit", ![w].conv = c, ![w].row = row]
          /\ job[w].pc = "open" /\ fields' = fields
      BY <2>4, Zenon DEF Open, contactVars
    <3> HIDE DEF c, row
    <3> QED
      BY <1>1, <3>1 DEF Job
  <2>5. CASE AdmitTooMany(w) \/ AdmitDuplicate(w) \/ AdmitFinished(w)
    BY <1>2, <2>5 DEF AdmitTooMany, AdmitDuplicate, AdmitFinished, Admit
  <2>6. CASE AdmitToRun(w)
    BY <1>1, <2>6 DEF AdmitToRun, Admit, GoesTo, Job
  <2>7. CASE BookSlot(w)
    <3>1. /\ job[w].pc = "book" /\ fields' = fields
          /\ Ends(w) \/ \E state, saved, waiting : ToSave(w, state, saved, waiting)
      BY <2>7, Zenon DEF BookSlot, contactVars
    <3> QED
      BY <1>2, <1>3, <3>1
  <2> QED
    BY <1>5, <2>1, <2>2, <2>3, <2>4, <2>5, <2>6, <2>7 DEF Inbound
<1>6. CASE \E w \in Workers : Inbound(w)
  BY <1>5, <1>6, FieldsCarried
<1>7. ASSUME NEW w \in Workers, Save(w)
      PROVE  (\A v \in Workers : ReadNow(v)') /\ AnswersOnly
  <2>1. job[w].pc = "save" /\ job'[w].pc = "idle"
    BY <1>2, <1>7 DEF Save
  <2>2. fields' = fields \/ fields' = Merged(job[w])
    BY <1>7 DEF Save
  <2>3. job[w].contactFields = fields
    BY <1>1, <2>1 DEF ReadNow
  <2>4. ASSUME NEW f \in Fields, fields[f] # NULL, fields'[f] # fields[f]
        PROVE  job[w].saved[f] # NULL /\ job[w].saved[f] = fields'[f]
    BY <2>2, <2>3, <2>4 DEF Merged
  <2>5. AnswersOnly
    BY <1>1, <2>1, <2>4 DEF AnswersOnly
  <2> QED
    BY <2>1, <2>5 DEF ReadNow, Serial
<1>8. ASSUME NEW w \in Workers, RunFails(w) \/ Run(w) \/ RunToMenu(w) \/ RunPastBooking(w)
      PROVE  (\A v \in Workers : ReadNow(v)') /\ AnswersOnly
  <2>1. /\ job[w].pc = "run" /\ fields' = fields
        /\ Ends(w) \/ \E state, saved, waiting : ToSave(w, state, saved, waiting)
    BY <1>8, Zenon DEF RunFails, Run, RunToMenu, RunPastBooking, contactVars
  <2> QED
    BY <1>2, <1>3, <2>1, FieldsCarried
<1>9. ASSUME NEW w \in Workers, Crash(w)
      PROVE  (\A v \in Workers : ReadNow(v)') /\ AnswersOnly
  <2>1. job'[w].pc = "load" /\ fields' = fields
    BY <1>1, <1>9 DEF Crash, IdleJob, contactVars
  <2> QED
    BY <2>1, FieldsCarried
<1>10. CASE \E w \in Jobs : Applying(w) \/ Crash(w)
  BY <1>1, <1>7, <1>8, <1>9, <1>10 DEF Applying
<1>11. CASE \/ \E d \in Convs : Expire(d)
            \/ SlideWindow
            \/ \E f \in FlowIds : ToggleFlow(f) \/ DeleteFlow(f)
            \/ UNCHANGED vars
  <2>1. job' = job /\ fields' = fields
    BY <1>11 DEF Expire, SlideWindow, ToggleFlow, DeleteFlow, vars, contactVars
  <2> QED
    BY <1>1, <2>1 DEF ReadNow, AnswersOnly
<1> QED
  BY <1>6, <1>10, <1>11 DEF Next, Serial

\* With one message at a time and no timers, what a contact has answered is never
\* lost or put back: a stored field only changes to the answer the run being
\* persisted has for it, whatever crashes and runs again.
THEOREM FieldsComeFromAnswers ==
  ASSUME Serial
  PROVE  Spec => FieldsOnlyFromAnswers
<1>1. Init => FieldsInv
  <2> SUFFICES ASSUME Init, NEW w \in Workers PROVE ReadNow(w)
    BY InitTypes DEF FieldsInv
  <2>1. job[w].pc = "idle"
    BY DEF Init, IdleJob, Jobs
  <2> QED
    BY <2>1 DEF ReadNow
<1>2. FieldsInv /\ [Next]_vars => FieldsInv'
  BY FieldsNext
<1>3. FieldsInv /\ [Next]_vars => AnswersOnly
  BY FieldsNext
<1>4. [][AnswersOnly]_vars => FieldsOnlyFromAnswers
  BY PTL DEF FieldsOnlyFromAnswers, AnswersOnly
<1> QED
  BY <1>1, <1>2, <1>3, <1>4, PTL DEF Spec

-------------------------------------------------------------------------------
(* Timed pauses *)

\* No walk through a flow goes on for ever without a question (step.ts:152-159).
NoSilentLoops ==
  \A f \in FlowIds : \A state \in FlowState : ~Walk(Flow[f], state, NoEffect).throws

\* What follows a booking asks the lead something before it comes to a timed
\* pause: the timer that pause needs is never armed (process-inbound.ts:590).
NoPauseAfterBooking ==
  \A f \in FlowIds : \A id \in DOMAIN Flow[f].nodes : \A state \in FlowState :
    /\ IsBooking(Flow[f].nodes[id]) /\ state.resume = Flow[f].nodes[id].next
    /\ ~ResumeBooking(Flow[f], state).throws
    => ResumeBooking(Flow[f], state).state.awaiting # "delay"

\* While the row's flow exists, what a job has read of the row, and will write to
\* it, waits for a booking of that flow, if it waits for one.
BookingFits(w) ==
  LET c == job[w].conv IN
  /\ job[w].pc = "book" => job[w].row.state.awaiting = "booking"
  /\ job[w].pc \in {"route", "admit", "run", "book"} /\ c # NULL /\ conv[c].flow \in stored
       => AfterBooking(Flow[conv[c].flow], job[w].row.state)
  /\ job[w].pc = "save" /\ conv[c].flow \in stored
       => AfterBooking(Flow[conv[c].flow], job[w].next)

RowFits(c) == conv[c].flow \in stored => AfterBooking(Flow[conv[c].flow], conv[c].state)

BookingInv ==
  FlowInv /\ (\A c \in Convs : RowFits(c)) /\ (\A w \in Jobs : BookingFits(w))

\* What a step may do to a row: close it or take its flow away, create it, or
\* save a job's state on it.
RowKept(c) ==
  /\ conv'[c].state = conv[c].state
  /\ conv'[c].status = "ACTIVE" => conv[c].status = "ACTIVE"
  /\ conv'[c].flow \in {conv[c].flow, NULL}
RowSaved(c) ==
  \E w \in Jobs : /\ Save(w) /\ job[w].conv = c
                  /\ conv'[c].state = job[w].next /\ conv'[c].flow = conv[c].flow
RowOpened(c) == conv[c].status = "unused" /\ conv'[c].state = EmptyState
RowMoves(c) == RowKept(c) \/ RowOpened(c) \/ RowSaved(c)

LEMMA RowsMove == TypeInv /\ [Next]_vars => \A c \in Convs : RowMoves(c)
<1> SUFFICES ASSUME TypeInv, [Next]_vars, NEW c \in Convs PROVE RowMoves(c)
  OBVIOUS
<1>1. /\ conv \in [Convs -> Row] /\ conv[c] \in Row
      /\ \A w \in Jobs : job[w] \in Job /\ Ready(w, job[w])
      /\ \A w \in Workers : w \in Jobs
  BY DEF TypeInv, TypeOK, JobsReady, Jobs
<1>2. CASE conv' = conv
  BY <1>2 DEF RowMoves, RowKept
<1>3. ASSUME NEW w \in Workers, RouteByKeyword(w) PROVE RowMoves(c)
  BY <1>1, <1>3 DEF RouteByKeyword, RowMoves, RowKept, Row
<1>4. ASSUME NEW w \in Workers, Open(w) PROVE RowMoves(c)
  <2> DEFINE d == CHOOSE e \in Convs : e \notin Used
             row == [status |-> "ACTIVE", flow |-> job[w].flow,
                     state |-> EmptyState, opener |-> NULL]
  <2>1. conv' = [conv EXCEPT ![d] = row]
    BY <1>4, Zenon DEF Open
  <2>2. row.state = EmptyState
    OBVIOUS
  <2>3. d \in Convs /\ conv[d].status = "unused"
    BY <1>4 DEF Open, Used
  <2> HIDE DEF d, row
  <2> QED
    BY <1>1, <2>1, <2>2, <2>3 DEF RowMoves, RowKept, RowOpened
<1>5. ASSUME NEW w \in Workers, NEW status, Admit(w, status),
             status # "ACTIVE" \/ status = conv[job[w].conv].status
      PROVE  RowMoves(c)
  BY <1>1, <1>5 DEF Admit, RowMoves, RowKept, Row
<1>6. ASSUME NEW w \in Workers,
             AdmitTooMany(w) \/ AdmitDuplicate(w) \/ AdmitFinished(w) \/ AdmitToRun(w)
      PROVE  RowMoves(c)
  BY <1>5, <1>6 DEF AdmitTooMany, AdmitDuplicate, AdmitFinished, AdmitToRun
<1>7. ASSUME NEW w \in Jobs, Save(w) PROVE RowMoves(c)
  <2>1. conv' = [conv EXCEPT ![job[w].conv].state = job[w].next,
                   ![job[w].conv].status = StatusOf(job[w].next, job[w].waiting)]
    BY <1>7 DEF Save
  <2>2. CASE c = job[w].conv
    <3>1. conv'[c].state = job[w].next /\ conv'[c].flow = conv[c].flow
      BY <1>1, <2>1, <2>2 DEF Row
    <3> QED
      BY <1>7, <2>2, <3>1 DEF RowMoves, RowSaved
  <2>3. CASE c # job[w].conv
    BY <1>1, <2>1, <2>3 DEF RowMoves, RowKept
  <2> QED
    BY <2>2, <2>3
<1>8. ASSUME NEW f \in FlowIds, DeleteFlow(f) PROVE RowMoves(c)
  BY <1>1, <1>8 DEF DeleteFlow, RowMoves, RowKept, Row
<1>9. CASE \E w \in Workers : Inbound(w)
  BY <1>2, <1>3, <1>4, <1>6, <1>9
     DEF Inbound, Receive, ReceiveAgain, ReadRows, RouteNowhere, RouteToRunning,
         RouteToPrevious, RouteToNew, BookAgain, BookSlot, rowVars
<1>10. CASE \E d \in DelayWorkers : Delayed(d)
  BY <1>2, <1>10 DEF Delayed, Fire, FireAgain, rowVars
<1>11. CASE \E w \in Jobs : Applying(w) \/ Crash(w)
  BY <1>2, <1>7, <1>11
     DEF Applying, Crash, RunFails, Run, RunToMenu, RunPastBooking, rowVars
<1>12. CASE \/ \E d \in Convs : Expire(d)
            \/ SlideWindow
            \/ \E f \in FlowIds : ToggleFlow(f) \/ DeleteFlow(f)
            \/ UNCHANGED vars
  BY <1>2, <1>8, <1>12 DEF Expire, SlideWindow, ToggleFlow, vars, rowVars
<1> QED
  BY <1>9, <1>10, <1>11, <1>12 DEF Next

\* The engine's answer to a job pauses where its flow says.
LEMMA EnginePauses ==
  ASSUME TypeInv, NEW w \in Jobs, job[w].pc = "run",
         AfterBooking(Flow[job[w].flow], job[w].row.state), ~EngineResult(w).throws
  PROVE  Pauses(Flow[job[w].flow], EngineResult(w))
<1>1. /\ IsFlowDefinition(Flow[job[w].flow]) /\ job[w].row.state \in FlowState
      /\ w \notin DelayWorkers => job[w].text \in Texts
  BY FlowType DEF TypeInv, TypeOK, JobsReady, Ready, Job, Row, Jobs
<1> QED
  BY <1>1, ResumeDelayPauses, StartPauses, StepPauses DEF EngineResult

-------------------------------------------------------------------------------
\* What a job knows of bookings when it has not moved, goes on with the row it
\* read, or has none any more.
LEMMA BookingCarried ==
  ASSUME BookingInv, RowsDrift, NEW w \in Jobs,
         \/ job'[w] = job[w]
         \/ /\ job[w].pc \in {"route", "admit", "run", "book"} /\ job[w].conv # NULL
            /\ job'[w].pc \in {"admit", "run", "book"}
            /\ job'[w].pc = "book" => job'[w].row.state.awaiting = "booking"
            /\ job'[w].conv = job[w].conv /\ job'[w].row = job[w].row
         \/ job'[w].pc \in {"idle", "load", "open"}
  PROVE  BookingFits(w)'
<1>1. /\ FlowFits(w) /\ BookingFits(w) /\ Ready(w, job[w]) /\ job[w] \in Job
      /\ NULL \notin stored'
  BY RuntimeAssumption
     DEF BookingInv, FlowInv, TypeInv, TypeOK, JobsReady, RowsDrift, RuntimeAssumption
<1>2. job[w].pc \in {"route", "admit", "run", "book", "save"} /\ job[w].conv # NULL
        => job[w].conv \in Convs /\ conv[job[w].conv].status # "unused"
  BY <1>1 DEF Job, FlowFits, Working
<1>3. job[w].pc = "save" => job[w].conv \in Convs /\ conv[job[w].conv].status # "unused"
  BY <1>1 DEF Ready, FlowFits, Working
<1>4. ASSUME NEW c \in Convs, conv[c].status # "unused", conv'[c].flow \in stored'
      PROVE  conv'[c].flow = conv[c].flow /\ conv[c].flow \in stored
  BY <1>1, <1>4 DEF RowsDrift
<1>5. CASE job'[w] = job[w]
  BY <1>1, <1>2, <1>3, <1>4, <1>5 DEF BookingFits
<1>6. CASE /\ job[w].pc \in {"route", "admit", "run", "book"} /\ job[w].conv # NULL
           /\ job'[w].pc \in {"admit", "run", "book"}
           /\ job'[w].pc = "book" => job'[w].row.state.awaiting = "booking"
           /\ job'[w].conv = job[w].conv /\ job'[w].row = job[w].row
  BY <1>1, <1>2, <1>4, <1>6 DEF BookingFits
<1>7. CASE job'[w].pc \in {"idle", "load", "open"}
  BY <1>7 DEF BookingFits
<1> QED
  BY <1>5, <1>6, <1>7

LEMMA ReadBooking ==
  ASSUME BookingInv, NEW w \in Workers, NEW text, ReadRows(w, text)
  PROVE  BookingFits(w)'
<1> DEFINE row == IF LatestActive = NULL THEN UnusedRow ELSE conv[LatestActive]
           j == [IdleJob EXCEPT
                   !.pc = "route", !.text = text, !.conv = LatestActive, !.row = row,
                   !.contactFields = fields, !.hasSource = source # NULL]
<1>1. job' = [job EXCEPT ![w] = j] /\ conv' = conv /\ stored' = stored
  BY DEF ReadRows, rowVars, flowVars
<1>2. job'[w] = j
  BY <1>1, JobIs DEF BookingInv, FlowInv
<1>3. j.pc = "route" /\ j.conv = LatestActive /\ j.row = row
  BY DEF IdleJob
<1> HIDE DEF j
<1>4. LatestActive # NULL => row = conv[LatestActive] /\ LatestActive \in Convs
  BY LatestType DEF LatestActive
<1> HIDE DEF row
<1>5. LatestActive # NULL => RowFits(LatestActive)
  BY <1>4 DEF BookingInv
<1> QED
  BY <1>1, <1>2, <1>3, <1>4, <1>5 DEF BookingFits, RowFits

LEMMA OpenBooking ==
  ASSUME BookingInv, NEW w \in Workers, Open(w)
  PROVE  BookingFits(w)'
<1> DEFINE c == CHOOSE d \in Convs : d \notin Used
           row == [status |-> "ACTIVE", flow |-> job[w].flow,
                   state |-> EmptyState, opener |-> NULL]
<1>1. job \in [Jobs -> Job] /\ w \in Jobs /\ job[w] \in Job
  BY DEF BookingInv, FlowInv, TypeInv, TypeOK, Jobs
<1>2. job' = [job EXCEPT ![w].pc = "admit", ![w].conv = c, ![w].row = row]
  BY Zenon DEF Open
<1>3. row.state.awaiting = "none"
  BY DEF EmptyState
<1> HIDE DEF c, row
<1>4. job'[w].pc = "admit" /\ job'[w].row = row
  BY <1>1, <1>2 DEF Job
<1> QED
  BY <1>3, <1>4 DEF BookingFits, AfterBooking

LEMMA DelayedBooking ==
  ASSUME BookingInv, NEW d \in DelayWorkers, NEW c \in Convs, NEW to, NEW stale,
         ReadDelayed(d, c, to, stale), conv' = conv, stored' = stored
  PROVE  BookingFits(d)'
<1> DEFINE j == [IdleJob EXCEPT !.pc = "run", !.conv = c, !.row = conv[c], !.to = to,
                                !.flow = conv[c].flow, !.contactFields = fields,
                                !.hasSource = TRUE, !.stale = stale]
<1>1. job' = [job EXCEPT ![d] = IF InPause(c, to) THEN j ELSE IdleJob]
  BY DEF ReadDelayed
<1>2. job'[d] = IF InPause(c, to) THEN j ELSE IdleJob
  BY <1>1 DEF BookingInv, FlowInv, TypeInv, TypeOK, Jobs
<1>3. /\ j.pc = "run" /\ j.conv = c /\ j.row = conv[c]
      /\ IdleJob.pc = "idle"
  BY DEF IdleJob
<1> HIDE DEF j
<1>4. RowFits(c)
  BY DEF BookingInv
<1> QED
  BY <1>2, <1>3, <1>4 DEF BookingFits, RowFits

\* A state handed on to be saved is one the engine returned, for the row's flow.
LEMMA SavesBooking ==
  ASSUME BookingInv, NEW w \in Jobs, NEW state, NEW saved, NEW waiting,
         ToSave(w, state, saved, waiting), conv' = conv, stored' = stored,
         conv[job[w].conv].flow \in stored => AfterBooking(Flow[conv[job[w].conv].flow], state)
  PROVE  BookingFits(w)'
<1>1. job \in [Jobs -> Job] /\ job[w] \in Job
  BY DEF BookingInv, FlowInv, TypeInv, TypeOK
<1>2. job'[w].pc = "save" /\ job'[w].conv = job[w].conv /\ job'[w].next = state
  BY <1>1 DEF ToSave, Job
<1> QED
  BY <1>2 DEF BookingFits

\* The state a job hands on, for each way it comes by it.
LEMMA RunBooking ==
  ASSUME BookingInv, NEW w \in Jobs,
         \/ BookSlot(w) \/ BookAgain(w) \/ RunFails(w) \/ Run(w)
         \/ RunToMenu(w) \/ RunPastBooking(w)
  PROVE  BookingFits(w)'
<1>1. /\ job \in [Jobs -> Job] /\ job[w] \in Job /\ BookingFits(w) /\ FlowFits(w)
      /\ Ready(w, job[w]) /\ TypeInv
      /\ conv' = conv /\ stored' = stored /\ job[w].pc \in {"run", "book"}
  BY DEF BookingInv, FlowInv, TypeInv, TypeOK, JobsReady, BookSlot, BookAgain, RunFails, Run,
         RunToMenu, RunPastBooking, rowVars, flowVars
<1>2. job[w].conv \in Convs /\ job[w].flow \in FlowIds /\ job[w].row.state \in FlowState
  BY <1>1 DEF Ready, Job, Row
<1>3. IsFlowDefinition(Flow[job[w].flow]) /\ job[w].conv # NULL
  BY <1>2, FlowType, RuntimeAssumption DEF RuntimeAssumption
<1>4. conv[job[w].conv].flow \in stored => conv[job[w].conv].flow = job[w].flow
  BY <1>1 DEF FlowFits, Working
<1>5. conv[job[w].conv].flow \in stored => AfterBooking(Flow[job[w].flow], job[w].row.state)
  BY <1>1, <1>3, <1>4 DEF BookingFits
<1>6. ASSUME Ends(w) PROVE BookingFits(w)'
  <2>1. job'[w].pc = "idle"
    BY <1>1, <1>6 DEF Ends, IdleJob
  <2> QED
    BY <2>1 DEF BookingFits
<1>7. ASSUME NEW state, NEW saved, NEW waiting, ToSave(w, state, saved, waiting),
             conv[job[w].conv].flow \in stored => AfterBooking(Flow[job[w].flow], state)
      PROVE  BookingFits(w)'
  BY <1>1, <1>4, <1>7, SavesBooking
<1>8. ASSUME job[w].pc = "run", ~EngineResult(w).throws, conv[job[w].conv].flow \in stored
      PROVE  AfterBooking(Flow[job[w].flow], EngineResult(w).state)
  BY <1>1, <1>5, <1>8, EnginePauses DEF Pauses
<1>9. ASSUME NEW state \in FlowState, ~ResumeBooking(Flow[job[w].flow], state).throws
      PROVE  AfterBooking(Flow[job[w].flow], ResumeBooking(Flow[job[w].flow], state).state)
  BY <1>3, <1>9, ResumeBookingPauses DEF Pauses
<1>10. CASE BookAgain(w) \/ RunFails(w)
  BY <1>6, <1>10 DEF BookAgain, RunFails
<1>11. CASE Run(w)
  <2>1. /\ job[w].pc = "run" /\ ~EngineResult(w).throws
        /\ ToSave(w, EngineResult(w).state, SavedBy(EngineResult(w).actions),
                  EngineResult(w).awaitingInput)
    BY <1>11 DEF Run
  <2> QED
    BY <1>7, <1>8, <2>1
<1>12. CASE RunToMenu(w)
  <2> DEFINE menu == [EngineResult(w).state EXCEPT !.offered = OFFER_COUNT]
  <2>1. /\ job[w].pc = "run" /\ ~EngineResult(w).throws
        /\ ToSave(w, menu, SavedBy(EngineResult(w).actions), EngineResult(w).awaitingInput)
    BY <1>12 DEF RunToMenu
  <2>2. EngineResult(w).state \in FlowState
    BY <1>1, <2>1, EngineResultType DEF IsResult
  <2>3. menu.awaiting = EngineResult(w).state.awaiting /\ menu.resume = EngineResult(w).state.resume
    BY <2>2 DEF FlowState
  <2> HIDE DEF menu
  <2>4. conv[job[w].conv].flow \in stored => AfterBooking(Flow[job[w].flow], menu)
    BY <1>8, <2>1, <2>3 DEF AfterBooking
  <2> QED
    BY <1>7, <2>1, <2>4
<1>13. CASE RunPastBooking(w)
  <2> DEFINE resumed == ResumeBooking(Flow[job[w].flow], EngineResult(w).state)
  <2>1. /\ job[w].pc = "run" /\ ~EngineResult(w).throws
        /\ IF resumed.throws THEN Ends(w)
           ELSE ToSave(w, resumed.state, SavedBy(EngineResult(w).actions),
                       EngineResult(w).awaitingInput)
    BY <1>13 DEF RunPastBooking
  <2>2. EngineResult(w).state \in FlowState
    BY <1>1, <2>1, EngineResultType DEF IsResult
  <2> QED
    BY <1>6, <1>7, <1>9, <2>1, <2>2
<1>14. CASE BookSlot(w)
  <2> DEFINE resumed == ResumeBooking(Flow[job[w].flow], job[w].row.state)
  <2>1. IF resumed.throws THEN Ends(w)
        ELSE ToSave(w, resumed.state, SavedBy(resumed.actions), resumed.awaitingInput)
    BY <1>14 DEF BookSlot
  <2> QED
    BY <1>2, <1>6, <1>7, <1>9, <2>1
<1> QED
  BY <1>10, <1>11, <1>12, <1>13, <1>14

LEMMA BookingNext == BookingInv /\ [Next]_vars => BookingInv'
<1> SUFFICES ASSUME BookingInv, [Next]_vars
             PROVE  (\A c \in Convs : RowFits(c)') /\ (\A v \in Jobs : BookingFits(v)')
  BY FlowNext DEF BookingInv
<1>1. RowsDrift /\ TypeInv /\ \A c \in Convs : RowMoves(c)
  BY NextDrifts, RowsMove DEF BookingInv, FlowInv
<1>2. job \in [Jobs -> Job] /\ \A w \in Workers \cup DelayWorkers : w \in Jobs
  BY DEF BookingInv, FlowInv, TypeInv, TypeOK, Jobs
<1>3. ASSUME NEW c \in Convs PROVE RowFits(c)'
  <2>1. NULL \notin stored' /\ stored' \subseteq stored
    BY <1>1, RuntimeAssumption DEF RowsDrift, TypeInv, TypeOK, RuntimeAssumption
  <2>2. CASE RowKept(c)
    BY <2>1, <2>2 DEF RowKept, RowFits, BookingInv
  <2>3. CASE RowOpened(c)
    BY <2>3 DEF RowOpened, RowFits, AfterBooking, EmptyState
  <2>4. CASE RowSaved(c)
    <3>1. PICK w \in Jobs : /\ Save(w) /\ job[w].conv = c
                            /\ conv'[c].state = job[w].next /\ conv'[c].flow = conv[c].flow
      BY <2>4 DEF RowSaved
    <3>2. job[w].pc = "save" /\ BookingFits(w)
      BY <3>1 DEF Save, BookingInv
    <3> QED
      BY <2>1, <3>1, <3>2 DEF BookingFits, RowFits
  <2> QED
    BY <1>1, <2>2, <2>3, <2>4 DEF RowMoves
<1> SUFFICES ASSUME NEW v \in Jobs PROVE BookingFits(v)'
  BY <1>3
<1>4. CASE job'[v] = job[v]
  BY <1>1, <1>4, BookingCarried
<1>5. ASSUME NEW w, NEW j, job' = [job EXCEPT ![w] = j], w # v PROVE job'[v] = job[v]
  BY <1>2, <1>5
<1>6. ASSUME NEW w \in Jobs, Ends(w) PROVE BookingFits(v)'
  <2>1. job' = [job EXCEPT ![w] = IdleJob]
    BY <1>6 DEF Ends
  <2>2. v = w => job'[v].pc = "idle"
    BY <1>2, <2>1 DEF IdleJob
  <2> QED
    BY <1>1, <1>4, <1>5, <2>1, <2>2, BookingCarried
<1>7. CASE \E w \in Workers : Inbound(w)
  <2> PICK w \in Workers : Inbound(w)
    BY <1>7
  <2>1. CASE (\E text \in Texts : Receive(w, text)) \/ ReceiveAgain(w)
    <3>1. PICK text : ReadRows(w, text)
      BY <2>1 DEF Receive, ReceiveAgain
    <3>2. w # v => job'[v] = job[v]
      BY <1>2, <3>1 DEF ReadRows
    <3> QED
      BY <1>4, <3>1, <3>2, ReadBooking
  <2>2. CASE RouteByKeyword(w) \/ RouteToNew(w)
    <3>1. /\ w # v => job'[v] = job[v]
          /\ job'[w].pc = "open"
      BY <1>2, <2>2 DEF RouteByKeyword, RouteToNew, Job
    <3> QED
      BY <1>1, <1>4, <3>1, BookingCarried
  <2>3. CASE RouteToRunning(w)
    <3>1. /\ w # v => job'[v] = job[v]
          /\ job[w].pc = "route" /\ job[w].conv # NULL /\ job'[w].pc = "admit"
          /\ job'[w].conv = job[w].conv /\ job'[w].row = job[w].row
      BY <1>2, <2>3 DEF RouteToRunning, NotAKeyword, Job
    <3> QED
      BY <1>1, <1>4, <3>1, BookingCarried
  <2>4. CASE Open(w)
    <3>1. w # v => job'[v] = job[v]
      BY <1>2, <2>4 DEF Open
    <3> QED
      BY <1>4, <2>4, <3>1, OpenBooking
  <2>5. CASE AdmitToRun(w)
    <3>1. /\ w # v => job'[v] = job[v]
          /\ job[w].pc = "admit" /\ job'[w].pc \in {"run", "book"}
          /\ job'[w].pc = "book" => job[w].row.state.awaiting = "booking"
          /\ job'[w].conv = job[w].conv /\ job'[w].row = job[w].row
      BY <1>2, <2>5 DEF AdmitToRun, GoesTo, Job
    <3>2. job[w].conv # NULL
      BY <1>1, <3>1, RuntimeAssumption DEF TypeInv, JobsReady, Ready, Jobs, RuntimeAssumption
    <3> QED
      BY <1>1, <1>2, <1>4, <3>1, <3>2, BookingCarried
  <2>6. CASE \/ RouteNowhere(w) \/ RouteToPrevious(w)
             \/ AdmitTooMany(w) \/ AdmitDuplicate(w) \/ AdmitFinished(w)
    <3>1. Ends(w)
      BY <2>6 DEF RouteNowhere, RouteToPrevious, AdmitTooMany, AdmitDuplicate, AdmitFinished
    <3> QED
      BY <1>2, <1>6, <3>1
  <2>7. CASE BookAgain(w) \/ BookSlot(w)
    <3>1. Ends(w) \/ \E state, saved, waiting : ToSave(w, state, saved, waiting)
      BY <2>7, Zenon DEF BookAgain, BookSlot
    <3>2. w # v => job'[v] = job[v]
      BY <1>2, <3>1 DEF Ends, ToSave
    <3> QED
      BY <1>2, <1>4, <2>7, <3>2, RunBooking
  <2> QED
    BY <2>1, <2>2, <2>3, <2>4, <2>5, <2>6, <2>7 DEF Inbound
<1>8. CASE \E d \in DelayWorkers : Delayed(d)
  <2> PICK d \in DelayWorkers : Delayed(d)
    BY <1>8
  <2>1. PICK c, to, stale : c \in Convs /\ ReadDelayed(d, c, to, stale)
    <3>1. CASE \E c \in Convs, to \in Target : Fire(d, c, to)
      BY <3>1 DEF Fire
    <3>2. CASE FireAgain(d)
      BY <1>1, <1>2, <3>2 DEF FireAgain, TypeInv, JobsReady, Ready
    <3> QED
      BY <3>1, <3>2 DEF Delayed
  <2>2. conv' = conv /\ stored' = stored
    BY DEF Delayed, Fire, FireAgain, rowVars, flowVars
  <2>3. d # v => job'[v] = job[v]
    BY <1>2, <2>1 DEF ReadDelayed
  <2> QED
    BY <1>4, <2>1, <2>2, <2>3, DelayedBooking
<1>9. CASE \E w \in Jobs : Applying(w) \/ Crash(w)
  <2> PICK w \in Jobs : Applying(w) \/ Crash(w)
    BY <1>9
  <2>1. CASE Crash(w)
    <3>1. /\ w # v => job'[v] = job[v]
          /\ job'[w].pc = "load"
      BY <1>2, <2>1 DEF Crash, IdleJob
    <3> QED
      BY <1>1, <1>4, <3>1, BookingCarried
  <2>2. CASE Save(w)
    BY <1>6, <2>2 DEF Save
  <2>3. CASE RunFails(w) \/ Run(w) \/ RunToMenu(w) \/ RunPastBooking(w)
    <3>1. Ends(w) \/ \E state, saved, waiting : ToSave(w, state, saved, waiting)
      BY <2>3, Zenon DEF RunFails, Run, RunToMenu, RunPastBooking
    <3>2. w # v => job'[v] = job[v]
      BY <1>2, <3>1 DEF Ends, ToSave
    <3> QED
      BY <1>4, <2>3, <3>2, RunBooking
  <2> QED
    BY <2>1, <2>2, <2>3 DEF Applying
<1>10. CASE \/ \E d \in Convs : Expire(d)
           \/ SlideWindow
           \/ \E f \in FlowIds : ToggleFlow(f) \/ DeleteFlow(f)
  BY <1>4, <1>10 DEF Expire, SlideWindow, ToggleFlow, DeleteFlow
<1>11. CASE UNCHANGED vars
  BY <1>4, <1>11 DEF vars
<1> QED
  BY <1>7, <1>8, <1>9, <1>10, <1>11 DEF Next

-------------------------------------------------------------------------------
\* The timer of a pause of row c towards node "to" is pending, or the delay job
\* it has started is under way.
Timed(c, to) ==
  \/ timers[<<c, to>>] > 0
  \/ \E d \in DelayWorkers : job[d].pc # "idle" /\ job[d].conv = c /\ job[d].to = to

Paused(c) == /\ conv[c].status = "ACTIVE" /\ conv[c].flow \in stored
             /\ conv[c].state.awaiting = "delay"

\* A pause that is about to be saved has its timer pending.
SaveTimed(w) ==
  /\ job[w].pc = "save" /\ conv[job[w].conv].flow \in stored /\ job[w].next.awaiting = "delay"
  => timers[<<job[w].conv, job[w].next.resume>>] > 0

RowTimed(c) == Paused(c) => Timed(c, conv[c].state.resume)

TimerInv ==
  /\ BookingInv
  /\ \A c \in Convs : RowTimed(c)
  /\ \A w \in Jobs : SaveTimed(w)

LEMMA TimerTypes ==
  ASSUME TimerInv
  PROVE  /\ TypeInv /\ conv \in [Convs -> Row] /\ job \in [Jobs -> Job]
         /\ timers \in [Convs \X Target -> Nat]
         /\ \A c \in Convs : conv[c] \in Row /\ conv[c].state.resume \in Target
         /\ \A w \in Jobs : /\ job[w] \in Job /\ job[w].next.resume \in Target
                            /\ Ready(w, job[w]) /\ FlowFits(w) /\ BookingFits(w)
         /\ \A w \in Workers \cup DelayWorkers : w \in Jobs
         /\ stored \subseteq FlowIds /\ NULL \notin stored
BY RuntimeAssumption
   DEF TimerInv, BookingInv, FlowInv, TypeInv, TypeOK, JobsReady, Jobs, Job, Row, FlowState,
       RuntimeAssumption

\* A row is paused after a step as it was before, unless a job has saved it.
LEMMA PausedBefore ==
  ASSUME TimerInv, [Next]_vars, NEW c \in Convs, Paused(c)'
  PROVE  \/ Paused(c) /\ conv'[c].state = conv[c].state
         \/ RowSaved(c)
<1>1. RowMoves(c) /\ RowsDrift /\ NULL \notin stored /\ stored' \subseteq stored
  BY TimerTypes, RowsMove, NextDrifts DEF RowsDrift
<1>2. conv'[c].status = "ACTIVE" /\ conv'[c].flow \in stored' /\ conv'[c].state.awaiting = "delay"
  BY DEF Paused
<1>3. CASE RowKept(c)
  BY <1>1, <1>2, <1>3 DEF RowKept, Paused
<1>4. CASE RowOpened(c)
  BY <1>2, <1>4 DEF RowOpened, EmptyState
<1> QED
  BY <1>1, <1>3, <1>4 DEF RowMoves

\* A step that takes no timer away and leaves the delay jobs their pauses.
LEMMA TimedCarried ==
  ASSUME NEW c, NEW to, Timed(c, to),
         timers'[<<c, to>>] \in Nat, timers[<<c, to>>] \in Nat,
         timers'[<<c, to>>] >= timers[<<c, to>>],
         \A d \in DelayWorkers : job[d].pc # "idle" /\ job[d].conv = c =>
           job'[d].pc # "idle" /\ job'[d].conv = c /\ job'[d].to = job[d].to
  PROVE  Timed(c, to)'
<1>1. CASE timers[<<c, to>>] > 0
  BY <1>1 DEF Timed
<1>2. CASE \E d \in DelayWorkers : job[d].pc # "idle" /\ job[d].conv = c /\ job[d].to = to
  BY <1>2 DEF Timed
<1> QED
  BY <1>1, <1>2 DEF Timed

\* A job that has not moved has its timer still.
LEMMA SaveCarried ==
  ASSUME TimerInv, RowsDrift, NEW w \in Jobs, job'[w] = job[w],
         timers' \in [Convs \X Target -> Nat],
         job[w].pc = "save" =>
           timers'[<<job[w].conv, job[w].next.resume>>]
             >= timers[<<job[w].conv, job[w].next.resume>>]
  PROVE  SaveTimed(w)'
<1>1. ASSUME job[w].pc = "save", conv'[job[w].conv].flow \in stored',
             job[w].next.awaiting = "delay"
      PROVE  timers'[<<job[w].conv, job[w].next.resume>>] > 0
  <2>1. job[w].conv \in Convs /\ job[w].next.resume \in Target /\ NULL \notin stored
        /\ conv[job[w].conv].status # "unused"
    BY <1>1, TimerTypes DEF Ready, FlowFits, Working
  <2>2. conv[job[w].conv].flow \in stored
    BY <1>1, <2>1 DEF RowsDrift
  <2>3. timers[<<job[w].conv, job[w].next.resume>>] > 0
    BY <1>1, <2>2 DEF TimerInv, SaveTimed
  <2>4. timers[<<job[w].conv, job[w].next.resume>>] \in Nat
        /\ timers'[<<job[w].conv, job[w].next.resume>>] \in Nat
    BY <2>1, TimerTypes
  <2> QED
    BY <1>1, <2>3, <2>4
<1> QED
  BY <1>1 DEF SaveTimed

\* The rows stay timed in a step that saves none and keeps what times them.
LEMMA RowsTimed ==
  ASSUME TimerInv, [Next]_vars, NEW c \in Convs,
         \A v \in Jobs : job[v].pc = "save" /\ job[v].conv = c => job'[v].pc # "idle",
         \A to \in Target : Paused(c) /\ to = conv[c].state.resume /\ Timed(c, to) => Timed(c, to)'
  PROVE  RowTimed(c)'
<1> SUFFICES ASSUME Paused(c)', NEW to, to = conv'[c].state.resume
             PROVE  Timed(c, to)'
  BY DEF RowTimed, Timed
<1>1. ~RowSaved(c)
  <2> SUFFICES ASSUME NEW v \in Jobs, Save(v), job[v].conv = c PROVE FALSE
    BY DEF RowSaved
  <2>1. job' = [job EXCEPT ![v] = IdleJob] /\ job[v].pc = "save"
    BY DEF Save, Ends
  <2>2. job'[v].pc = "idle"
    BY <2>1, TimerTypes DEF IdleJob
  <2> QED
    BY <2>1, <2>2
<1>2. Paused(c) /\ conv'[c].state = conv[c].state
  BY <1>1, PausedBefore
<1>3. Timed(c, to) /\ to \in Target
  BY <1>2, TimerTypes DEF TimerInv, RowTimed
<1> QED
  BY <1>2, <1>3

\* What a step may do to a job without taking a pause's timer away.
JobKeeps(v) ==
  \/ job'[v] = job[v]
  \/ /\ job[v].pc = "save" => job'[v].pc # "idle"
     /\ v \in DelayWorkers /\ job[v].pc # "idle" =>
          job'[v].pc # "idle" /\ job'[v].conv = job[v].conv /\ job'[v].to = job[v].to
     /\ SaveTimed(v)'

LEMMA JobsKeep ==
  ASSUME TimerInv, [Next]_vars, timers' \in [Convs \X Target -> Nat],
         \A c \in Convs, to \in Target : timers'[<<c, to>>] >= timers[<<c, to>>],
         \A v \in Jobs : JobKeeps(v)
  PROVE  (\A c \in Convs : RowTimed(c)') /\ (\A v \in Jobs : SaveTimed(v)')
<1>1. ASSUME NEW c \in Convs PROVE RowTimed(c)'
  <2>1. \A v \in Jobs : job[v].pc = "save" /\ job[v].conv = c => job'[v].pc # "idle"
    BY DEF JobKeeps
  <2>2. ASSUME NEW to \in Target, Timed(c, to) PROVE Timed(c, to)'
    <3>1. timers'[<<c, to>>] \in Nat /\ timers[<<c, to>>] \in Nat
      BY TimerTypes
    <3>2. \A d \in DelayWorkers : job[d].pc # "idle" /\ job[d].conv = c =>
             job'[d].pc # "idle" /\ job'[d].conv = c /\ job'[d].to = job[d].to
      BY TimerTypes DEF JobKeeps
    <3> QED
      BY <2>2, <3>1, <3>2, TimedCarried
  <2> QED
    BY <2>1, <2>2, RowsTimed
<1>2. ASSUME NEW v \in Jobs PROVE SaveTimed(v)'
  <2>1. CASE job'[v] = job[v]
    <3>1. RowsDrift
      BY TimerTypes, NextDrifts
    <3>2. job[v].pc = "save" => timers'[<<job[v].conv, job[v].next.resume>>]
                                  >= timers[<<job[v].conv, job[v].next.resume>>]
      BY TimerTypes DEF Ready
    <3> QED
      BY <2>1, <3>1, <3>2, SaveCarried
  <2> QED
    BY <2>1 DEF JobKeeps
<1> QED
  BY <1>1, <1>2

LEMMA RunTimed ==
  ASSUME TimerInv, NEW w \in Jobs, Run(w)
  PROVE  /\ timers' \in [Convs \X Target -> Nat]
         /\ \A c \in Convs, to \in Target : timers'[<<c, to>>] >= timers[<<c, to>>]
         /\ job' = [job EXCEPT ![w].pc = "save", ![w].next = EngineResult(w).state,
                               ![w].saved = SavedBy(EngineResult(w).actions),
                               ![w].waiting = EngineResult(w).awaitingInput]
         /\ SaveTimed(w)'
<1> DEFINE acts == EngineResult(w).actions
           armed(p) == p[1] = job[w].conv /\ \E n \in DOMAIN acts :
                          acts[n].kind = "schedule_delay" /\ acts[n].node = p[2]
<1>1. /\ job[w].pc = "run" /\ ~EngineResult(w).throws /\ Arm(job[w].conv, acts)
      /\ ToSave(w, EngineResult(w).state, SavedBy(acts), EngineResult(w).awaitingInput)
      /\ conv' = conv /\ stored' = stored
  BY DEF Run, rowVars, flowVars
<1>2. timers' = [p \in Convs \X Target |-> IF armed(p) THEN timers[p] + 1 ELSE timers[p]]
  BY <1>1, TimerTypes DEF Arm
<1>3. /\ timers' \in [Convs \X Target -> Nat]
      /\ \A c \in Convs, to \in Target : timers'[<<c, to>>] >= timers[<<c, to>>]
  BY <1>2, TimerTypes
<1>4. /\ job'[w].pc = "save" /\ job'[w].conv = job[w].conv
      /\ job'[w].next = EngineResult(w).state
      /\ job[w].conv \in Convs /\ NULL # job[w].conv
  BY <1>1, TimerTypes, RuntimeAssumption DEF ToSave, Job, Ready, RuntimeAssumption
<1>5. ASSUME conv[job[w].conv].flow \in stored, EngineResult(w).state.awaiting = "delay"
      PROVE  timers'[<<job[w].conv, EngineResult(w).state.resume>>] > 0
  <2>1. Flow[conv[job[w].conv].flow] = Flow[job[w].flow]
    BY <1>1, <1>5, TimerTypes DEF FlowFits, Working
  <2>2. AfterBooking(Flow[job[w].flow], job[w].row.state)
    BY <1>1, <1>4, <1>5, <2>1, TimerTypes DEF BookingFits
  <2>3. Pauses(Flow[job[w].flow], EngineResult(w))
    BY <1>1, <2>2, TimerTypes, EnginePauses
  <2>4. armed(<<job[w].conv, EngineResult(w).state.resume>>)
    BY <1>5, <2>3 DEF Pauses, Said
  <2>5. EngineResult(w).state.resume \in Target
    BY <1>1, TimerTypes, EngineResultType DEF IsResult, FlowState
  <2>6. timers[<<job[w].conv, EngineResult(w).state.resume>>] \in Nat
    BY <1>4, <2>5, TimerTypes
  <2> HIDE DEF armed
  <2> QED
    BY <1>2, <1>4, <2>4, <2>5, <2>6
<1>6. SaveTimed(w)'
  BY <1>1, <1>4, <1>5 DEF SaveTimed
<1> QED
  BY <1>1, <1>3, <1>6 DEF ToSave

\* After a booking the job has no pause to save.
LEMMA BookedTimed ==
  ASSUME NoPauseAfterBooking, TimerInv, NEW w \in Jobs,
         NEW state \in FlowState, NEW saved, NEW waiting,
         AfterBooking(Flow[job[w].flow], state), state.awaiting = "booking",
         job[w].flow \in FlowIds,
         ~ResumeBooking(Flow[job[w].flow], state).throws,
         ToSave(w, ResumeBooking(Flow[job[w].flow], state).state, saved, waiting)
  PROVE  SaveTimed(w)'
<1>1. PICK id \in DOMAIN Flow[job[w].flow].nodes :
        /\ IsBooking(Flow[job[w].flow].nodes[id])
        /\ state.resume = Flow[job[w].flow].nodes[id].next
  BY DEF AfterBooking
<1>2. ResumeBooking(Flow[job[w].flow], state).state.awaiting # "delay"
  BY <1>1 DEF NoPauseAfterBooking
<1>3. job'[w].next = ResumeBooking(Flow[job[w].flow], state).state
  BY TimerTypes DEF ToSave, Job
<1> QED
  BY <1>2, <1>3 DEF SaveTimed

\* No call of the engine throws.
LEMMA NothingThrows ==
  ASSUME NoSilentLoops, NEW f \in FlowIds, NEW state \in FlowState
  PROVE  /\ ~ResumeDelay(Flow[f], state).throws
         /\ ~ResumeBooking(Flow[f], state).throws
<1>1. Resumed(state) \in FlowState /\ [Resumed(state) EXCEPT !.offered = 0] \in FlowState
  BY ResumedType, FlowType DEF FlowState, Resumed
<1>2. ~Walk(Flow[f], Resumed(state), NoEffect).throws
  BY <1>1 DEF NoSilentLoops
<1>3. ~Walk(Flow[f], [Resumed(state) EXCEPT !.offered = 0], NoEffect).throws
  BY <1>1 DEF NoSilentLoops
<1> QED
  BY <1>2, <1>3 DEF ResumeDelay, ResumeBooking, Quietly

\* The steps of one job that arm nothing.
LEMMA OneJobKeeps ==
  ASSUME TimerInv, [Next]_vars, timers' = timers, NEW w \in Jobs, JobKeeps(w),
         \A v \in Jobs : v # w => job'[v] = job[v]
  PROVE  (\A c \in Convs : RowTimed(c)') /\ (\A v \in Jobs : SaveTimed(v)')
<1>1. \A v \in Jobs : JobKeeps(v)
  BY DEF JobKeeps
<1>2. timers' \in [Convs \X Target -> Nat]
  BY TimerTypes
<1>3. \A c \in Convs, to \in Target : timers'[<<c, to>>] >= timers[<<c, to>>]
  BY TimerTypes
<1> QED
  BY <1>1, <1>2, <1>3, JobsKeep

LEMMA InboundTimed ==
  ASSUME NoPauseAfterBooking, TimerInv, [Next]_vars, NEW w \in Workers, Inbound(w)
  PROVE  (\A c \in Convs : RowTimed(c)') /\ (\A v \in Jobs : SaveTimed(v)')
<1>1. w \in Jobs /\ w \notin DelayWorkers /\ job \in [Jobs -> Job] /\ job[w] \in Job
  BY TimerTypes, RuntimeAssumption DEF RuntimeAssumption
<1> SUFFICES timers' = timers /\ JobKeeps(w) /\ \A v \in Jobs : v # w => job'[v] = job[v]
  BY <1>1, OneJobKeeps
<1>2. ASSUME NEW j, job' = [job EXCEPT ![w] = j]
      PROVE  job'[w] = j /\ \A v \in Jobs : v # w => job'[v] = job[v]
  BY <1>1, <1>2
<1>3. ASSUME job[w].pc # "save", job'[w].pc # "save" PROVE JobKeeps(w)
  BY <1>1, <1>3 DEF JobKeeps, SaveTimed
<1>4. CASE (\E text \in Texts : Receive(w, text)) \/ ReceiveAgain(w)
  <2>1. PICK text : ReadRows(w, text) /\ job[w].pc # "save"
    BY <1>4 DEF Receive, ReceiveAgain
  <2>2. timers' = timers /\ \A v \in Jobs : v # w => job'[v] = job[v]
    BY <1>2, <2>1 DEF ReadRows
  <2>3. job'[w].pc = "route"
    BY <1>1, <2>1 DEF ReadRows, IdleJob
  <2> QED
    BY <1>3, <2>1, <2>2, <2>3
<1>5. CASE RouteByKeyword(w) \/ RouteToNew(w) \/ RouteToRunning(w)
  <2>1. /\ timers' = timers /\ job[w].pc = "route" /\ job'[w].pc \in {"open", "admit"}
        /\ \A v \in Jobs : v # w => job'[v] = job[v]
    BY <1>1, <1>5 DEF RouteByKeyword, RouteToNew, RouteToRunning, NotAKeyword, Job
  <2> QED
    BY <1>3, <2>1
<1>6. CASE Open(w)
  <2>1. timers' = timers /\ job[w].pc = "open"
    BY <1>6 DEF Open
  <2>2. PICK c, row : job' = [job EXCEPT ![w].pc = "admit", ![w].conv = c, ![w].row = row]
    BY <1>6, Zenon DEF Open
  <2>3. job'[w].pc = "admit" /\ \A v \in Jobs : v # w => job'[v] = job[v]
    BY <1>1, <2>2 DEF Job
  <2> QED
    BY <1>3, <2>1, <2>3
<1>7. CASE AdmitToRun(w)
  <2>1. /\ timers' = timers /\ job[w].pc = "admit" /\ job'[w].pc \in {"run", "book"}
        /\ \A v \in Jobs : v # w => job'[v] = job[v]
    BY <1>1, <1>7 DEF AdmitToRun, Admit, GoesTo, Job
  <2> QED
    BY <1>3, <2>1
<1>8. CASE \/ RouteNowhere(w) \/ RouteToPrevious(w)
           \/ AdmitTooMany(w) \/ AdmitDuplicate(w) \/ AdmitFinished(w) \/ BookAgain(w)
  <2>1. timers' = timers /\ Ends(w) /\ job[w].pc # "save"
    BY <1>8 DEF RouteNowhere, RouteToPrevious, AdmitTooMany, AdmitDuplicate, AdmitFinished,
         Admit, BookAgain, NotAKeyword
  <2>2. job'[w].pc = "idle" /\ \A v \in Jobs : v # w => job'[v] = job[v]
    BY <1>2, <2>1 DEF Ends, IdleJob
  <2> QED
    BY <1>3, <2>1, <2>2
<1>9. CASE BookSlot(w)
  <2> DEFINE state == job[w].row.state
             resumed == ResumeBooking(Flow[job[w].flow], state)
  <2>1. /\ timers' = timers /\ job[w].pc = "book" /\ conv' = conv /\ stored' = stored
        /\ IF resumed.throws THEN Ends(w)
           ELSE ToSave(w, resumed.state, SavedBy(resumed.actions), resumed.awaitingInput)
    BY <1>9 DEF BookSlot, rowVars, flowVars
  <2>2. CASE resumed.throws
    <3>1. job'[w].pc = "idle" /\ \A v \in Jobs : v # w => job'[v] = job[v]
      BY <1>2, <2>1, <2>2 DEF Ends, IdleJob
    <3> QED
      BY <1>3, <2>1, <3>1
  <2>3. CASE ~resumed.throws
    <3>1. ToSave(w, resumed.state, SavedBy(resumed.actions), resumed.awaitingInput)
      BY <2>1, <2>3
    <3>2. \A v \in Jobs : v # w => job'[v] = job[v]
      BY <1>1, <3>1 DEF ToSave
    <3>3. /\ state \in FlowState /\ state.awaiting = "booking" /\ job[w].flow \in FlowIds
          /\ job[w].conv \in Convs /\ job[w].conv # NULL
      BY <1>1, <2>1, TimerTypes, RuntimeAssumption
         DEF BookingFits, Job, Row, Ready, RuntimeAssumption
    <3>4. job'[w].pc = "save" /\ job'[w].conv = job[w].conv
      BY <1>1, <3>1 DEF ToSave, Job
    <3>5. SaveTimed(w)'
      <4>1. CASE conv[job[w].conv].flow \in stored
        <5>1. AfterBooking(Flow[job[w].flow], state)
          BY <1>1, <2>1, <3>3, <4>1, TimerTypes DEF BookingFits, FlowFits, Working
        <5> QED
          BY <1>1, <2>3, <3>1, <3>3, <5>1, BookedTimed
      <4>2. CASE conv[job[w].conv].flow \notin stored
        BY <2>1, <3>4, <4>2 DEF SaveTimed
      <4> QED
        BY <4>1, <4>2
    <3> QED
      BY <1>1, <2>1, <3>2, <3>5 DEF JobKeeps
  <2> QED
    BY <2>2, <2>3
<1> QED
  BY <1>4, <1>5, <1>6, <1>7, <1>8, <1>9 DEF Inbound

LEMMA ApplyingTimed ==
  ASSUME NoSilentLoops, NoPauseAfterBooking, TimerInv, [Next]_vars, NEW w \in Jobs,
         RunFails(w) \/ Run(w) \/ RunToMenu(w) \/ RunPastBooking(w)
  PROVE  (\A c \in Convs : RowTimed(c)') /\ (\A v \in Jobs : SaveTimed(v)')
<1>1. /\ job \in [Jobs -> Job] /\ job[w] \in Job /\ job[w].pc = "run" /\ TypeInv
      /\ conv' = conv /\ stored' = stored /\ job[w].flow \in FlowIds
      /\ job[w].row.state \in FlowState /\ job[w].conv \in Convs /\ job[w].conv # NULL
  BY TimerTypes, RuntimeAssumption
     DEF RunFails, Run, RunToMenu, RunPastBooking, rowVars, flowVars, Ready, Job, Row,
         RuntimeAssumption
<1>2. CASE RunFails(w)
  <2>1. timers' = timers /\ Ends(w) /\ EngineResult(w).throws
    BY <1>2 DEF RunFails
  <2>2. w \notin DelayWorkers
    BY <1>1, <2>1, NothingThrows DEF EngineResult
  <2>3. job'[w].pc = "idle" /\ \A v \in Jobs : v # w => job'[v] = job[v]
    BY <1>1, <2>1 DEF Ends, IdleJob
  <2>4. JobKeeps(w)
    BY <1>1, <2>2, <2>3 DEF JobKeeps, SaveTimed
  <2> QED
    BY <2>1, <2>3, <2>4, OneJobKeeps
<1>3. CASE Run(w)
  <2>0. PICK state, saved, waiting : ToSave(w, state, saved, waiting)
    BY <1>3, Zenon DEF Run
  <2>1. \A v \in Jobs : v # w => job'[v] = job[v]
    BY <1>1, <2>0 DEF ToSave
  <2>2. job'[w].pc = "save" /\ job'[w].conv = job[w].conv /\ job'[w].to = job[w].to
    BY <1>1, <2>0 DEF ToSave, Job
  <2>3. \A v \in Jobs : JobKeeps(v)
    BY <1>1, <1>3, <2>1, <2>2, RunTimed DEF JobKeeps
  <2> QED
    BY <1>3, <2>3, RunTimed, JobsKeep
<1>4. ASSUME NEW state, NEW saved, NEW waiting, ToSave(w, state, saved, waiting),
             timers' = timers, SaveTimed(w)'
      PROVE  (\A c \in Convs : RowTimed(c)') /\ (\A v \in Jobs : SaveTimed(v)')
  <2>1. \A v \in Jobs : v # w => job'[v] = job[v]
    BY <1>1, <1>4 DEF ToSave
  <2>2. job'[w].pc = "save" /\ job'[w].conv = job[w].conv /\ job'[w].to = job[w].to
    BY <1>1, <1>4 DEF ToSave, Job
  <2>3. JobKeeps(w)
    BY <1>1, <1>4, <2>2 DEF JobKeeps
  <2> QED
    BY <1>4, <2>1, <2>3, OneJobKeeps
\* While the row's flow exists, a booking is what the engine's answer waits for.
<1>5. ASSUME ~EngineResult(w).throws, Emits(EngineResult(w).actions, "book_appointment"),
             conv[job[w].conv].flow \in stored
      PROVE  /\ EngineResult(w).state.awaiting = "booking"
             /\ AfterBooking(Flow[job[w].flow], EngineResult(w).state)
  <2>1. AfterBooking(Flow[job[w].flow], job[w].row.state)
    BY <1>1, <1>5, TimerTypes DEF BookingFits, FlowFits, Working
  <2>2. Pauses(Flow[job[w].flow], EngineResult(w))
    BY <1>1, <1>5, <2>1, EnginePauses
  <2> QED
    BY <1>5, <2>2 DEF Pauses, Emits
<1>6. ~EngineResult(w).throws => EngineResult(w).state \in FlowState
  BY <1>1, EngineResultType DEF IsResult
<1>7. ASSUME NEW state, NEW saved, NEW waiting, ToSave(w, state, saved, waiting),
             conv[job[w].conv].flow \in stored => state.awaiting # "delay"
      PROVE  SaveTimed(w)'
  <2>1. job'[w].conv = job[w].conv /\ job'[w].next = state
    BY <1>1, <1>7 DEF ToSave, Job
  <2> QED
    BY <1>1, <1>7, <2>1 DEF SaveTimed
<1>8. CASE RunToMenu(w)
  <2> DEFINE menu == [EngineResult(w).state EXCEPT !.offered = OFFER_COUNT]
  <2>1. /\ ~EngineResult(w).throws /\ timers' = timers
        /\ Emits(EngineResult(w).actions, "book_appointment")
        /\ ToSave(w, menu, SavedBy(EngineResult(w).actions), EngineResult(w).awaitingInput)
    BY <1>8 DEF RunToMenu
  <2>2. conv[job[w].conv].flow \in stored => menu.awaiting = "booking"
    BY <1>5, <1>6, <2>1 DEF FlowState
  <2> HIDE DEF menu
  <2>3. SaveTimed(w)'
    BY <1>7, <2>1, <2>2
  <2> QED
    BY <1>4, <2>1, <2>3
<1>9. CASE RunPastBooking(w)
  <2> DEFINE state == EngineResult(w).state
             resumed == ResumeBooking(Flow[job[w].flow], state)
             saved == SavedBy(EngineResult(w).actions)
             waiting == EngineResult(w).awaitingInput
  <2>1. /\ ~EngineResult(w).throws /\ timers' = timers
        /\ Emits(EngineResult(w).actions, "book_appointment")
        /\ IF resumed.throws THEN Ends(w) ELSE ToSave(w, resumed.state, saved, waiting)
    BY <1>9 DEF RunPastBooking
  <2>2. state \in FlowState /\ ~resumed.throws
    BY <1>1, <1>6, <2>1, NothingThrows
  <2>3. ToSave(w, resumed.state, saved, waiting)
    BY <2>1, <2>2
  <2>4. SaveTimed(w)'
    <3>1. CASE conv[job[w].conv].flow \in stored
      <4>1. AfterBooking(Flow[job[w].flow], state) /\ state.awaiting = "booking"
        BY <1>5, <2>1, <3>1
      <4> QED
        BY <1>1, <2>2, <2>3, <4>1, BookedTimed
    <3>2. CASE conv[job[w].conv].flow \notin stored
      BY <1>7, <2>3, <3>2
    <3> QED
      BY <3>1, <3>2
  <2> QED
    BY <1>4, <2>1, <2>3, <2>4
<1> QED
  BY <1>2, <1>3, <1>8, <1>9

LEMMA DelayedTimed ==
  ASSUME TimerInv, [Next]_vars, NEW d \in DelayWorkers, Delayed(d)
  PROVE  (\A c \in Convs : RowTimed(c)') /\ (\A v \in Jobs : SaveTimed(v)')
<1>1. /\ job \in [Jobs -> Job] /\ d \in Jobs /\ job[d] \in Job
      /\ conv' = conv /\ stored' = stored /\ job[d].pc \in {"idle", "load"} /\ RowsDrift
  BY TimerTypes, NextDrifts DEF Delayed, Fire, FireAgain, rowVars, flowVars
<1>2. ASSUME NEW c \in Convs, NEW to \in Target, NEW stale, ReadDelayed(d, c, to, stale)
      PROVE  /\ \A v \in Jobs : v # d => job'[v] = job[v]
             /\ job'[d].pc \in {"run", "idle"}
             /\ Paused(c) /\ conv[c].state.resume = to =>
                  job'[d].pc = "run" /\ job'[d].conv = c /\ job'[d].to = to
  <2> DEFINE j == [IdleJob EXCEPT !.pc = "run", !.conv = c, !.row = conv[c], !.to = to,
                                  !.flow = conv[c].flow, !.contactFields = fields,
                                  !.hasSource = TRUE, !.stale = stale]
  <2>1. job' = [job EXCEPT ![d] = IF InPause(c, to) THEN j ELSE IdleJob]
    BY <1>2 DEF ReadDelayed
  <2>2. j.pc = "run" /\ j.conv = c /\ j.to = to /\ IdleJob.pc = "idle"
    BY DEF IdleJob
  <2> HIDE DEF j
  <2>3. Paused(c) /\ conv[c].state.resume = to => InPause(c, to)
    BY TimerTypes DEF Paused, InPause
  <2> QED
    BY <1>1, <2>1, <2>2, <2>3
<1>3. CASE FireAgain(d)
  <2>1. /\ job[d].pc = "load" /\ timers' = timers
        /\ job[d].conv \in Convs /\ job[d].to \in Target
        /\ ReadDelayed(d, job[d].conv, job[d].to, job[d].stale)
    BY <1>1, <1>3, TimerTypes DEF FireAgain, Ready, Job
  <2>2. ASSUME NEW c \in Convs PROVE RowTimed(c)'
    <3>1. \A v \in Jobs : job[v].pc = "save" /\ job[v].conv = c => job'[v].pc # "idle"
      BY <1>2, <2>1
    <3>2. ASSUME NEW to \in Target, Paused(c), to = conv[c].state.resume, Timed(c, to)
          PROVE  Timed(c, to)'
      <4>1. CASE timers[<<c, to>>] > 0
        BY <2>1, <4>1 DEF Timed
      <4>2. ASSUME NEW e \in DelayWorkers, job[e].pc # "idle", job[e].conv = c, job[e].to = to
            PROVE  job'[e].pc # "idle" /\ job'[e].conv = c /\ job'[e].to = to
        <5>1. CASE e = d
          BY <1>2, <2>1, <3>2, <4>2, <5>1
        <5>2. CASE e # d
          BY <1>2, <2>1, <4>2, <5>2, TimerTypes
        <5> QED
          BY <5>1, <5>2
      <4> QED
        BY <3>2, <4>1, <4>2 DEF Timed
    <3> QED
      BY <3>1, <3>2, RowsTimed
  <2>3. ASSUME NEW v \in Jobs PROVE SaveTimed(v)'
    <3>1. CASE v = d
      BY <1>2, <2>1, <3>1 DEF SaveTimed
    <3>2. CASE v # d
      <4>1. job'[v] = job[v]
        BY <1>2, <2>1, <3>2
      <4>2. timers' \in [Convs \X Target -> Nat]
        BY <2>1, TimerTypes
      <4>3. job[v].pc = "save" => timers'[<<job[v].conv, job[v].next.resume>>]
                                    >= timers[<<job[v].conv, job[v].next.resume>>]
        BY <2>1, TimerTypes DEF Ready
      <4> QED
        BY <1>1, <4>1, <4>2, <4>3, SaveCarried
    <3> QED
      BY <3>1, <3>2
  <2> QED
    BY <2>2, <2>3
<1>4. ASSUME NEW c \in Convs, NEW to \in Target, Fire(d, c, to)
      PROVE  (\A e \in Convs : RowTimed(e)') /\ (\A v \in Jobs : SaveTimed(v)')
  <2>1. /\ job[d].pc = "idle" /\ timers[<<c, to>>] > 0 /\ ~StillArming(c, to)
        /\ timers' = [timers EXCEPT ![<<c, to>>] = @ - 1]
        /\ ReadDelayed(d, c, to, outrun[<<c, to>>] > 0)
    BY <1>4 DEF Fire
  <2>2. /\ timers' \in [Convs \X Target -> Nat]
        /\ \A e \in Convs, at \in Target :
             <<e, at>> # <<c, to>> => timers'[<<e, at>>] = timers[<<e, at>>]
    BY <2>1, TimerTypes
  <2>3. ASSUME NEW e \in Convs PROVE RowTimed(e)'
    <3>1. \A v \in Jobs : job[v].pc = "save" /\ job[v].conv = e => job'[v].pc # "idle"
      BY <1>2, <2>1
    <3>2. ASSUME NEW at \in Target, Paused(e), at = conv[e].state.resume, Timed(e, at)
          PROVE  Timed(e, at)'
      <4>1. CASE e = c /\ at = to
        BY <1>2, <2>1, <3>2, <4>1 DEF Timed
      <4>2. CASE ~(e = c /\ at = to)
        <5>1. timers'[<<e, at>>] = timers[<<e, at>>]
          BY <2>2, <4>2
        <5>2. \A x \in DelayWorkers : job[x].pc # "idle" => job'[x] = job[x]
          BY <1>2, <2>1, TimerTypes
        <5> QED
          BY <3>2, <5>1, <5>2 DEF Timed
      <4> QED
        BY <4>1, <4>2
    <3> QED
      BY <3>1, <3>2, RowsTimed
  <2>4. ASSUME NEW v \in Jobs PROVE SaveTimed(v)'
    <3>1. CASE v = d
      BY <1>2, <2>1, <3>1 DEF SaveTimed
    <3>2. CASE v # d /\ job[v].pc = "save" /\ job[v].next.awaiting = "delay"
      <4>1. job'[v] = job[v] /\ job[v].conv \in Convs /\ job[v].next.resume \in Target
        BY <1>2, <2>1, <3>2, TimerTypes DEF Ready
      <4>2. <<job[v].conv, job[v].next.resume>> # <<c, to>>
        BY <2>1, <3>2 DEF StillArming
      <4>3. timers'[<<job[v].conv, job[v].next.resume>>]
              = timers[<<job[v].conv, job[v].next.resume>>]
        BY <2>2, <4>1, <4>2
      <4> QED
        BY <1>1, <4>1, <4>3, TimerTypes DEF TimerInv, SaveTimed
    <3>3. CASE v # d /\ ~(job[v].pc = "save" /\ job[v].next.awaiting = "delay")
      <4>1. job'[v] = job[v]
        BY <1>2, <2>1, <3>3
      <4> QED
        BY <3>3, <4>1 DEF SaveTimed
    <3> QED
      BY <3>1, <3>2, <3>3
  <2> QED
    BY <2>3, <2>4
<1> QED
  BY <1>3, <1>4 DEF Delayed

LEMMA SavedTimed ==
  ASSUME TimerInv, [Next]_vars, NEW w \in Jobs, Save(w)
  PROVE  (\A c \in Convs : RowTimed(c)') /\ (\A v \in Jobs : SaveTimed(v)')
<1>1. /\ job \in [Jobs -> Job] /\ job[w].pc = "save" /\ job' = [job EXCEPT ![w] = IdleJob]
      /\ timers' = timers /\ stored' = stored /\ RowsDrift
      /\ conv' = [conv EXCEPT ![job[w].conv].state = job[w].next,
                    ![job[w].conv].status = StatusOf(job[w].next, job[w].waiting)]
  BY TimerTypes, NextDrifts DEF Save, Ends, flowVars
<1>2. job'[w].pc = "idle" /\ \A v \in Jobs : v # w => job'[v] = job[v]
  BY <1>1 DEF IdleJob
<1>3. ASSUME NEW c \in Convs PROVE RowTimed(c)'
  <2>1. CASE c = job[w].conv
    <3>1. conv'[c].state = job[w].next /\ conv'[c].flow = conv[c].flow
      BY <1>1, <2>1, TimerTypes DEF Row
    <3>2. Paused(c)' => timers'[<<c, conv'[c].state.resume>>] > 0
      BY <1>1, <2>1, <3>1 DEF Paused, TimerInv, SaveTimed
    <3> QED
      BY <3>2 DEF RowTimed, Timed
  <2>2. CASE c # job[w].conv
    <3>1. \A v \in Jobs : job[v].pc = "save" /\ job[v].conv = c => job'[v].pc # "idle"
      BY <1>2, <2>2 DEF IdleJob
    <3>2. ASSUME NEW to \in Target, Timed(c, to) PROVE Timed(c, to)'
      BY <1>1, <1>2, <2>2, <3>2, TimerTypes DEF Timed
    <3> QED
      BY <3>1, <3>2, RowsTimed
  <2> QED
    BY <2>1, <2>2
<1>4. ASSUME NEW v \in Jobs PROVE SaveTimed(v)'
  <2>1. CASE v = w
    BY <1>2, <2>1 DEF SaveTimed
  <2>2. CASE v # w
    <3>1. job'[v] = job[v] /\ timers' \in [Convs \X Target -> Nat]
      BY <1>1, <1>2, <2>2, TimerTypes
    <3>2. job[v].pc = "save" => timers'[<<job[v].conv, job[v].next.resume>>]
                                  >= timers[<<job[v].conv, job[v].next.resume>>]
      BY <1>1, TimerTypes DEF Ready
    <3> QED
      BY <1>1, <3>1, <3>2, SaveCarried
  <2> QED
    BY <2>1, <2>2
<1> QED
  BY <1>3, <1>4

LEMMA TimerNext ==
  ASSUME NoSilentLoops, NoPauseAfterBooking, TimerInv, [Next]_vars
  PROVE  TimerInv'
<1> SUFFICES (\A c \in Convs : RowTimed(c)') /\ (\A v \in Jobs : SaveTimed(v)')
  BY BookingNext DEF TimerInv
<1>1. CASE \E w \in Workers : Inbound(w)
  BY <1>1, InboundTimed
<1>2. CASE \E d \in DelayWorkers : Delayed(d)
  BY <1>2, DelayedTimed
<1>3. ASSUME NEW w \in Jobs, Applying(w)
      PROVE  (\A c \in Convs : RowTimed(c)') /\ (\A v \in Jobs : SaveTimed(v)')
  BY <1>3, ApplyingTimed, SavedTimed DEF Applying
<1>4. ASSUME NEW w \in Jobs, Crash(w)
      PROVE  (\A c \in Convs : RowTimed(c)') /\ (\A v \in Jobs : SaveTimed(v)')
  <2> DEFINE j == IF w \in DelayWorkers
                  THEN [IdleJob EXCEPT !.pc = "load", !.conv = job[w].conv, !.to = job[w].to,
                                       !.stale = job[w].stale]
                  ELSE [IdleJob EXCEPT !.pc = "load", !.text = job[w].text]
  <2>1. timers' = timers /\ job' = [job EXCEPT ![w] = j]
    BY <1>4 DEF Crash
  <2>2. /\ j.pc = "load"
        /\ w \in DelayWorkers => j.conv = job[w].conv /\ j.to = job[w].to
    BY DEF IdleJob
  <2> HIDE DEF j
  <2>3. job'[w] = j /\ \A v \in Jobs : v # w => job'[v] = job[v]
    BY <2>1, TimerTypes
  <2>4. JobKeeps(w)
    BY <2>2, <2>3 DEF JobKeeps, SaveTimed
  <2> QED
    BY <2>1, <2>3, <2>4, OneJobKeeps
<1>5. ASSUME timers' = timers, job' = job
      PROVE  (\A c \in Convs : RowTimed(c)') /\ (\A v \in Jobs : SaveTimed(v)')
  <2>1. timers' \in [Convs \X Target -> Nat]
    BY <1>5, TimerTypes
  <2>2. \A c \in Convs, to \in Target : timers'[<<c, to>>] >= timers[<<c, to>>]
    BY <1>5, TimerTypes
  <2>3. \A v \in Jobs : JobKeeps(v)
    BY <1>5 DEF JobKeeps
  <2> QED
    BY <2>1, <2>2, <2>3, JobsKeep
<1>6. CASE \/ \E c \in Convs : Expire(c)
           \/ SlideWindow
           \/ \E f \in FlowIds : ToggleFlow(f) \/ DeleteFlow(f)
  <2>1. timers' = timers /\ job' = job
    BY <1>6 DEF Expire, SlideWindow, ToggleFlow, DeleteFlow
  <2> QED
    BY <1>5, <2>1
<1>7. CASE UNCHANGED vars
  <2>1. timers' = timers /\ job' = job
    BY <1>7 DEF vars
  <2> QED
    BY <1>5, <2>1
<1> QED
  BY <1>1, <1>2, <1>3, <1>4, <1>6, <1>7 DEF Next

\* A timed pause always ends by itself: whatever the jobs do meanwhile, the delay
\* job that will resume the row is pending or under way.  Of the flows it is asked
\* that no walk goes on for ever, and that what follows a booking asks the lead
\* something before it pauses (step.ts:152-159, process-inbound.ts:590).
THEOREM PausesAreTimed ==
  ASSUME NoSilentLoops, NoPauseAfterBooking
  PROVE  Spec => []TimerPending
<1>1. Init => TimerInv
  <2> SUFFICES ASSUME Init PROVE TimerInv
    OBVIOUS
  <2>1. TypeInv
    BY InitTypes
  <2>2. /\ \A w \in Jobs : job[w] = IdleJob
        /\ \A c \in Convs : conv[c].state.awaiting = "none"
    BY DEF Init, LegacyRow, UnusedRow, EmptyState
  <2>3. \A w \in Jobs : FlowFits(w) /\ BookingFits(w) /\ SaveTimed(w)
    BY <2>2 DEF FlowFits, BookingFits, SaveTimed, IdleJob, Working
  <2>4. \A c \in Convs : RowFits(c) /\ RowTimed(c)
    BY <2>2 DEF RowFits, AfterBooking, RowTimed, Paused
  <2> QED
    BY <2>1, <2>3, <2>4 DEF TimerInv, BookingInv, FlowInv
<1>2. TimerInv /\ [Next]_vars => TimerInv'
  BY TimerNext
<1>3. TimerInv => TimerPending
  BY DEF TimerInv, RowTimed, Paused, Timed, TimerPending
<1> QED
  BY <1>1, <1>2, <1>3, PTL DEF Spec

-------------------------------------------------------------------------------
(* Timers of pauses that are over *)

\* No flow comes back to a node it has been at: its nodes can be ranked so that
\* every way out of one leads down.
NoWayBack ==
  \E rank \in [FlowIds -> [Target -> Nat]] : \A f \in FlowIds : Descends(Flow[f], rank[f])

Rank == CHOOSE rank \in [FlowIds -> [Target -> Nat]] :
          \A f \in FlowIds : Descends(Flow[f], rank[f])

\* What a job knows of the run it has read, and that it is no stale timer's.
JobPast(w, j) ==
  /\ Sound(j.row.state)
  /\ j.pc = "route" => ~j.keyword
  /\ j.pc = "admit" /\ j.keyword => j.row.state = EmptyState
  /\ j.pc = "run" => j.row.state.awaiting # "booking"
  /\ j.pc = "run" /\ w \in Workers /\ RunOver(j.row.state) => j.row.state.status = "active"
  /\ j.pc = "save" => Sound(j.next) /\ Onward(Rank[j.flow], j.row.state, j.next)
  /\ ~j.stale

\* A row with timers that have been outrun has left their pauses behind.
RowPast(c, to) ==
  /\ outrun[<<c, to>>] > 0 /\ conv[c].flow \in stored
       => Past(Rank[conv[c].flow], conv[c].state, to)
  /\ conv[c].status = "unused" => outrun[<<c, to>>] = 0

PastInv ==
  /\ BookingInv
  /\ \A c \in Convs : Sound(conv[c].state)
  /\ \A c \in Convs : \A to \in Target : RowPast(c, to)
  /\ \A w \in Jobs : JobPast(w, job[w])

LEMMA RankDescends ==
  ASSUME NoWayBack, NEW f \in FlowIds
  PROVE  Descends(Flow[f], Rank[f])
BY Zenon DEF NoWayBack, Rank

LEMMA PastTypes ==
  ASSUME PastInv
  PROVE  /\ TypeInv /\ conv \in [Convs -> Row] /\ job \in [Jobs -> Job]
         /\ outrun \in [Convs \X Target -> Nat] /\ stored \subseteq FlowIds
         /\ \A w \in Jobs : /\ job[w] \in Job /\ Ready(w, job[w]) /\ FlowFits(w) /\ BookingFits(w)
                            /\ JobPast(w, job[w])
         /\ \A w \in Workers \cup DelayWorkers : w \in Jobs
         /\ NULL \notin Convs /\ NULL \notin FlowIds
BY RuntimeAssumption
   DEF PastInv, BookingInv, FlowInv, TypeInv, TypeOK, JobsReady, Jobs, RuntimeAssumption

\* The engine's answer to a job leads the run on.
LEMMA EngineOnward ==
  ASSUME NoWayBack, PastInv, NEW w \in Jobs, job[w].pc = "run"
  PROVE  /\ Sound(EngineResult(w).state)
         /\ Onward(Rank[job[w].flow], job[w].row.state, EngineResult(w).state)
<1> DEFINE flow == Flow[job[w].flow]
           rank == Rank[job[w].flow]
           state == job[w].row.state
<1>1. /\ job[w].flow \in FlowIds /\ state \in FlowState /\ Sound(state)
      /\ w \notin DelayWorkers => job[w].text \in Texts /\ w \in Workers
      /\ w \in Workers /\ RunOver(state) => state.status = "active"
  BY PastTypes DEF Ready, Job, Row, JobPast, Jobs
<1>2. IsFlowDefinition(flow) /\ Descends(flow, rank)
  BY <1>1, FlowType, RankDescends
<1>3. CASE w \in DelayWorkers
  BY <1>1, <1>2, <1>3, ResumeDelayPast DEF EngineResult
<1>4. CASE w \notin DelayWorkers /\ RunOver(state)
  <2>1. EngineResult(w) = Start(flow)
    BY <1>4 DEF EngineResult
  <2>2. state.status = "active" /\ state.node = NULL
    BY <1>1, <1>4 DEF RunOver
  <2>3. state.awaiting = "none"
    BY <1>1, <2>2 DEF Sound
  <2>4. \A to \in Target : ~Past(rank, state, to)
    BY <2>2, <2>3 DEF Past
  <2> HIDE DEF flow, rank, state
  <2> QED
    BY <1>2, <2>1, <2>3, <2>4, StartSound DEF Onward, flow, rank, state
<1>5. CASE w \notin DelayWorkers /\ ~RunOver(state)
  BY <1>1, <1>2, <1>5, StepPast DEF EngineResult
<1> QED
  BY <1>3, <1>4, <1>5

LEMMA IdlePast ==
  ASSUME NEW w
  PROVE  JobPast(w, IdleJob) /\ Sound(EmptyState) /\ Sound(UnusedRow.state)
BY DEF JobPast, IdleJob, UnusedRow, EmptyState, Sound

\* A state handed on to be saved.
LEMMA SavesOnward ==
  ASSUME PastInv, NEW w \in Jobs, NEW state, NEW saved, NEW waiting,
         ToSave(w, state, saved, waiting),
         Sound(state), Onward(Rank[job[w].flow], job[w].row.state, state)
  PROVE  JobPast(w, job'[w])
<1>1. /\ job'[w].pc = "save" /\ job'[w].next = state /\ job'[w].row = job[w].row
      /\ job'[w].flow = job[w].flow /\ job'[w].stale = job[w].stale
  BY PastTypes DEF ToSave, Job
<1> QED
  BY <1>1, PastTypes DEF JobPast

LEMMA EndsPast ==
  ASSUME PastInv, NEW w \in Jobs, Ends(w)
  PROVE  JobPast(w, job'[w])
<1>1. job'[w] = IdleJob
  BY PastTypes DEF Ends
<1> QED
  BY <1>1, IdlePast

LEMMA ReadPast ==
  ASSUME PastInv, NEW w \in Workers, NEW text, ReadRows(w, text)
  PROVE  JobPast(w, job'[w])
<1> DEFINE row == IF LatestActive = NULL THEN UnusedRow ELSE conv[LatestActive]
           j == [IdleJob EXCEPT
                   !.pc = "route", !.text = text, !.conv = LatestActive, !.row = row,
                   !.contactFields = fields, !.hasSource = source # NULL]
<1>1. job' = [job EXCEPT ![w] = j]
  BY DEF ReadRows
<1>2. job'[w] = j
  BY <1>1, PastTypes
<1>3. j.pc = "route" /\ j.row = row /\ ~j.keyword /\ ~j.stale
  BY DEF IdleJob
<1> HIDE DEF j
<1>4. LatestActive # NULL => LatestActive \in Convs
  BY LatestType DEF LatestActive
<1>5. Sound(row.state)
  BY <1>4, IdlePast DEF PastInv
<1> HIDE DEF row
<1> QED
  BY <1>2, <1>3, <1>5 DEF JobPast

LEMMA OpenPast ==
  ASSUME PastInv, NEW w \in Workers, Open(w)
  PROVE  JobPast(w, job'[w])
<1> DEFINE c == CHOOSE d \in Convs : d \notin Used
           row == [status |-> "ACTIVE", flow |-> job[w].flow,
                   state |-> EmptyState, opener |-> NULL]
<1>1. job' = [job EXCEPT ![w].pc = "admit", ![w].conv = c, ![w].row = row]
  BY Zenon DEF Open
<1>2. row.state = EmptyState
  OBVIOUS
<1> HIDE DEF c, row
<1>3. job'[w].pc = "admit" /\ job'[w].row = row /\ job'[w].stale = job[w].stale
  BY <1>1, PastTypes DEF Job
<1> QED
  BY <1>2, <1>3, PastTypes, IdlePast DEF JobPast

LEMMA RoutePast ==
  ASSUME PastInv, NEW w \in Workers, RouteByKeyword(w) \/ RouteToRunning(w) \/ RouteToNew(w)
  PROVE  JobPast(w, job'[w])
<1>1. /\ job[w].pc = "route" /\ job'[w].row = job[w].row /\ job'[w].stale = job[w].stale
      /\ job'[w].pc \in {"open", "admit"}
      /\ job'[w].pc = "admit" => job'[w].keyword = job[w].keyword
  BY PastTypes DEF RouteByKeyword, RouteToRunning, RouteToNew, NotAKeyword, Job
<1> QED
  BY <1>1, PastTypes DEF JobPast

LEMMA AdmitPast ==
  ASSUME PastInv, NEW w \in Workers, AdmitToRun(w)
  PROVE  JobPast(w, job'[w])
<1>1. /\ job[w].pc = "admit" /\ job'[w].row = job[w].row /\ job'[w].stale = job[w].stale
      /\ job'[w].pc \in {"book", "run"}
      /\ job'[w].pc = "run" => ~AlreadyOver(job[w]) /\ job[w].row.state.awaiting # "booking"
  BY PastTypes DEF AdmitToRun, GoesTo, Job
<1>2. job[w].row.state.status \in {"active", "completed", "handoff"}
  BY PastTypes DEF Job, Row, FlowState
<1>3. ASSUME job'[w].pc = "run", RunOver(job[w].row.state)
      PROVE  job[w].row.state.status = "active"
  <2>1. job[w].keyword => job[w].row.state = EmptyState
    BY <1>1, PastTypes DEF JobPast
  <2> QED
    BY <1>1, <1>2, <1>3, <2>1 DEF AlreadyOver, EmptyState
<1> QED
  BY <1>1, <1>3, PastTypes DEF JobPast

\* The state a job hands on, for each way it comes by it.
LEMMA RunPast ==
  ASSUME NoWayBack, PastInv, NEW w \in Jobs,
         \/ BookSlot(w) \/ BookAgain(w) \/ RunFails(w) \/ Run(w)
         \/ RunToMenu(w) \/ RunPastBooking(w)
  PROVE  JobPast(w, job'[w])
<1> DEFINE flow == Flow[job[w].flow]
           rank == Rank[job[w].flow]
           state == job[w].row.state
<1>1. job[w].pc \in {"run", "book"}
  BY DEF BookSlot, BookAgain, RunFails, Run, RunToMenu, RunPastBooking
<1>2. job[w].flow \in FlowIds /\ state \in FlowState
  BY <1>1, PastTypes DEF Ready, Job, Row
<1>3. IsFlowDefinition(flow) /\ Descends(flow, rank)
  BY <1>2, FlowType, RankDescends
<1> HIDE DEF flow, rank, state
<1>4. ASSUME NEW mid \in FlowState, mid.awaiting = "booking"
      PROVE  Sound(ResumeBooking(flow, mid).state) /\ Onward(rank, mid, ResumeBooking(flow, mid).state)
  BY <1>3, <1>4, ResumeBookingPast
<1>5. ASSUME NEW after, NEW saved, NEW waiting, ToSave(w, after, saved, waiting),
             Sound(after), Onward(rank, state, after)
      PROVE  JobPast(w, job'[w])
  BY <1>5, SavesOnward DEF rank, state
<1>6. ASSUME job[w].pc = "run"
      PROVE  Sound(EngineResult(w).state) /\ Onward(rank, state, EngineResult(w).state)
  BY <1>6, EngineOnward DEF rank, state
<1>7. CASE BookAgain(w) \/ RunFails(w)
  BY <1>7, EndsPast DEF BookAgain, RunFails
<1>8. CASE Run(w)
  <2>1. /\ job[w].pc = "run"
        /\ ToSave(w, EngineResult(w).state, SavedBy(EngineResult(w).actions),
                  EngineResult(w).awaitingInput)
    BY <1>8 DEF Run
  <2> QED
    BY <1>5, <1>6, <2>1
<1>9. CASE RunToMenu(w)
  <2> DEFINE menu == [EngineResult(w).state EXCEPT !.offered = OFFER_COUNT]
  <2>1. /\ job[w].pc = "run"
        /\ ToSave(w, menu, SavedBy(EngineResult(w).actions), EngineResult(w).awaitingInput)
    BY <1>9 DEF RunToMenu
  <2>2. EngineResult(w).state \in FlowState
    BY <2>1, PastTypes, EngineResultType DEF IsResult
  <2>3. /\ menu.awaiting = EngineResult(w).state.awaiting /\ menu.resume = EngineResult(w).state.resume
        /\ menu.status = EngineResult(w).state.status /\ menu.node = EngineResult(w).state.node
    BY <2>2 DEF FlowState
  <2> HIDE DEF menu
  <2>4. Sound(menu) /\ Onward(rank, state, menu)
    BY <1>6, <2>1, <2>3 DEF Sound, Onward, Past
  <2> QED
    BY <1>5, <2>1, <2>4
<1>10. CASE RunPastBooking(w)
  <2> DEFINE mid == EngineResult(w).state
             resumed == ResumeBooking(flow, mid)
  <2>1. /\ job[w].pc = "run" /\ ~EngineResult(w).throws
        /\ Emits(EngineResult(w).actions, "book_appointment")
        /\ Ends(w) \/ ToSave(w, resumed.state, SavedBy(EngineResult(w).actions),
                             EngineResult(w).awaitingInput)
    BY <1>10 DEF RunPastBooking, flow
  <2>2. mid \in FlowState
    BY <2>1, PastTypes, EngineResultType DEF IsResult
  <2>3. mid.awaiting = "booking"
    <3>1. AfterBooking(Flow[job[w].flow], job[w].row.state)
      BY <2>1, PastTypes DEF JobPast, AfterBooking
    <3> QED
      BY <2>1, <3>1, PastTypes, EnginePauses DEF Pauses, Emits
  <2> HIDE DEF mid
  <2>4. Sound(mid) /\ Onward(rank, state, mid)
    BY <1>6, <2>1 DEF mid
  <2>5. Sound(resumed.state) /\ Onward(rank, mid, resumed.state)
    BY <1>4, <2>2, <2>3
  <2> HIDE DEF resumed
  <2>6. state.resume \in Target
    BY <1>2 DEF FlowState
  <2>7. Onward(rank, state, resumed.state)
    BY <2>4, <2>5, <2>6 DEF Onward
  <2> QED
    BY <1>5, <2>1, <2>5, <2>7, EndsPast
<1>11. CASE BookSlot(w)
  <2> DEFINE resumed == ResumeBooking(flow, state)
  <2>1. /\ job[w].pc = "book"
        /\ Ends(w) \/ ToSave(w, resumed.state, SavedBy(resumed.actions), resumed.awaitingInput)
    BY <1>11 DEF BookSlot, flow, state
  <2>2. state.awaiting = "booking"
    BY <2>1, PastTypes DEF BookingFits, state
  <2>3. Sound(resumed.state) /\ Onward(rank, state, resumed.state)
    BY <1>2, <1>4, <2>2
  <2> HIDE DEF resumed
  <2> QED
    BY <1>5, <2>1, <2>3, EndsPast
<1> QED
  BY <1>7, <1>8, <1>9, <1>10, <1>11

\* A timer that has been outrun finds its pause over.
LEMMA FirePast ==
  ASSUME NoWayBack, PastInv, NEW d \in DelayWorkers, Delayed(d)
  PROVE  JobPast(d, job'[d])
<1>1. ASSUME NEW c \in Convs, NEW to \in Target, NEW stale, ReadDelayed(d, c, to, stale),
             stale => ~InPause(c, to)
      PROVE  JobPast(d, job'[d])
  <2> DEFINE j == [IdleJob EXCEPT !.pc = "run", !.conv = c, !.row = conv[c], !.to = to,
                                  !.flow = conv[c].flow, !.contactFields = fields,
                                  !.hasSource = TRUE, !.stale = stale]
  <2>1. job' = [job EXCEPT ![d] = IF InPause(c, to) THEN j ELSE IdleJob]
    BY <1>1 DEF ReadDelayed
  <2>2. job'[d] = IF InPause(c, to) THEN j ELSE IdleJob
    BY <2>1, PastTypes
  <2>3. j.pc = "run" /\ j.row = conv[c] /\ j.stale = stale /\ ~j.keyword
    BY DEF IdleJob
  <2> HIDE DEF j
  <2>4. CASE InPause(c, to)
    <3>1. conv[c].state.awaiting = "delay" /\ Sound(conv[c].state) /\ ~stale
      BY <1>1, <2>4 DEF InPause, PastInv
    <3> QED
      BY <2>2, <2>3, <2>4, <3>1, IdlePast DEF JobPast, Sound, RunOver
  <2>5. CASE ~InPause(c, to)
    BY <2>2, <2>5, IdlePast
  <2> QED
    BY <2>4, <2>5
<1>2. ASSUME NEW c \in Convs, NEW to \in Target, Fire(d, c, to)
      PROVE  JobPast(d, job'[d])
  <2>1. ASSUME outrun[<<c, to>>] > 0, InPause(c, to) PROVE FALSE
    <3>1. Past(Rank[conv[c].flow], conv[c].state, to)
      BY <2>1 DEF InPause, PastInv, RowPast
    <3>2. Rank[conv[c].flow][to] < Rank[conv[c].flow][to]
      BY <2>1, <3>1 DEF InPause, Past
    <3>3. Rank[conv[c].flow] \in [Target -> Nat]
      BY <2>1, PastTypes, RankDescends DEF InPause, Descends
    <3> QED
      BY <3>2, <3>3
  <2>2. ReadDelayed(d, c, to, outrun[<<c, to>>] > 0)
    BY <1>2 DEF Fire
  <2> QED
    BY <1>1, <2>1, <2>2
<1>3. CASE FireAgain(d)
  <2>1. job[d].conv \in Convs /\ job[d].to \in Target /\ ~job[d].stale
    BY <1>3, PastTypes DEF FireAgain, Ready, Job, JobPast
  <2>2. ReadDelayed(d, job[d].conv, job[d].to, job[d].stale)
    BY <1>3 DEF FireAgain
  <2> QED
    BY <1>1, <2>1, <2>2
<1> QED
  BY <1>2, <1>3 DEF Delayed

LEMMA JobsStayPast ==
  ASSUME NoWayBack, PastInv, [Next]_vars, NEW v \in Jobs
  PROVE  JobPast(v, job'[v])
<1>1. CASE job'[v] = job[v]
  BY <1>1, PastTypes
<1>2. ASSUME NEW w \in Jobs, NEW j, job' = [job EXCEPT ![w] = j], JobPast(w, job'[w])
      PROVE  JobPast(v, job'[v])
  BY <1>1, <1>2, PastTypes
<1>3. ASSUME NEW w \in Jobs, Ends(w) PROVE JobPast(v, job'[v])
  BY <1>2, <1>3, EndsPast DEF Ends
<1>4. CASE \E w \in Workers : Inbound(w)
  <2> PICK w \in Workers : Inbound(w)
    BY <1>4
  <2>0. w \in Jobs
    BY PastTypes
  <2>1. CASE (\E text \in Texts : Receive(w, text)) \/ ReceiveAgain(w)
    <3>1. PICK text : ReadRows(w, text)
      BY <2>1 DEF Receive, ReceiveAgain
    <3>2. JobPast(w, job'[w])
      BY <3>1, ReadPast
    <3> QED
      BY <1>2, <2>0, <3>1, <3>2 DEF ReadRows
  <2>2. CASE RouteByKeyword(w) \/ RouteToRunning(w) \/ RouteToNew(w)
    <3>1. v # w => job'[v] = job[v]
      BY <2>2, PastTypes DEF RouteByKeyword, RouteToRunning, RouteToNew
    <3> QED
      BY <1>1, <2>2, <3>1, RoutePast
  <2>3. CASE Open(w)
    <3>1. v # w => job'[v] = job[v]
      BY <2>3, PastTypes DEF Open
    <3> QED
      BY <1>1, <2>3, <3>1, OpenPast
  <2>4. CASE AdmitToRun(w)
    <3>1. v # w => job'[v] = job[v]
      BY <2>4, PastTypes DEF AdmitToRun, GoesTo
    <3> QED
      BY <1>1, <2>4, <3>1, AdmitPast
  <2>5. CASE \/ RouteNowhere(w) \/ RouteToPrevious(w)
             \/ AdmitTooMany(w) \/ AdmitDuplicate(w) \/ AdmitFinished(w)
    BY <1>3, <2>0, <2>5 DEF RouteNowhere, RouteToPrevious, AdmitTooMany, AdmitDuplicate, AdmitFinished
  <2>6. CASE BookAgain(w) \/ BookSlot(w)
    <3>1. Ends(w) \/ \E state, saved, waiting : ToSave(w, state, saved, waiting)
      BY <2>6, Zenon DEF BookAgain, BookSlot
    <3>2. v # w => job'[v] = job[v]
      BY <3>1, PastTypes DEF Ends, ToSave
    <3> QED
      BY <1>1, <2>0, <2>6, <3>2, RunPast
  <2> QED
    BY <2>1, <2>2, <2>3, <2>4, <2>5, <2>6 DEF Inbound
<1>5. CASE \E d \in DelayWorkers : Delayed(d)
  <2> PICK d \in DelayWorkers : Delayed(d)
    BY <1>5
  <2>1. v # d => job'[v] = job[v]
    BY PastTypes DEF Delayed, Fire, FireAgain, ReadDelayed
  <2> QED
    BY <1>1, <2>1, FirePast
<1>6. CASE \E w \in Jobs : Applying(w) \/ Crash(w)
  <2> PICK w \in Jobs : Applying(w) \/ Crash(w)
    BY <1>6
  <2>1. CASE Crash(w)
    <3>1. /\ v # w => job'[v] = job[v]
          /\ job'[w].pc = "load" /\ job'[w].row = UnusedRow /\ ~job'[w].stale
      BY <2>1, PastTypes DEF Crash, IdleJob, JobPast
    <3> QED
      BY <1>1, <3>1, IdlePast DEF JobPast
  <2>2. CASE Save(w)
    BY <1>3, <2>2 DEF Save
  <2>3. CASE RunFails(w) \/ Run(w) \/ RunToMenu(w) \/ RunPastBooking(w)
    <3>1. Ends(w) \/ \E state, saved, waiting : ToSave(w, state, saved, waiting)
      BY <2>3, Zenon DEF RunFails, Run, RunToMenu, RunPastBooking
    <3>2. v # w => job'[v] = job[v]
      BY <3>1, PastTypes DEF Ends, ToSave
    <3> QED
      BY <1>1, <2>3, <3>2, RunPast
  <2> QED
    BY <2>1, <2>2, <2>3 DEF Applying
<1>7. CASE \/ \E c \in Convs : Expire(c)
           \/ SlideWindow
           \/ \E f \in FlowIds : ToggleFlow(f) \/ DeleteFlow(f)
  BY <1>1, <1>7 DEF Expire, SlideWindow, ToggleFlow, DeleteFlow
<1>8. CASE UNCHANGED vars
  BY <1>1, <1>8 DEF vars
<1> QED
  BY <1>4, <1>5, <1>6, <1>7, <1>8 DEF Next

\* Only a job that saves the row can count a timer of it as outrun.
LEMMA OutrunFalls ==
  ASSUME PastInv, [Next]_vars, NEW c \in Convs, NEW to \in Target
  PROVE  \/ outrun'[<<c, to>>] <= outrun[<<c, to>>]
         \/ \E w \in Jobs : Save(w) /\ job[w].conv = c
<1>1. outrun \in [Convs \X Target -> Nat] /\ <<c, to>> \in Convs \X Target
  BY PastTypes
<1>2. CASE outrun' = outrun
  BY <1>1, <1>2
<1>3. CASE \E d \in DelayWorkers : Delayed(d)
  <2>1. CASE \E d \in DelayWorkers : FireAgain(d)
    BY <1>2, <2>1 DEF FireAgain
  <2>2. ASSUME NEW d \in DelayWorkers, NEW e \in Convs, NEW n \in Target, Fire(d, e, n)
        PROVE  outrun'[<<c, to>>] <= outrun[<<c, to>>]
    <3>1. outrun' = [outrun EXCEPT ![<<e, n>>] =
                       IF outrun[<<e, n>>] > 0 THEN outrun[<<e, n>>] - 1 ELSE 0]
      BY <2>2 DEF Fire
    <3>2. <<e, n>> \in Convs \X Target /\ outrun[<<e, n>>] \in Nat /\ outrun[<<c, to>>] \in Nat
      BY <1>1
    <3>3. CASE <<e, n>> = <<c, to>>
      BY <1>1, <3>1, <3>2, <3>3
    <3>4. CASE <<e, n>> # <<c, to>>
      BY <1>1, <3>1, <3>2, <3>4
    <3> QED
      BY <3>3, <3>4
  <2> QED
    BY <1>3, <2>1, <2>2 DEF Delayed
<1>4. ASSUME NEW w \in Jobs, Save(w), job[w].conv # c
      PROVE  outrun'[<<c, to>>] <= outrun[<<c, to>>]
  <2> DEFINE j == job[w]
             p == <<j.conv, j.row.state.resume>>
  <2>1. p # <<c, to>>
    BY <1>4
  <2>2. CASE conv[j.conv].state # j.row.state
    <3>1. outrun' = [q \in DOMAIN outrun |-> IF q[1] = j.conv THEN 0 ELSE outrun[q]]
      BY <1>4, <2>2 DEF Save
    <3>2. outrun'[<<c, to>>] = outrun[<<c, to>>]
      BY <1>1, <1>4, <3>1
    <3> QED
      BY <1>1, <3>2
  <2>3. CASE conv[j.conv].state = j.row.state /\ w \in Workers /\ j.row.state.awaiting = "delay"
    <3>1. outrun' = [outrun EXCEPT ![p] = @ + 1]
      BY <1>4, <2>3 DEF Save
    <3> HIDE DEF p
    <3>2. outrun'[<<c, to>>] = outrun[<<c, to>>]
      BY <1>1, <2>1, <3>1
    <3> QED
      BY <1>1, <3>2
  <2>4. CASE /\ conv[j.conv].state = j.row.state
             /\ ~(w \in Workers /\ j.row.state.awaiting = "delay")
    <3>1. outrun' = outrun
      BY <1>4, <2>4 DEF Save
    <3> QED
      BY <1>1, <3>1
  <2> QED
    BY <2>2, <2>3, <2>4
<1>5. CASE \E w \in Workers : Inbound(w)
  <2> PICK w \in Workers : Inbound(w)
    BY <1>5
  <2>1. CASE (\E text \in Texts : Receive(w, text)) \/ ReceiveAgain(w) \/ BookAgain(w) \/ BookSlot(w)
    BY <1>2, <2>1 DEF Receive, ReceiveAgain, ReadRows, BookAgain, BookSlot
  <2>2. CASE \/ RouteByKeyword(w) \/ RouteNowhere(w) \/ RouteToRunning(w)
             \/ RouteToPrevious(w) \/ RouteToNew(w) \/ Open(w)
    BY <1>2, <2>2 DEF RouteByKeyword, RouteNowhere, RouteToRunning, RouteToPrevious, RouteToNew, Open
  <2>3. CASE AdmitTooMany(w) \/ AdmitDuplicate(w) \/ AdmitFinished(w) \/ AdmitToRun(w)
    BY <1>2, <2>3 DEF AdmitTooMany, AdmitDuplicate, AdmitFinished, AdmitToRun, Admit
  <2> QED
    BY <2>1, <2>2, <2>3 DEF Inbound
<1>6. CASE \E w \in Jobs : Applying(w) \/ Crash(w)
  BY <1>2, <1>4, <1>6 DEF Applying, Crash, RunFails, Run, RunToMenu, RunPastBooking
<1>7. CASE \/ \E d \in Convs : Expire(d)
           \/ SlideWindow
           \/ \E f \in FlowIds : ToggleFlow(f) \/ DeleteFlow(f)
  BY <1>2, <1>7 DEF Expire, SlideWindow, ToggleFlow, DeleteFlow
<1>8. CASE UNCHANGED vars
  BY <1>2, <1>8 DEF vars
<1> QED
  BY <1>3, <1>5, <1>6, <1>7, <1>8 DEF Next

\* A job that saves the row it has read leads the row on.
LEMMA SavePast ==
  ASSUME PastInv, NEW w \in Jobs, Save(w), NEW to \in Target,
         outrun'[<<job[w].conv, to>>] > 0, conv[job[w].conv].flow \in stored
  PROVE  Past(Rank[conv[job[w].conv].flow], job[w].next, to)
<1> DEFINE j == job[w]
           c == job[w].conv
           p == <<c, j.row.state.resume>>
<1>1. /\ j.pc = "save" /\ c \in Convs /\ j \in Job /\ j.flow = conv[c].flow
      /\ Onward(Rank[j.flow], j.row.state, j.next)
  BY PastTypes DEF Save, Ready, FlowFits, Working, JobPast
<1>2. outrun \in [Convs \X Target -> Nat] /\ <<c, to>> \in Convs \X Target /\ p \in Convs \X Target
  BY <1>1, PastTypes DEF Job, Row, FlowState
<1>3. conv[c].state = j.row.state
  <2>1. ASSUME conv[c].state # j.row.state PROVE FALSE
    <3>1. outrun' = [q \in DOMAIN outrun |-> IF q[1] = c THEN 0 ELSE outrun[q]]
      BY <2>1 DEF Save
    <3>2. outrun'[<<c, to>>] = 0
      BY <1>2, <3>1
    <3> QED
      BY <3>2
  <2> QED
    BY <2>1
<1>4. CASE w \in Workers /\ j.row.state.awaiting = "delay" /\ to = j.row.state.resume
  BY <1>1, <1>4 DEF Onward
<1>5. CASE ~(w \in Workers /\ j.row.state.awaiting = "delay" /\ to = j.row.state.resume)
  <2>1. outrun'[<<c, to>>] = outrun[<<c, to>>]
    <3>1. CASE w \in Workers /\ j.row.state.awaiting = "delay"
      <4>1. outrun' = [outrun EXCEPT ![p] = @ + 1]
        BY <1>3, <3>1 DEF Save
      <4>2. p # <<c, to>>
        BY <1>5, <3>1
      <4> HIDE DEF p
      <4> QED
        BY <1>2, <4>1, <4>2
    <3>2. CASE ~(w \in Workers /\ j.row.state.awaiting = "delay")
      BY <1>3, <3>2 DEF Save
    <3> QED
      BY <3>1, <3>2
  <2>2. Past(Rank[conv[c].flow], conv[c].state, to)
    BY <1>1, <2>1 DEF PastInv, RowPast
  <2> QED
    BY <1>1, <1>3, <2>2 DEF Onward
<1> QED
  BY <1>4, <1>5

LEMMA RowsStayPast ==
  ASSUME PastInv, [Next]_vars, NEW c \in Convs
  PROVE  Sound(conv'[c].state) /\ \A to \in Target : RowPast(c, to)'
<1>1. RowMoves(c) /\ RowsDrift /\ NULL \notin stored
  BY PastTypes, RowsMove, NextDrifts
<1>2. Sound(conv'[c].state)
  <2>1. CASE RowKept(c)
    BY <2>1 DEF RowKept, PastInv
  <2>2. CASE RowOpened(c)
    BY <2>2, IdlePast DEF RowOpened
  <2>3. CASE RowSaved(c)
    BY <2>3, PastTypes DEF RowSaved, Save, JobPast
  <2> QED
    BY <1>1, <2>1, <2>2, <2>3 DEF RowMoves
<1> SUFFICES ASSUME NEW to \in Target PROVE RowPast(c, to)'
  BY <1>2
<1>3. /\ outrun[<<c, to>>] \in Nat /\ RowPast(c, to)
      /\ outrun'[<<c, to>>] \in Nat
  <2>1. TypeInv'
    BY PastTypes, NextTypes
  <2> QED
    BY <2>1, PastTypes DEF PastInv, TypeInv, TypeOK
<1>4. CASE \E w \in Jobs : Save(w) /\ job[w].conv = c
  <2> PICK w \in Jobs : Save(w) /\ job[w].conv = c
    BY <1>4
  <2>1. /\ conv[c].status # "unused" /\ conv \in [Convs -> Row] /\ stored' = stored
    BY PastTypes DEF Save, FlowFits, Working, flowVars
  <2>2. conv'[c].status # "unused"
    BY <1>1, <2>1 DEF RowsDrift
  <2>3. conv'[c].state = job[w].next /\ conv'[c].flow = conv[c].flow
    <3>1. conv' = [conv EXCEPT ![job[w].conv].state = job[w].next,
                     ![job[w].conv].status = StatusOf(job[w].next, job[w].waiting)]
      BY DEF Save
    <3> QED
      BY <2>1, <3>1 DEF Row
  <2> QED
    BY <2>1, <2>2, <2>3, SavePast DEF RowPast
<1>5. CASE ~\E w \in Jobs : Save(w) /\ job[w].conv = c
  <2>1. outrun'[<<c, to>>] <= outrun[<<c, to>>]
    BY <1>5, OutrunFalls
  <2>2. CASE RowOpened(c)
    BY <1>1, <1>3, <2>1, <2>2 DEF RowOpened, RowPast
  <2>3. CASE RowKept(c)
    <3>1. conv'[c].status = "unused" => conv[c].status = "unused"
      BY <1>1 DEF RowsDrift
    <3>2. conv'[c].flow \in stored' => conv'[c].flow = conv[c].flow /\ conv[c].flow \in stored
      BY <1>1, <2>3 DEF RowsDrift, RowKept
    <3>3. conv'[c].state = conv[c].state
      BY <2>3 DEF RowKept
    <3> QED
      BY <1>3, <2>1, <3>1, <3>2, <3>3 DEF RowPast
  <2>4. ~RowSaved(c)
    BY <1>5 DEF RowSaved
  <2> QED
    BY <1>1, <2>2, <2>3, <2>4 DEF RowMoves
<1> QED
  BY <1>4, <1>5

\* A timer resumes the pause it was armed for and no later one, however many jobs
\* of the contact overlap and whichever run again: in a flow that never comes back,
\* a reply that ends a pause leaves its timer nothing to resume (step.ts:82-85,
\* process-inbound.ts:786).
THEOREM StaleTimersDoNothing ==
  ASSUME NoWayBack
  PROVE  Spec => []StaleTimerIsNoOp
<1>1. Init => PastInv
  <2> SUFFICES ASSUME Init PROVE PastInv
    OBVIOUS
  <2>1. TypeInv
    BY InitTypes
  <2>2. /\ \A w \in Jobs : job[w] = IdleJob
        /\ \A c \in Convs : conv[c].state.awaiting = "none"
    BY DEF Init, LegacyRow, UnusedRow, EmptyState
  <2>3. \A c \in Convs : \A to \in Target : outrun[<<c, to>>] = 0
    <3>1. outrun = [p \in Convs \X Target |-> 0]
      BY DEF Init
    <3> QED
      BY <3>1
  <2>4. \A w \in Jobs : FlowFits(w) /\ BookingFits(w) /\ JobPast(w, job[w])
    <3>1. \A w \in Jobs : FlowFits(w) /\ BookingFits(w)
      BY <2>2 DEF FlowFits, BookingFits, IdleJob, Working
    <3> QED
      BY <2>2, <3>1, IdlePast
  <2>5. \A c \in Convs : RowFits(c) /\ Sound(conv[c].state) /\ \A to \in Target : RowPast(c, to)
    BY <2>2, <2>3 DEF RowFits, AfterBooking, Sound, RowPast
  <2> QED
    BY <2>1, <2>4, <2>5 DEF PastInv, BookingInv, FlowInv
<1>2. PastInv /\ [Next]_vars => PastInv'
  <2> SUFFICES ASSUME PastInv, [Next]_vars PROVE PastInv'
    OBVIOUS
  <2>1. BookingInv'
    BY BookingNext DEF PastInv
  <2>2. \A w \in Jobs : JobPast(w, job'[w])
    BY JobsStayPast
  <2>3. \A c \in Convs : Sound(conv'[c].state) /\ \A to \in Target : RowPast(c, to)'
    BY RowsStayPast
  <2> QED
    BY <2>1, <2>2, <2>3 DEF PastInv
<1>3. PastInv => StaleTimerIsNoOp
  BY PastTypes DEF JobPast, StaleTimerIsNoOp
<1> QED
  BY <1>1, <1>2, <1>3, PTL DEF Spec

-------------------------------------------------------------------------------
(* After the end of a run *)

\* lastMessageAt orders the rows that exist: one is the latest, and a row touched
\* after one within the cooldown is within the cooldown.
Ordered ==
  /\ fresh \subseteq Used
  /\ \A c, d \in Convs : <<c, d>> \in newer => d \in Used /\ <<d, c>> \notin newer
  /\ \A c, d \in Convs : d \in fresh /\ <<c, d>> \in newer => c \in fresh
  /\ Used = {} \/ \E c \in Used : \A d \in Used \ {c} : <<c, d>> \in newer

OrderInv == FlowInv /\ Ordered

\* While a row that no keyword opened is in progress, no other run of the contact
\* has finished within the cooldown.
Alone(c) ==
  conv[c].status = "ACTIVE" /\ c \notin asked =>
    \A d \in Convs \ {c} : d \in fresh => conv[d].status \notin {"COMPLETED", "HANDOFF"}

\* A row in progress has a run that goes on, or is an older persist()'s.
GoesOn(c) ==
  conv[c].status = "ACTIVE" =>
    \/ conv[c].state.status = "active"
    \/ conv[c].state.status = "completed" /\ conv[c].state.awaiting = "none"

\* What the one job knows of the rows and of the cooldown.
Aware(w) ==
  LET j == job[w] IN
  /\ j.pc = "route" => ~j.keyword
  /\ j.pc = "open" /\ ~j.keyword => fresh = {}
  /\ j.pc \in Working /\ j.keyword => j.conv \in asked
  /\ j.pc \in {"route", "admit", "run", "book"} /\ j.conv # NULL
       => j.row.state = conv[j.conv].state
  /\ j.pc \in {"run", "book"} /\ j.conv \notin asked => j.row.state.status = "active"

QuietInv ==
  /\ SerialInv /\ OrderInv
  /\ \A c \in Convs : Alone(c) /\ GoesOn(c)
  /\ \A w \in Workers : Aware(w)

LEMMA OrderKept ==
  ASSUME Ordered, Used' = Used, newer' = newer, fresh' = fresh
  PROVE  Ordered'
BY DEF Ordered

LEMMA OrderTouched ==
  ASSUME Ordered, Used' = Used, NEW c \in Used, Touch(c)
  PROVE  Ordered'
<1>1. /\ newer' = {p \in newer : p[2] # c} \cup ({c} \X (Used \ {c}))
      /\ fresh' = fresh \cup {c} /\ c \in Convs
  BY DEF Touch, Used
<1>2. \A d, e \in Convs : <<d, e>> \in newer' <=>
        \/ <<d, e>> \in newer /\ e # c
        \/ d = c /\ e \in Used /\ e # c
  BY <1>1
<1>3. fresh' \subseteq Used'
  BY <1>1 DEF Ordered
<1>4. \A d, e \in Convs : <<d, e>> \in newer' => e \in Used' /\ <<e, d>> \notin newer'
  BY <1>2 DEF Ordered
<1>5. \A d, e \in Convs : e \in fresh' /\ <<d, e>> \in newer' => d \in fresh'
  BY <1>1, <1>2 DEF Ordered
<1>6. \A d \in Used' \ {c} : <<c, d>> \in newer'
  BY <1>1
<1> QED
  BY <1>3, <1>4, <1>5, <1>6 DEF Ordered

LEMMA OrderOpened ==
  ASSUME Ordered, NEW c \in Convs, c \notin Used, Used' = Used \cup {c},
         newer' = newer \cup ({c} \X Used), fresh' = fresh \cup {c}
  PROVE  Ordered'
<1>1. \A d, e \in Convs : <<d, e>> \in newer' <=>
        <<d, e>> \in newer \/ (d = c /\ e \in Used)
  OBVIOUS
<1>2. fresh' \subseteq Used'
  BY DEF Ordered
<1>3. \A d, e \in Convs : <<d, e>> \in newer' => e \in Used' /\ <<e, d>> \notin newer'
  BY <1>1 DEF Ordered
<1>4. \A d, e \in Convs : e \in fresh' /\ <<d, e>> \in newer' => d \in fresh'
  BY <1>1 DEF Ordered
<1>5. \A d \in Used' \ {c} : <<c, d>> \in newer'
  OBVIOUS
<1> QED
  BY <1>2, <1>3, <1>4, <1>5 DEF Ordered

LEMMA OrderExpired ==
  ASSUME Ordered, NEW c \in Convs, Expire(c)
  PROVE  Ordered'
<1>1. /\ c \in fresh /\ fresh' = fresh \ {c} /\ newer' = newer /\ Used' = Used
      /\ \A d \in fresh \ {c} : <<d, c>> \in newer
  BY DEF Expire, Used
<1>2. \A d, e \in Convs : e \in fresh' /\ <<d, e>> \in newer' => d \in fresh'
  BY <1>1 DEF Ordered
<1> QED
  BY <1>1, <1>2 DEF Ordered

LEMMA UsedKept ==
  ASSUME TypeInv,
         \A c \in Convs : conv'[c].status = "unused" <=> conv[c].status = "unused"
  PROVE  Used' = Used
BY DEF Used

LEMMA OrderNext == OrderInv /\ [Next]_vars => OrderInv'
<1> SUFFICES ASSUME OrderInv, [Next]_vars PROVE Ordered'
  BY FlowNext DEF OrderInv
<1>1. /\ Ordered /\ TypeInv /\ conv \in [Convs -> Row] /\ job \in [Jobs -> Job]
      /\ \A w \in Jobs : job[w] \in Job /\ Ready(w, job[w]) /\ FlowFits(w)
      /\ \A w \in Workers \cup DelayWorkers : w \in Jobs
      /\ NULL \notin Convs
  BY RuntimeAssumption
     DEF OrderInv, FlowInv, TypeInv, TypeOK, JobsReady, Jobs, RuntimeAssumption
<1>2. CASE conv' = conv /\ newer' = newer /\ fresh' = fresh
  BY <1>1, <1>2, OrderKept DEF Used
<1>3. ASSUME NEW w \in Workers, RouteByKeyword(w) PROVE Ordered'
  <2>1. /\ newer' = newer /\ fresh' = fresh
        /\ conv' = IF job[w].conv = NULL THEN conv
                   ELSE [conv EXCEPT ![job[w].conv].status = "ABANDONED"]
    BY <1>3 DEF RouteByKeyword
  <2>2. job[w].conv # NULL => job[w].conv \in Convs /\ conv[job[w].conv].status # "unused"
    BY <1>1, <1>3 DEF RouteByKeyword, FlowFits, Job
  <2>3. \A c \in Convs : conv'[c].status = "unused" <=> conv[c].status = "unused"
    BY <1>1, <2>1, <2>2 DEF Row
  <2> QED
    BY <1>1, <2>1, <2>3, UsedKept, OrderKept
<1>4. ASSUME NEW w \in Workers, Open(w) PROVE Ordered'
  <2> DEFINE c == CHOOSE d \in Convs : d \notin Used
             row == [status |-> "ACTIVE", flow |-> job[w].flow,
                     state |-> EmptyState, opener |-> NULL]
  <2>1. /\ conv' = [conv EXCEPT ![c] = row]
        /\ newer' = newer \cup ({c} \X Used) /\ fresh' = fresh \cup {c}
        /\ c \in Convs /\ c \notin Used
    <3>1. \E d \in Convs : d \notin Used
      BY <1>4 DEF Open, Used
    <3> QED
      BY <1>4, <3>1, Zenon DEF Open
  <2>2. row.status = "ACTIVE"
    OBVIOUS
  <2> HIDE DEF c, row
  <2>3. Used' = Used \cup {c}
    BY <1>1, <2>1, <2>2 DEF Used
  <2> QED
    BY <1>1, <2>1, <2>3, OrderOpened
<1>5. ASSUME NEW w \in Workers, job[w].pc = "admit", NEW status \in Statuses \ {"unused"},
             Admit(w, status), Untouched \/ Touch(job[w].conv)
      PROVE  Ordered'
  <2>1. job[w].conv \in Used
    BY <1>1, <1>5 DEF Ready, FlowFits, Working, Used
  <2>2. conv' = [conv EXCEPT ![job[w].conv].status = status,
                   ![job[w].conv].opener = IF @ = NULL THEN job[w].text ELSE @]
    BY <1>5 DEF Admit
  <2>3. \A c \in Convs : conv'[c].status = "unused" <=> conv[c].status = "unused"
    BY <1>1, <1>5, <2>1, <2>2 DEF Row, Used
  <2> QED
    BY <1>1, <1>5, <2>1, <2>3, UsedKept, OrderKept, OrderTouched DEF Untouched
<1>6. ASSUME NEW w \in Workers,
             AdmitTooMany(w) \/ AdmitDuplicate(w) \/ AdmitFinished(w) \/ AdmitToRun(w)
      PROVE  Ordered'
  <2>1. job[w].pc = "admit" => conv[job[w].conv].status \in Statuses \ {"unused"}
    BY <1>1 DEF Ready, FlowFits, Working, Row, Statuses
  <2> QED
    BY <1>5, <1>6, <2>1 DEF AdmitTooMany, AdmitDuplicate, AdmitFinished, AdmitToRun, Statuses
<1>7. ASSUME NEW w \in Workers, RouteToPrevious(w) PROVE Ordered'
  <2>1. Latest(Used) \in Used /\ Touch(Latest(Used)) /\ Used' = Used
    BY <1>1, <1>7 DEF RouteToPrevious, CoolingDown, Ordered, Used
  <2> QED
    BY <1>1, <2>1, OrderTouched
<1>8. ASSUME NEW w \in Jobs, Save(w) PROVE Ordered'
  <2>1. /\ job[w].conv \in Used /\ Touch(job[w].conv)
        /\ conv' = [conv EXCEPT ![job[w].conv].state = job[w].next,
                      ![job[w].conv].status = StatusOf(job[w].next, job[w].waiting)]
    BY <1>1, <1>8 DEF Save, Ready, FlowFits, Working, Used
  <2>2. StatusOf(job[w].next, job[w].waiting) # "unused"
    BY DEF StatusOf
  <2>3. \A c \in Convs : conv'[c].status = "unused" <=> conv[c].status = "unused"
    BY <1>1, <2>1, <2>2 DEF Row, Used
  <2> QED
    BY <1>1, <2>1, <2>3, UsedKept, OrderTouched
<1>9. ASSUME NEW f \in FlowIds, DeleteFlow(f) PROVE Ordered'
  <2>1. \A c \in Convs : conv'[c].status = conv[c].status
    BY <1>1, <1>9 DEF DeleteFlow, Row
  <2> QED
    BY <1>1, <1>9, <2>1, UsedKept, OrderKept DEF DeleteFlow
<1>10. CASE \E w \in Workers : Inbound(w)
  <2> PICK w \in Workers : Inbound(w)
    BY <1>10
  <2>1. CASE \/ (\E text \in Texts : Receive(w, text)) \/ ReceiveAgain(w)
             \/ RouteNowhere(w) \/ RouteToRunning(w) \/ RouteToNew(w)
             \/ BookAgain(w) \/ BookSlot(w)
    <3>1. conv' = conv /\ newer' = newer /\ fresh' = fresh
      BY <2>1 DEF Receive, ReceiveAgain, ReadRows, RouteNowhere, RouteToRunning,
           RouteToNew, BookAgain, BookSlot, rowVars
    <3> QED
      BY <1>2, <3>1
  <2> QED
    BY <1>3, <1>4, <1>6, <1>7, <2>1 DEF Inbound
<1>11. CASE \E d \in DelayWorkers : Delayed(d)
  BY <1>2, <1>11 DEF Delayed, Fire, FireAgain, rowVars
<1>12. CASE \E w \in Jobs : Applying(w) \/ Crash(w)
  BY <1>2, <1>8, <1>12
     DEF Applying, Crash, RunFails, Run, RunToMenu, RunPastBooking, rowVars
<1>13. CASE \E c \in Convs : Expire(c)
  BY <1>1, <1>13, OrderExpired
<1>14. CASE SlideWindow \/ \E f \in FlowIds : ToggleFlow(f)
  BY <1>2, <1>14 DEF SlideWindow, ToggleFlow, rowVars
<1>15. CASE UNCHANGED vars
  BY <1>2, <1>15 DEF vars, rowVars
<1>16. CASE \E f \in FlowIds : DeleteFlow(f)
  BY <1>9, <1>16
<1> QED
  BY <1>10, <1>11, <1>12, <1>13, <1>14, <1>15, <1>16 DEF Next

\* When the last conversation is not within the cooldown, none is.
LEMMA NothingFresh ==
  ASSUME Ordered, ~CoolingDown
  PROVE  fresh = {}
<1>1. CASE Used = {}
  BY <1>1 DEF Ordered
<1>2. CASE Used # {}
  <2>1. \E c \in Used : \A d \in Used \ {c} : <<c, d>> \in newer
    BY <1>2 DEF Ordered
  <2>2. PICK c \in Used : Latest(Used) = c /\ \A d \in Used \ {c} : <<c, d>> \in newer
    BY <2>1 DEF Latest
  <2>3. c \in Convs /\ c \notin fresh /\ fresh \subseteq Used /\ Used \subseteq Convs
    BY <2>2 DEF CoolingDown, Ordered, Used
  <2>4. \A d \in fresh : <<c, d>> \in newer
    BY <2>2, <2>3
  <2> QED
    BY <2>3, <2>4 DEF Ordered
<1> QED
  BY <1>1, <1>2

LEMMA QuietTypes ==
  ASSUME Serial, QuietInv
  PROVE  /\ TypeInv /\ Ordered /\ OneActive
         /\ conv \in [Convs -> Row] /\ job \in [Jobs -> Job] /\ Jobs = Workers
         /\ \A c \in Convs : conv[c] \in Row /\ Alone(c) /\ GoesOn(c)
         /\ \A w \in Workers : /\ job[w] \in Job /\ Ready(w, job[w])
                               /\ Knows(w) /\ Aware(w)
         /\ \A v, w \in Workers : v = w
         /\ NULL \notin Convs
BY RuntimeAssumption
   DEF Serial, QuietInv, SerialInv, OrderInv, TypeInv, TypeOK, JobsReady, Jobs,
       RuntimeAssumption

RowsQuiet == \A c \in Convs : Alone(c) /\ GoesOn(c)

\* The rows stay quiet when none is opened, finished, or touched ...
LEMMA RowsStayQuiet ==
  ASSUME Serial, QuietInv, fresh' \subseteq fresh, asked' = asked,
         \A c \in Convs : conv'[c].status = "ACTIVE" =>
           conv[c].status = "ACTIVE" /\ conv'[c].state = conv[c].state,
         \A c \in Convs : conv'[c].status \in {"COMPLETED", "HANDOFF"} =>
           conv[c].status \in {"COMPLETED", "HANDOFF"}
  PROVE  RowsQuiet'
BY QuietTypes DEF RowsQuiet, Alone, GoesOn

\* ... and when none is in progress any more.
LEMMA NoneInProgress ==
  ASSUME \A c \in Convs : conv'[c].status # "ACTIVE"
  PROVE  RowsQuiet'
BY DEF RowsQuiet, Alone, GoesOn

LEMMA JobEndsQuietly ==
  ASSUME Serial, QuietInv, NEW w \in Workers, job'[w].pc \in {"idle", "load"}
  PROVE  Aware(w)'
BY DEF Aware, Working

LEMMA ReceiveQuietly ==
  ASSUME Serial, QuietInv, NEW w \in Workers, NEW text, ReadRows(w, text)
  PROVE  RowsQuiet' /\ Aware(w)'
<1> DEFINE row == IF LatestActive = NULL THEN UnusedRow ELSE conv[LatestActive]
           j == [IdleJob EXCEPT
                   !.pc = "route", !.text = text, !.conv = LatestActive, !.row = row,
                   !.contactFields = fields, !.hasSource = source # NULL]
<1>1. job' = [job EXCEPT ![w] = j] /\ UNCHANGED rowVars
  BY DEF ReadRows
<1>2. job'[w] = j
  BY <1>1, QuietTypes
<1>3. j.pc = "route" /\ j.conv = LatestActive /\ j.row = row /\ j.keyword = FALSE
  BY DEF IdleJob
<1> HIDE DEF j
<1>4. LatestActive # NULL => row = conv[LatestActive]
  OBVIOUS
<1> HIDE DEF row
<1>5. Aware(w)'
  BY <1>1, <1>2, <1>3, <1>4 DEF Aware, Working, rowVars
<1>6. RowsQuiet'
  BY <1>1, RowsStayQuiet DEF rowVars
<1> QED
  BY <1>5, <1>6

LEMMA RouteQuietly ==
  ASSUME Serial, QuietInv, NEW w \in Workers,
         \/ RouteByKeyword(w) \/ RouteNowhere(w) \/ RouteToRunning(w)
         \/ RouteToPrevious(w) \/ RouteToNew(w)
  PROVE  RowsQuiet' /\ Aware(w)'
<1>1. /\ job \in [Jobs -> Job] /\ job[w] \in Job /\ conv \in [Convs -> Row] /\ w \in Jobs
      /\ \A c \in Convs : conv[c] \in Row
      /\ Knows(w) /\ Aware(w) /\ job[w].pc = "route" /\ ~job[w].keyword
      /\ job[w].conv # NULL => job[w].conv \in Convs
  BY QuietTypes DEF RouteByKeyword, RouteNowhere, RouteToRunning, RouteToPrevious,
     RouteToNew, NotAKeyword, Aware, Job
<1>2. CASE RouteByKeyword(w)
  <2>1. /\ newer' = newer /\ fresh' = fresh /\ asked' = asked
        /\ conv' = IF job[w].conv = NULL THEN conv
                   ELSE [conv EXCEPT ![job[w].conv].status = "ABANDONED"]
        /\ job'[w].pc = "open" /\ job'[w].keyword = TRUE
    BY <1>1, <1>2 DEF RouteByKeyword, Job
  <2>2. \A c \in Convs : /\ conv'[c].state = conv[c].state
                         /\ conv'[c].status \in {conv[c].status, "ABANDONED"}
    BY <1>1, <2>1 DEF Row
  <2>3. RowsQuiet'
    BY <2>1, <2>2, RowsStayQuiet
  <2> QED
    BY <2>1, <2>3 DEF Aware, Working
<1>3. CASE RouteNowhere(w)
  <2>1. UNCHANGED rowVars /\ job'[w].pc = "idle"
    BY <1>1, <1>3 DEF RouteNowhere, Ends, IdleJob
  <2> QED
    BY <2>1, RowsStayQuiet, JobEndsQuietly DEF rowVars
<1>4. CASE RouteToRunning(w)
  <2>1. /\ UNCHANGED rowVars /\ job'[w].pc = "admit" /\ job'[w].keyword = FALSE
        /\ job'[w].conv = job[w].conv /\ job'[w].row = job[w].row
    BY <1>1, <1>4 DEF RouteToRunning, Job
  <2>2. Aware(w)'
    BY <1>1, <2>1 DEF Aware, Working, rowVars
  <2> QED
    BY <2>1, <2>2, RowsStayQuiet DEF rowVars
<1>5. CASE RouteToPrevious(w)
  <2>1. conv' = conv /\ job[w].conv = NULL /\ job'[w].pc = "idle"
    BY <1>1, <1>5 DEF RouteToPrevious, Ends, IdleJob
  <2>2. \A c \in Convs : conv[c].status # "ACTIVE"
    BY <1>1, <2>1, QuietTypes DEF Knows
  <2> QED
    BY <2>1, <2>2, NoneInProgress, JobEndsQuietly
<1>6. CASE RouteToNew(w)
  <2>1. /\ UNCHANGED rowVars /\ job'[w].pc = "open" /\ ~CoolingDown
    BY <1>1, <1>6 DEF RouteToNew, Job
  <2>2. fresh = {}
    BY <2>1, QuietTypes, NothingFresh
  <2>3. Aware(w)'
    BY <2>1, <2>2 DEF Aware, Working, rowVars
  <2> QED
    BY <2>1, <2>3, RowsStayQuiet DEF rowVars
<1> QED
  BY <1>2, <1>3, <1>4, <1>5, <1>6

LEMMA OpenQuietly ==
  ASSUME Serial, QuietInv, NEW w \in Workers, Open(w)
  PROVE  RowsQuiet' /\ Aware(w)'
<1> DEFINE c == CHOOSE d \in Convs : d \notin Used
           row == [status |-> "ACTIVE", flow |-> job[w].flow,
                   state |-> EmptyState, opener |-> NULL]
<1>1. job[w].pc = "open"
  BY DEF Open
<1>2. /\ conv' = [conv EXCEPT ![c] = row]
      /\ job' = [job EXCEPT ![w].pc = "admit", ![w].conv = c, ![w].row = row]
      /\ fresh' = fresh \cup {c}
      /\ asked' = IF job[w].keyword THEN asked \cup {c} ELSE asked
      /\ c \in Convs
  <2>1. \E d \in Convs : d \notin Used
    BY DEF Open, Used
  <2> QED
    BY <2>1, Zenon DEF Open
<1>3. row.status = "ACTIVE" /\ row.state = EmptyState
  OBVIOUS
<1> HIDE DEF c, row
<1>4. /\ \A d \in Convs : conv[d].status # "ACTIVE"
      /\ ~job[w].keyword => fresh = {}
  BY <1>1, QuietTypes DEF Knows, Aware
<1>5. /\ conv'[c] = row /\ \A d \in Convs \ {c} : conv'[d] = conv[d]
      /\ job'[w].pc = "admit" /\ job'[w].conv = c /\ job'[w].row = row
      /\ job'[w].keyword = job[w].keyword
  BY <1>2, QuietTypes DEF Job
<1>6. \A d \in Convs : Alone(d)'
  BY <1>2, <1>4, <1>5 DEF Alone
<1>7. \A d \in Convs : GoesOn(d)'
  BY <1>3, <1>4, <1>5 DEF GoesOn, EmptyState
<1>8. Aware(w)'
  BY <1>2, <1>3, <1>5 DEF Aware, Working
<1> QED
  BY <1>6, <1>7, <1>8 DEF RowsQuiet

LEMMA AdmitQuietly ==
  ASSUME Serial, QuietInv, NEW w \in Workers,
         AdmitTooMany(w) \/ AdmitDuplicate(w) \/ AdmitFinished(w) \/ AdmitToRun(w)
  PROVE  RowsQuiet' /\ Aware(w)'
<1>1. /\ job[w].pc = "admit" /\ job[w].conv \in Convs
      /\ conv[job[w].conv].status = "ACTIVE"
      /\ \A d \in Convs : conv[d].status = "ACTIVE" => d = job[w].conv
  BY QuietTypes
     DEF AdmitTooMany, AdmitDuplicate, AdmitFinished, AdmitToRun, Ready, Knows, OneActive
<1>2. ASSUME NEW status, Admit(w, status)
      PROVE  /\ conv'[job[w].conv].status = status /\ asked' = asked
             /\ \A d \in Convs : /\ conv'[d].state = conv[d].state
                                 /\ d # job[w].conv => conv'[d].status = conv[d].status
  BY <1>1, <1>2, QuietTypes DEF Admit, Row
<1>3. CASE AdmitTooMany(w) \/ AdmitDuplicate(w) \/ AdmitFinished(w)
  <2>1. PICK status \in {"HANDOFF", "COMPLETED"} : Admit(w, status)
    BY <1>3 DEF AdmitTooMany, AdmitDuplicate, AdmitFinished
  <2>2. job'[w].pc = "idle"
    BY <1>3, QuietTypes DEF AdmitTooMany, AdmitDuplicate, AdmitFinished, Ends, IdleJob
  <2>3. \A d \in Convs : conv'[d].status # "ACTIVE"
    BY <1>1, <1>2, <2>1
  <2> QED
    BY <2>2, <2>3, NoneInProgress, JobEndsQuietly
<1>4. CASE AdmitToRun(w)
  <2> DEFINE state == job[w].row.state
  <2>1. /\ Admit(w, conv[job[w].conv].status) /\ fresh' = fresh
        /\ state.awaiting = "booking" \/ ~AlreadyOver(job[w])
    BY <1>4 DEF AdmitToRun, Untouched
  <2>2. /\ asked' = asked
        /\ \A d \in Convs : /\ conv'[d].state = conv[d].state
                            /\ conv'[d].status = conv[d].status
    BY <1>2, <2>1
  <2>3. RowsQuiet'
    BY <2>1, <2>2, RowsStayQuiet
  <2>4. /\ job'[w].pc \in {"run", "book"} /\ job'[w].conv = job[w].conv
        /\ job'[w].row = job[w].row /\ job'[w].keyword = job[w].keyword
    BY <1>4, QuietTypes DEF AdmitToRun, GoesTo, Job
  <2>5. state = conv[job[w].conv].state /\ (job[w].keyword => job[w].conv \in asked)
    BY <1>1, QuietTypes DEF Aware, Working
  <2>6. ASSUME job[w].conv \notin asked PROVE state.status = "active"
    <3>1. state.status = "active" \/ (state.status = "completed" /\ state.awaiting = "none")
      BY <1>1, <2>5, QuietTypes DEF GoesOn
    <3>2. state.status # "completed" \/ state.awaiting # "none"
      BY <2>1, <2>5, <2>6 DEF AlreadyOver, RunOver
    <3> QED
      BY <3>1, <3>2
  <2>7. Aware(w)'
    BY <1>1, <2>2, <2>4, <2>5, <2>6 DEF Aware, Working
  <2> QED
    BY <2>3, <2>7
<1> QED
  BY <1>3, <1>4

LEMMA ApplyQuietly ==
  ASSUME Serial, QuietInv, NEW w \in Workers,
         \/ BookAgain(w) \/ BookSlot(w) \/ RunFails(w) \/ Run(w)
         \/ RunToMenu(w) \/ RunPastBooking(w)
  PROVE  RowsQuiet' /\ Aware(w)'
<1>1. Ends(w) \/ \E state, saved, waiting : ToSave(w, state, saved, waiting)
  BY Zenon DEF BookAgain, BookSlot, RunFails, Run, RunToMenu, RunPastBooking
<1>2. UNCHANGED rowVars /\ job[w].pc \in {"run", "book"}
  BY DEF BookAgain, BookSlot, RunFails, Run, RunToMenu, RunPastBooking
<1>3. RowsQuiet'
  BY <1>2, RowsStayQuiet DEF rowVars
<1>4. CASE Ends(w)
  <2>1. job'[w].pc = "idle"
    BY <1>4, QuietTypes DEF Ends, IdleJob
  <2> QED
    BY <1>3, <2>1, JobEndsQuietly
<1>5. CASE \E state, saved, waiting : ToSave(w, state, saved, waiting)
  <2>1. /\ job'[w].pc = "save" /\ job'[w].conv = job[w].conv
        /\ job'[w].keyword = job[w].keyword
    BY <1>5, QuietTypes DEF ToSave, Job
  <2>2. job[w].keyword => job[w].conv \in asked
    BY <1>2, QuietTypes DEF Aware, Working
  <2> QED
    BY <1>2, <1>3, <2>1, <2>2 DEF Aware, Working, rowVars
<1> QED
  BY <1>1, <1>4, <1>5

LEMMA SaveQuietly ==
  ASSUME Serial, QuietInv, NEW w \in Workers, Save(w)
  PROVE  RowsQuiet' /\ Aware(w)'
<1> DEFINE c == job[w].conv
<1>1. /\ job[w].pc = "save" /\ Touch(c) /\ asked' = asked /\ Ends(w)
      /\ conv' = [conv EXCEPT ![c].state = job[w].next,
                    ![c].status = StatusOf(job[w].next, job[w].waiting)]
  BY DEF Save
<1>2. /\ c \in Convs /\ conv[c].status = "ACTIVE"
      /\ \A d \in Convs : conv[d].status = "ACTIVE" => d = c
  BY <1>1, QuietTypes DEF Ready, Knows, OneActive
<1>3. /\ conv'[c].state = job[w].next
      /\ conv'[c].status = StatusOf(job[w].next, job[w].waiting)
      /\ \A d \in Convs \ {c} : conv'[d] = conv[d]
  BY <1>1, <1>2, QuietTypes DEF Row
<1>4. job'[w].pc = "idle"
  BY <1>1, QuietTypes DEF Ends, IdleJob
<1>5. fresh' = fresh \cup {c}
  BY <1>1 DEF Touch
<1> HIDE DEF c
<1>6. \A d \in Convs : Alone(d)'
  BY <1>1, <1>2, <1>3, <1>5, QuietTypes DEF Alone
<1>7. \A d \in Convs : GoesOn(d)'
  <2>1. StatusOf(job[w].next, job[w].waiting) = "ACTIVE" => job[w].next.status = "active"
    BY QuietTypes DEF StatusOf, Job, FlowState
  <2> QED
    BY <1>2, <1>3, <2>1 DEF GoesOn
<1> QED
  BY <1>4, <1>6, <1>7, JobEndsQuietly DEF RowsQuiet

\* The rest: the worker dies, time passes, the business edits its flows.
LEMMA OthersQuiet ==
  ASSUME Serial, QuietInv,
         \/ \E w \in Jobs : Crash(w)
         \/ \E c \in Convs : Expire(c)
         \/ SlideWindow
         \/ \E f \in FlowIds : ToggleFlow(f) \/ DeleteFlow(f)
         \/ UNCHANGED vars
  PROVE  RowsQuiet' /\ \A w \in Workers : Aware(w)'
<1>1. ASSUME NEW w \in Jobs, Crash(w) PROVE RowsQuiet' /\ \A v \in Workers : Aware(v)'
  <2>1. UNCHANGED rowVars /\ job'[w].pc = "load"
    BY <1>1, QuietTypes DEF Crash, IdleJob
  <2>2. \A v \in Workers : job'[v].pc = "load"
    BY <2>1, QuietTypes
  <2> QED
    BY <2>1, <2>2, RowsStayQuiet, JobEndsQuietly DEF rowVars
<1>2. ASSUME NEW c \in Convs, Expire(c) PROVE RowsQuiet' /\ \A v \in Workers : Aware(v)'
  <2>1. /\ conv' = conv /\ asked' = asked /\ fresh' \subseteq fresh /\ job' = job
        /\ \A v \in Workers : job[v].pc = "idle"
    BY <1>2, QuietTypes DEF Expire
  <2> QED
    BY <2>1, RowsStayQuiet, JobEndsQuietly
<1>3. ASSUME NEW f \in FlowIds, DeleteFlow(f)
      PROVE  RowsQuiet' /\ \A v \in Workers : Aware(v)'
  <2>1. /\ fresh' = fresh /\ asked' = asked /\ job' = job
        /\ \A c \in Convs : conv'[c].state = conv[c].state /\ conv'[c].status = conv[c].status
    BY <1>3, QuietTypes DEF DeleteFlow, Row
  <2>2. \A v \in Workers : job[v].conv # NULL => job[v].conv \in Convs
    BY QuietTypes DEF Job
  <2>3. \A v \in Workers : Aware(v)'
    BY <2>1, <2>2, QuietTypes DEF Aware
  <2> QED
    BY <2>1, <2>3, RowsStayQuiet
<1>4. ASSUME UNCHANGED rowVars, job' = job PROVE RowsQuiet' /\ \A v \in Workers : Aware(v)'
  <2>1. conv' = conv /\ fresh' = fresh /\ asked' = asked
    BY <1>4 DEF rowVars
  <2>2. \A v \in Workers : Aware(v)'
    BY <1>4, <2>1, QuietTypes DEF Aware
  <2> QED
    BY <2>1, <2>2, RowsStayQuiet
<1>5. CASE SlideWindow \/ \E f \in FlowIds : ToggleFlow(f)
  BY <1>4, <1>5 DEF SlideWindow, ToggleFlow
<1>6. CASE UNCHANGED vars
  BY <1>4, <1>6 DEF vars
<1> QED
  BY <1>1, <1>2, <1>3, <1>5, <1>6

LEMMA QuietNext ==
  ASSUME Serial, QuietInv, [Next]_vars
  PROVE  QuietInv'
<1>1. SerialInv' /\ OrderInv'
  BY SerialNext, OrderNext DEF QuietInv
<1> SUFFICES RowsQuiet' /\ \A w \in Workers : Aware(w)'
  BY <1>1 DEF QuietInv, RowsQuiet
<1>2. ASSUME NEW w \in Workers, Inbound(w) \/ Applying(w) PROVE RowsQuiet' /\ Aware(w)'
  BY <1>2, ReceiveQuietly, RouteQuietly, OpenQuietly, AdmitQuietly, ApplyQuietly, SaveQuietly
     DEF Inbound, Applying, Receive, ReceiveAgain
<1>3. ASSUME NEW w \in Workers, Inbound(w) \/ Applying(w)
      PROVE  RowsQuiet' /\ \A v \in Workers : Aware(v)'
  <2>1. \A v \in Workers : v = w
    BY QuietTypes
  <2> QED
    BY <1>2, <1>3, <2>1
<1>4. DelayWorkers = {} /\ Jobs = Workers
  BY DEF Serial, Jobs
<1>5. CASE \E w \in Workers : Inbound(w)
  BY <1>3, <1>5
<1>6. CASE \E w \in Jobs : Applying(w) \/ Crash(w)
  BY <1>3, <1>4, <1>6, OthersQuiet
<1>7. CASE \/ \E c \in Convs : Expire(c)
           \/ SlideWindow
           \/ \E f \in FlowIds : ToggleFlow(f) \/ DeleteFlow(f)
  BY <1>7, OthersQuiet
<1>8. CASE UNCHANGED vars
  BY <1>8, OthersQuiet
<1> QED
  BY <1>4, <1>5, <1>6, <1>7, <1>8 DEF Next

LEMMA QuietInit ==
  ASSUME Serial
  PROVE  Init => QuietInv
<1> SUFFICES ASSUME Init PROVE QuietInv
  OBVIOUS
<1>1. SerialInv /\ TypeInv /\ \A w \in Jobs : job[w] = IdleJob
  BY SerialInit DEF SerialInv, Init
<1>2. /\ newer = {} /\ asked = {}
      /\ \A c, d \in Used : c = d
      /\ fresh \subseteq Used
      /\ \A c \in Convs : conv[c].status = "ACTIVE" => conv[c] = LegacyRow
      /\ \A c \in Convs : conv[c].status \in {"unused", "ACTIVE"}
  BY RuntimeAssumption DEF Init, RuntimeAssumption, Used, LegacyRow, UnusedRow
<1>3. \A w \in Jobs : FlowFits(w) /\ (w \in Workers => Aware(w))
  BY <1>1 DEF FlowFits, Aware, IdleJob, Working
<1>4. Ordered
  BY <1>2 DEF Ordered
<1>5. \A c \in Convs : Alone(c) /\ GoesOn(c)
  BY <1>2 DEF Alone, GoesOn, LegacyRow, EmptyState
<1>6. Workers \subseteq Jobs
  BY DEF Jobs
<1> QED
  BY <1>1, <1>3, <1>4, <1>5, <1>6 DEF QuietInv, OrderInv, FlowInv

\* One message at a time, and no timers: once a run of the contact has finished,
\* and the cooldown lasts, only a keyword makes the script answer again; so it is
\* after crashes, retries and deletions of flows too (process-inbound.ts:46-49).
THEOREM SilentAfterTheEnd ==
  ASSUME Serial
  PROVE  Spec => QuietAfterFinish
<1>1. Init => QuietInv
  BY QuietInit
<1>2. ASSUME Serial, QuietInv, [Next]_vars PROVE QuietInv'
  BY <1>2, QuietNext
<1>3. ASSUME QuietInv, NEW w \in Workers, Replies(w), job[w].conv \notin asked
      PROVE  ~\E d \in Convs : FinishedLately(d)
  <2> SUFFICES ASSUME NEW d \in Convs, FinishedLately(d) PROVE FALSE
    OBVIOUS
  <2> DEFINE c == job[w].conv
  <2>1. /\ job[w].pc \in {"run", "book"} /\ c \in Convs /\ c # NULL
        /\ conv[c].status = "ACTIVE" /\ conv[c].state.status = "active"
        /\ \A e \in Convs : conv[e].status = "ACTIVE" => e = c
    BY <1>3, QuietTypes DEF Replies, Ready, Knows, OneActive, Aware
  <2>2. CASE d = c
    BY <2>1, <2>2 DEF FinishedLately
  <2>3. CASE d # c
    BY <1>3, <2>1, <2>3, QuietTypes DEF FinishedLately, Alone
  <2> QED
    BY <2>2, <2>3
<1>4. QuietInv => \A w \in Workers : Replies(w) =>
                    \/ job[w].conv \in asked
                    \/ ~\E d \in Convs : FinishedLately(d)
  BY <1>3
<1> QED
  BY <1>1, <1>2, <1>4, PTL DEF Spec, QuietAfterFinish

-------------------------------------------------------------------------------
(* A job amounts to one exchange of Dialogue *)

\* A run that is live after a call has a node, and waits for the lead or for the
\* clock; one that has asked for a booking waits for the lead.
Settled(result) ==
  /\ result.state.status = "active" =>
       /\ result.state.node # NULL
       /\ result.awaitingInput \/ result.state.awaiting = "delay"
  /\ Emits(result.actions, "book_appointment") => result.awaitingInput

\* A walk leaves a run live only where something can be waited for.
LEMMA StateAtSettles ==
  ASSUME NEW flow, IsFlowDefinition(flow), NEW state \in FlowState, NEW at,
         at = NULL \/ ~Passes(flow, at), StateAt(flow, state, at).status = "active"
  PROVE  /\ StateAt(flow, state, at).node # NULL
         /\ AwaitsInput(flow, at) \/ StateAt(flow, state, at).awaiting = "delay"
<1> DEFINE node == flow.nodes[at]
<1>1. NULL \notin DOMAIN flow.nodes
  BY EngineAssumption DEF EngineAssumption, IsFlowDefinition
<1>2. at # NULL /\ at \in DOMAIN flow.nodes
  BY DEF StateAt, Finish, FlowState
<1>3. IsFlowNode(node) /\ ~Passes(flow, at)
  BY <1>2 DEF IsFlowDefinition
<1>4. node.type = "question" \/ node.type = "delay" \/ IsBooking(node) \/ IsFinal(node)
  BY <1>2, <1>3 DEF Passes, IsFlowNode, MessageNode, QuestionNode, DelayNode,
                    ConditionNode, ActionNode, IsBooking, IsFinal
<1>5. CASE node.type = "question"
  <2>1. StateAt(flow, state, at) = [state EXCEPT !.node = at, !.retries = 0, !.status = "active"]
    BY <1>2, <1>5 DEF StateAt, IsQuestion, IsBooking
  <2>2. AwaitsInput(flow, at)
    BY <1>2, <1>5 DEF AwaitsInput, IsQuestion
  <2> QED
    BY <1>2, <2>1, <2>2 DEF FlowState
<1>6. CASE node.type = "delay"
  <2>1. StateAt(flow, state, at) = Pause(flow, state, at, "delay")
    BY <1>2, <1>6 DEF StateAt, IsQuestion, IsBooking
  <2> QED
    BY <1>2, <2>1 DEF Pause, FlowState
<1>7. CASE IsBooking(node)
  <2>1. StateAt(flow, state, at) = Pause(flow, state, at, "booking")
    BY <1>2, <1>7 DEF StateAt, IsQuestion, IsBooking
  <2>2. AwaitsInput(flow, at)
    BY <1>2, <1>7 DEF AwaitsInput
  <2> QED
    BY <1>2, <2>1, <2>2 DEF Pause, FlowState
<1>8. CASE IsFinal(node)
  BY <1>2, <1>8 DEF StateAt, Finish, IsFinal, IsQuestion, IsBooking, FlowState
<1> QED
  BY <1>4, <1>5, <1>6, <1>7, <1>8

LEMMA WalkSettles ==
  ASSUME NEW flow, IsFlowDefinition(flow), NEW state \in FlowState,
         NEW first, first.kind # "book_appointment", ~Walk(flow, state, first).throws
  PROVE  Settled(Walk(flow, state, first))
<1>1. PICK path : \E last \in 0..GUARD_MAX :
        /\ \A n \in 0..GUARD_MAX : n < last => Passes(flow, path[n])
        /\ path[last] = NULL \/ (last < GUARD_MAX /\ ~Passes(flow, path[last]))
        /\ Walk(flow, state, first) =
             [throws |-> FALSE,
              state |-> StateAt(flow, state, path[last]),
              actions |-> WalkEffects(flow, path, last, first),
              awaitingInput |-> AwaitsInput(flow, path[last])]
  BY WalkStops
<1>2. PICK last \in 0..GUARD_MAX :
        /\ \A n \in 0..GUARD_MAX : n < last => Passes(flow, path[n])
        /\ path[last] = NULL \/ (last < GUARD_MAX /\ ~Passes(flow, path[last]))
        /\ Walk(flow, state, first) =
             [throws |-> FALSE,
              state |-> StateAt(flow, state, path[last]),
              actions |-> WalkEffects(flow, path, last, first),
              awaitingInput |-> AwaitsInput(flow, path[last])]
  BY <1>1
<1> DEFINE at == path[last]
           acts == WalkEffects(flow, path, last, first)
<1>3. GUARD_MAX \in Nat
  BY EngineAssumption DEF EngineAssumption
<1>4. /\ Walk(flow, state, first).state = StateAt(flow, state, at)
      /\ Walk(flow, state, first).actions = acts
      /\ Walk(flow, state, first).awaitingInput = AwaitsInput(flow, at)
  BY <1>2
<1>5. StateAt(flow, state, at).status = "active" =>
        /\ StateAt(flow, state, at).node # NULL
        /\ AwaitsInput(flow, at) \/ StateAt(flow, state, at).awaiting = "delay"
  BY <1>2, StateAtSettles
<1>6. ASSUME NEW n \in DOMAIN acts, acts[n].kind = "book_appointment"
      PROVE  AwaitsInput(flow, at)
  <2>1. n \in 0..GUARD_MAX
    BY DEF WalkEffects
  <2>2. n # 0
    BY <1>6, <2>1 DEF WalkEffects
  <2>3. n - 1 \in 0..GUARD_MAX
    BY <1>3, <2>1, <2>2
  <2>4. n - 1 <= last /\ path[n - 1] \in DOMAIN flow.nodes
        /\ acts[n] = EffectOf(path[n - 1], flow.nodes[path[n - 1]])
    BY <1>6, <2>1, <2>2 DEF WalkEffects, NoEffect
  <2>5. IsFlowNode(flow.nodes[path[n - 1]])
    BY <2>4 DEF IsFlowDefinition
  <2>6. IsBooking(flow.nodes[path[n - 1]])
    BY <1>6, <2>4, <2>5, BookingEffect
  <2>7. ~Passes(flow, path[n - 1])
    BY <2>6 DEF Passes, IsBooking
  <2>8. n - 1 = last
    BY <1>2, <2>3, <2>4, <2>7
  <2> QED
    BY <2>4, <2>6, <2>8 DEF AwaitsInput
<1>7. Emits(acts, "book_appointment") => AwaitsInput(flow, at)
  BY <1>6 DEF Emits
<1> HIDE DEF at, acts
<1> QED
  BY <1>4, <1>5, <1>7 DEF Settled

LEMMA StartSettles ==
  ASSUME NEW flow, IsFlowDefinition(flow), ~Start(flow).throws
  PROVE  Settled(Start(flow))
<1>1. [EmptyState EXCEPT !.node = flow.start] \in FlowState
  BY EmptyStateType DEF FlowState, IsFlowDefinition, Target
<1>2. NoEffect.kind # "book_appointment"
  BY DEF NoEffect
<1> QED
  BY <1>1, <1>2, WalkSettles DEF Start

LEMMA ResumeBookingSettles ==
  ASSUME NEW flow, IsFlowDefinition(flow), NEW state \in FlowState,
         ~ResumeBooking(flow, state).throws
  PROVE  Settled(ResumeBooking(flow, state))
<1>1. [Resumed(state) EXCEPT !.offered = 0] \in FlowState
  BY ResumedUnpaused
<1>2. NoEffect.kind # "book_appointment"
  BY DEF NoEffect
<1> QED
  BY <1>1, <1>2, WalkSettles DEF ResumeBooking

\* A message to a live run that is not in a booking menu.
LEMMA StepSettles ==
  ASSUME NEW flow, IsFlowDefinition(flow), NEW state \in FlowState, NEW text \in Texts,
         ~IsOver(state), state.awaiting # "booking", ~Step(flow, state, text).throws
  PROVE  Settled(Step(flow, state, text))
<1> DEFINE node == flow.nodes[state.node]
           atQuestion == state.node \in DOMAIN flow.nodes /\ IsQuestion(node)
<1>1. NoEffect.kind # "book_appointment"
  BY DEF NoEffect
<1>2. CASE state.awaiting = "delay"
  <2>1. Step(flow, state, text) = Walk(flow, Resumed(state), NoEffect)
    BY <1>2 DEF Step, ResumeDelay
  <2> QED
    BY <1>1, <2>1, ResumedUnpaused, WalkSettles
<1>3. CASE state.awaiting # "delay" /\ ~atQuestion
  <2>1. Step(flow, state, text) = Walk(flow, [state EXCEPT !.retries = 0], NoEffect)
    BY <1>3 DEF Step
  <2>2. [state EXCEPT !.retries = 0] \in FlowState
    BY DEF FlowState
  <2> QED
    BY <1>1, <2>1, <2>2, WalkSettles
<1>4. CASE state.awaiting # "delay" /\ atQuestion
  <2> DEFINE value == Coerce(text, node)
             first == [kind |-> "save_field", node |-> NULL,
                       field |-> node.field, value |-> value]
             answered == [state EXCEPT !.answers[node.field] = value, !.retries = 0,
                                       !.node = Branch(node, value)]
             prompt == [NoEffect EXCEPT !.kind = "send_message", !.node = state.node]
             over == [NoEffect EXCEPT !.kind = "handoff_to_human"]
             again == [state EXCEPT !.retries = @ + 1]
             handed == [state EXCEPT !.retries = @ + 1, !.status = "handoff"]
  <2>1. node \in QuestionNode
    BY <1>4, QuestionType
  <2>2. value \in Answer /\ Branch(node, value) \in Target /\ node.field \in Fields
    BY <2>1, CoerceType, BranchType DEF QuestionNode
  <2>3. Step(flow, state, text) = IF value = NULL THEN Refused(state)
                                  ELSE Answered(flow, state, node, value)
    BY <1>4 DEF Step
  <2>4. answered \in FlowState
    BY <2>2 DEF FlowState
  <2>5. Answered(flow, state, node, value) = Walk(flow, answered, first)
    BY DEF Answered
  <2>6. /\ first.kind # "book_appointment" /\ prompt.kind # "book_appointment"
        /\ over.kind # "book_appointment"
    BY DEF NoEffect
  <2>7. again.node # NULL /\ handed.status = "handoff"
    BY DEF FlowState, IsOver
  <2>8. Refused(state) \in {Quietly(handed, over, FALSE), Quietly(again, prompt, TRUE)}
    BY Zenon DEF Refused
  <2> HIDE DEF value, first, answered, prompt, over, again, handed
  <2>9. Settled(Quietly(handed, over, FALSE))
    <3>1. ~Emits(Quietly(handed, over, FALSE).actions, "book_appointment")
      BY <1>1, <2>6 DEF Quietly, Emits
    <3>2. Quietly(handed, over, FALSE).state = handed
      BY DEF Quietly
    <3> QED
      BY <2>7, <3>1, <3>2 DEF Settled
  <2>12. Settled(Quietly(again, prompt, TRUE))
    <3>1. Quietly(again, prompt, TRUE).awaitingInput
      BY DEF Quietly
    <3>2. Quietly(again, prompt, TRUE).state = again
      BY DEF Quietly
    <3> QED
      BY <2>7, <3>1, <3>2 DEF Settled
  <2>10. CASE value = NULL
    BY <2>3, <2>8, <2>9, <2>10, <2>12, Zenon
  <2>11. CASE value # NULL
    BY <2>3, <2>4, <2>5, <2>6, <2>11, WalkSettles
  <2> QED
    BY <2>10, <2>11
<1> QED
  BY <1>2, <1>3, <1>4

\* Of such a run persist() stores the status it calls for.
LEMMA StatusStands ==
  ASSUME NEW state \in FlowState, NEW waiting,
         state.status = "active" =>
           state.node # NULL /\ (waiting \/ state.awaiting = "delay")
  PROVE  StatusOf(state, waiting) = Standing(state)
BY DEF StatusOf, Standing, FlowState

\* What the one job knows of the row it is going to save.
Answering(w) ==
  LET j == job[w] IN
  /\ j.pc = "admit" /\ j.keyword => j.row.state = EmptyState
  /\ j.pc \in {"run", "book"} =>
       /\ j.row.state.status = "active"
       /\ j.pc = "book" <=> j.row.state.awaiting = "booking"
  /\ j.pc = "save" =>
       /\ [run |-> j.next, saved |-> j.saved]
            \in Outcomes(j.flow, conv[j.conv].state, j.text)
       /\ StatusOf(j.next, j.waiting) = Standing(j.next)

ExchangeInv == QuietInv /\ FieldsInv /\ \A w \in Workers : Answering(w)

LEMMA ExchangeTypes ==
  ASSUME Serial, ExchangeInv, NEW w \in Workers
  PROVE  /\ job[w] \in Job /\ w \in Jobs /\ w \notin DelayWorkers /\ Ready(w, job[w])
         /\ job[w].row.state \in FlowState /\ Knows(w) /\ Aware(w) /\ Answering(w)
<1>1. /\ job[w] \in Job /\ Ready(w, job[w]) /\ Knows(w) /\ Aware(w) /\ Answering(w)
  BY QuietTypes DEF ExchangeInv
<1>2. job[w].row.state \in FlowState
  BY <1>1 DEF Job, Row
<1> QED
  BY <1>1, <1>2 DEF Serial, Jobs

\* A job that hands on what its flow makes of the row.
LEMMA OutcomeSaved ==
  ASSUME Serial, ExchangeInv, NEW w \in Workers, job[w].pc \in {"run", "book"},
         NEW state \in FlowState, NEW saved, NEW waiting,
         ToSave(w, state, saved, waiting), conv' = conv,
         [run |-> state, saved |-> saved]
           \in Outcomes(job[w].flow, job[w].row.state, job[w].text),
         state.status = "active" =>
           state.node # NULL /\ (waiting \/ state.awaiting = "delay")
  PROVE  Answering(w)'
<1> DEFINE j == [job[w] EXCEPT !.pc = "save", !.next = state, !.saved = saved,
                               !.waiting = waiting]
<1>1. job[w] \in Job /\ w \in Jobs /\ job \in [Jobs -> Job]
  BY ExchangeTypes, QuietTypes DEF ExchangeInv
<1>2. job'[w] = j
  BY <1>1 DEF ToSave
<1>3. /\ j.pc = "save" /\ j.next = state /\ j.saved = saved /\ j.waiting = waiting
      /\ j.flow = job[w].flow /\ j.conv = job[w].conv /\ j.text = job[w].text
  BY <1>1 DEF Job
<1> HIDE DEF j
<1>4. job[w].row.state = conv[job[w].conv].state
  <2>1. Aware(w) /\ job[w].conv # NULL
    BY ExchangeTypes, RuntimeAssumption DEF Ready, RuntimeAssumption
  <2> QED
    BY <2>1 DEF Aware
<1>5. StatusOf(state, waiting) = Standing(state)
  BY StatusStands
<1> QED
  BY <1>2, <1>3, <1>4, <1>5 DEF Answering

\* What the engine makes of a live run that is not in a booking menu.
LEMMA EngineSettles ==
  ASSUME Serial, ExchangeInv, NEW w \in Workers, job[w].pc = "run", ~EngineResult(w).throws
  PROVE  /\ IsResult(EngineResult(w)) /\ Settled(EngineResult(w))
         /\ Outcomes(job[w].flow, job[w].row.state, job[w].text)
              = RunOutcomes(job[w].flow, EngineResult(w))
<1> DEFINE state == job[w].row.state
<1>1. /\ w \in Jobs /\ w \notin DelayWorkers /\ job[w].text \in Texts
      /\ IsFlowDefinition(Flow[job[w].flow]) /\ state \in FlowState
      /\ state.status = "active" /\ state.awaiting # "booking"
  BY ExchangeTypes, FlowType DEF Ready, Answering
<1>2. IsResult(EngineResult(w))
  BY <1>1, EngineResultType, QuietTypes DEF ExchangeInv
<1>3. EngineResult(w) = IF RunOver(state) THEN Start(Flow[job[w].flow])
                        ELSE Step(Flow[job[w].flow], state, job[w].text)
  BY <1>1 DEF EngineResult
<1>4. Settled(EngineResult(w))
  BY <1>1, <1>3, StartSettles, StepSettles DEF RunOver, IsOver
<1>5. Outcomes(job[w].flow, state, job[w].text) = RunOutcomes(job[w].flow, EngineResult(w))
  BY <1>1, <1>3 DEF Outcomes
<1> QED
  BY <1>2, <1>4, <1>5

LEMMA RunAnswers ==
  ASSUME Serial, ExchangeInv, NEW w \in Workers, Run(w)
  PROVE  Answering(w)'
<1> DEFINE result == EngineResult(w)
<1>1. /\ job[w].pc = "run" /\ ~result.throws /\ ~Emits(result.actions, "book_appointment")
      /\ ToSave(w, result.state, SavedBy(result.actions), result.awaitingInput)
      /\ conv' = conv
  BY DEF Run, rowVars
<1>2. /\ IsResult(result) /\ Settled(result)
      /\ Outcomes(job[w].flow, job[w].row.state, job[w].text)
           = RunOutcomes(job[w].flow, result)
  BY <1>1, EngineSettles
<1> HIDE DEF result
<1>3. [run |-> result.state, saved |-> SavedBy(result.actions)]
        \in Outcomes(job[w].flow, job[w].row.state, job[w].text)
  BY <1>1, <1>2 DEF RunOutcomes, Outcome
<1> QED
  BY <1>1, <1>2, <1>3, OutcomeSaved DEF IsResult, Settled

LEMMA MenuAnswers ==
  ASSUME Serial, ExchangeInv, NEW w \in Workers, RunToMenu(w)
  PROVE  Answering(w)'
<1> DEFINE result == EngineResult(w)
           menu == [result.state EXCEPT !.offered = OFFER_COUNT]
<1>1. /\ job[w].pc = "run" /\ ~result.throws /\ Emits(result.actions, "book_appointment")
      /\ ToSave(w, menu, SavedBy(result.actions), result.awaitingInput)
      /\ conv' = conv /\ "slots" \in BookingOutcomes
  BY DEF RunToMenu, rowVars
<1>2. /\ IsResult(result) /\ Settled(result)
      /\ Outcomes(job[w].flow, job[w].row.state, job[w].text)
           = RunOutcomes(job[w].flow, result)
  BY <1>1, EngineSettles
<1> HIDE DEF result
<1>3. /\ menu \in FlowState /\ menu.status = result.state.status
      /\ menu.node = result.state.node /\ menu.awaiting = result.state.awaiting
  BY <1>2, RuntimeAssumption DEF IsResult, FlowState, RuntimeAssumption
<1>4. [run |-> menu, saved |-> SavedBy(result.actions)]
        \in Outcomes(job[w].flow, job[w].row.state, job[w].text)
  BY <1>1, <1>2 DEF RunOutcomes, MenuOutcomes, Outcome
<1> HIDE DEF menu
<1> QED
  BY <1>1, <1>2, <1>3, <1>4, OutcomeSaved DEF Settled

\* A run past its booking is live only if the lead is to answer: the call that
\* asked for the booking says so.
LEMMA PastBookingAnswers ==
  ASSUME Serial, ExchangeInv, NEW w \in Workers, RunPastBooking(w), ~Ends(w)
  PROVE  Answering(w)'
<1> DEFINE result == EngineResult(w)
           past == ResumeBooking(Flow[job[w].flow], result.state)
<1>1. /\ job[w].pc = "run" /\ ~result.throws /\ Emits(result.actions, "book_appointment")
      /\ ~past.throws
      /\ ToSave(w, past.state, SavedBy(result.actions), result.awaitingInput)
      /\ conv' = conv /\ BookingOutcomes \cap {"link", "none"} # {}
  BY DEF RunPastBooking, rowVars
<1>2. /\ IsResult(result) /\ Settled(result)
      /\ Outcomes(job[w].flow, job[w].row.state, job[w].text)
           = RunOutcomes(job[w].flow, result)
  BY <1>1, EngineSettles
<1> HIDE DEF result
<1>3. IsFlowDefinition(Flow[job[w].flow]) /\ result.state \in FlowState
  BY <1>1, <1>2, ExchangeTypes, FlowType DEF Ready, IsResult
<1>4. past.state \in FlowState /\ Settled(past)
  BY <1>1, <1>3, ResumeBookingResult, ResumeBookingSettles DEF IsResult
<1>5. [run |-> past.state, saved |-> SavedBy(result.actions)]
        \in Outcomes(job[w].flow, job[w].row.state, job[w].text)
  BY <1>1, <1>2 DEF RunOutcomes, MenuOutcomes, Outcome
<1> HIDE DEF past
<1>6. result.awaitingInput
  BY <1>1, <1>2 DEF Settled
<1> QED
  BY <1>1, <1>4, <1>5, <1>6, OutcomeSaved DEF Settled

LEMMA BookedAnswers ==
  ASSUME Serial, ExchangeInv, NEW w \in Workers, BookSlot(w), ~Ends(w)
  PROVE  Answering(w)'
<1> DEFINE state == job[w].row.state
           past == ResumeBooking(Flow[job[w].flow], state)
<1>1. /\ job[w].pc = "book" /\ Picked(job[w]) /\ ~past.throws
      /\ ToSave(w, past.state, SavedBy(past.actions), past.awaitingInput)
      /\ conv' = conv
  BY DEF BookSlot, rowVars
<1>2. /\ IsFlowDefinition(Flow[job[w].flow]) /\ state \in FlowState
      /\ state.status = "active" /\ state.awaiting = "booking"
  BY <1>1, ExchangeTypes, FlowType DEF Ready, Answering
<1>3. past.state \in FlowState /\ Settled(past)
  BY <1>1, <1>2, ResumeBookingResult, ResumeBookingSettles DEF IsResult
<1>4. [run |-> past.state, saved |-> SavedBy(past.actions)]
        \in BookedOutcomes(job[w].flow, state, job[w].text)
  BY <1>1 DEF BookedOutcomes, Outcome, Picked
<1>5. BookedOutcomes(job[w].flow, state, job[w].text) = Outcomes(job[w].flow, state, job[w].text)
  BY <1>2 DEF Outcomes
<1> HIDE DEF past
<1> QED
  BY <1>1, <1>3, <1>4, <1>5, OutcomeSaved DEF Settled

\* A job that does not move, or has no row to answer for yet.
LEMMA AnswersCarried ==
  ASSUME Serial, ExchangeInv, NEW w \in Workers,
         \/ job'[w].pc \in {"idle", "load", "route", "open"}
         \/ /\ job'[w] = job[w]
            /\ \A c \in Convs : conv'[c].state = conv[c].state
  PROVE  Answering(w)'
<1>1. Ready(w, job[w]) /\ Answering(w)
  BY ExchangeTypes
<1>2. CASE job'[w].pc \in {"idle", "load", "route", "open"}
  BY <1>2 DEF Answering
<1>3. CASE job'[w] = job[w] /\ \A c \in Convs : conv'[c].state = conv[c].state
  BY <1>1, <1>3 DEF Answering, Ready
<1> QED
  BY <1>2, <1>3

LEMMA AdmitAnswers ==
  ASSUME Serial, ExchangeInv, NEW w \in Workers, AdmitToRun(w)
  PROVE  Answering(w)'
<1> DEFINE state == job[w].row.state
<1>1. /\ job[w] \in Job /\ job \in [Jobs -> Job] /\ w \in Jobs /\ Ready(w, job[w])
      /\ Knows(w) /\ Aware(w) /\ Answering(w) /\ \A c \in Convs : GoesOn(c)
      /\ state \in FlowState /\ NULL \notin Convs
  BY ExchangeTypes, QuietTypes DEF ExchangeInv
<1>2. /\ job[w].pc = "admit"
      /\ state.awaiting = "booking" \/ ~AlreadyOver(job[w])
      /\ job'[w].pc = IF state.awaiting = "booking" THEN "book" ELSE "run"
      /\ job'[w].row = job[w].row
  BY <1>1 DEF AdmitToRun, GoesTo, Job
<1>3. /\ job[w].conv \in Convs /\ conv[job[w].conv].status = "ACTIVE"
      /\ state = conv[job[w].conv].state
  <2>1. job[w].conv \in Convs /\ conv[job[w].conv].status = "ACTIVE"
    BY <1>1, <1>2 DEF Ready, Knows
  <2> QED
    BY <1>1, <1>2, <2>1 DEF Aware
<1>4. state.status = "active"
  <2>1. state.status = "active" \/ (state.status = "completed" /\ state.awaiting = "none")
    BY <1>1, <1>3 DEF GoesOn
  <2>2. CASE job[w].keyword
    <3>1. state = EmptyState
      BY <1>1, <1>2, <2>2 DEF Answering
    <3> QED
      BY <3>1 DEF EmptyState
  <2>3. CASE ~job[w].keyword
    BY <1>2, <2>1, <2>3 DEF AlreadyOver, RunOver
  <2> QED
    BY <2>2, <2>3
<1> HIDE DEF state
<1>5. job'[w].row.state = state
  BY <1>2 DEF state
<1> QED
  BY <1>2, <1>4, <1>5 DEF Answering

LEMMA InboundAnswers ==
  ASSUME Serial, ExchangeInv, NEW w \in Workers, Inbound(w) \/ Applying(w)
  PROVE  Answering(w)'
<1>1. job[w] \in Job /\ job \in [Jobs -> Job] /\ w \in Jobs /\ Aware(w)
  BY ExchangeTypes, QuietTypes DEF ExchangeInv
<1>2. ASSUME Ends(w) PROVE Answering(w)'
  <2>1. job'[w].pc = "idle"
    BY <1>1, <1>2 DEF Ends, IdleJob
  <2> QED
    BY <2>1, AnswersCarried
<1>3. CASE (\E text \in Texts : Receive(w, text)) \/ ReceiveAgain(w)
  <2>1. PICK text : ReadRows(w, text)
    BY <1>3 DEF Receive, ReceiveAgain
  <2>2. job'[w].pc = "route"
    BY <1>1, <2>1 DEF ReadRows, IdleJob
  <2> QED
    BY <2>2, AnswersCarried
<1>4. CASE RouteByKeyword(w) \/ RouteToNew(w)
  <2>1. job'[w].pc = "open"
    BY <1>1, <1>4 DEF RouteByKeyword, RouteToNew, Job
  <2> QED
    BY <2>1, AnswersCarried
<1>5. CASE RouteToRunning(w)
  <2>1. job'[w].pc = "admit" /\ ~job'[w].keyword
    BY <1>1, <1>5 DEF RouteToRunning, NotAKeyword, Aware, Job
  <2> QED
    BY <2>1 DEF Answering
<1>6. CASE Open(w)
  <2> DEFINE c == CHOOSE d \in Convs : d \notin Used
             row == [status |-> "ACTIVE", flow |-> job[w].flow,
                     state |-> EmptyState, opener |-> NULL]
  <2>1. job' = [job EXCEPT ![w].pc = "admit", ![w].conv = c, ![w].row = row]
    BY <1>6, Zenon DEF Open
  <2>2. row.state = EmptyState
    OBVIOUS
  <2> HIDE DEF c, row
  <2>3. job'[w].pc = "admit" /\ job'[w].row = row
    BY <1>1, <2>1 DEF Job
  <2> QED
    BY <2>2, <2>3 DEF Answering
<1>7. CASE AdmitToRun(w)
  BY <1>7, AdmitAnswers
<1>8. CASE RouteNowhere(w) \/ RouteToPrevious(w) \/ BookAgain(w) \/ RunFails(w) \/ Save(w)
  BY <1>2, <1>8 DEF RouteNowhere, RouteToPrevious, BookAgain, RunFails, Save
<1>9. CASE AdmitTooMany(w) \/ AdmitDuplicate(w) \/ AdmitFinished(w)
  BY <1>2, <1>9 DEF AdmitTooMany, AdmitDuplicate, AdmitFinished
<1>10. CASE BookSlot(w) \/ Run(w) \/ RunToMenu(w) \/ RunPastBooking(w)
  BY <1>2, <1>10, BookedAnswers, RunAnswers, MenuAnswers, PastBookingAnswers
<1> QED
  BY <1>3, <1>4, <1>5, <1>6, <1>7, <1>8, <1>9, <1>10 DEF Inbound, Applying

LEMMA ExchangeNext ==
  ASSUME Serial, ExchangeInv, [Next]_vars
  PROVE  ExchangeInv'
<1>1. QuietInv' /\ FieldsInv'
  BY QuietNext, FieldsNext DEF ExchangeInv
<1> SUFFICES ASSUME NEW w \in Workers PROVE Answering(w)'
  BY <1>1 DEF ExchangeInv
<1>2. /\ DelayWorkers = {} /\ Jobs = Workers /\ job \in [Jobs -> Job]
      /\ conv \in [Convs -> Row] /\ \A v \in Workers : v = w
  BY QuietTypes DEF Serial, ExchangeInv
<1>3. CASE \E v \in Workers : Inbound(v)
  BY <1>2, <1>3, InboundAnswers
<1>4. CASE \E v \in Jobs : Applying(v)
  BY <1>2, <1>4, InboundAnswers
<1>5. CASE \E v \in Jobs : Crash(v)
  <2>1. job'[w].pc = "load"
    BY <1>2, <1>5 DEF Crash, IdleJob
  <2> QED
    BY <2>1, AnswersCarried
<1>6. CASE \/ \E c \in Convs : Expire(c)
           \/ SlideWindow
           \/ \E f \in FlowIds : ToggleFlow(f)
           \/ UNCHANGED vars
  <2>1. job' = job /\ conv' = conv
    BY <1>6 DEF Expire, SlideWindow, ToggleFlow, vars, rowVars
  <2> QED
    BY <2>1, AnswersCarried
<1>7. CASE \E f \in FlowIds : DeleteFlow(f)
  <2>1. job' = job /\ \A c \in Convs : conv'[c].state = conv[c].state
    BY <1>2, <1>7 DEF DeleteFlow, Row
  <2> QED
    BY <2>1, AnswersCarried
<1> QED
  BY <1>2, <1>3, <1>4, <1>5, <1>6, <1>7 DEF Next

-------------------------------------------------------------------------------
(* Each step is one of Dialogue, or none *)

DialogueVars == <<Talk, fields, stored>>

\* A row in progress that is closed.
LEMMA ClosedInDialogue ==
  ASSUME conv \in [Convs -> Row], NEW c \in Convs, conv[c].status = "ACTIVE",
         NEW status \in {"COMPLETED", "HANDOFF", "ABANDONED"},
         conv'[c].status = status,
         conv'[c].flow = conv[c].flow, conv'[c].state = conv[c].state,
         \A d \in Convs \ {c} : conv'[d] = conv[d],
         fields' = fields, stored' = stored
  PROVE  D!Close(c)
<1>1. D!InProgress(c)
  BY DEF D!InProgress, Talk, TalkOf
<1>2. Talk' = [Talk EXCEPT ![c].status = status]
  BY DEF Talk, TalkOf
<1> QED
  BY <1>1, <1>2 DEF D!Close

LEMMA OpenInDialogue ==
  ASSUME Serial, ExchangeInv, NEW w \in Workers, Open(w)
  PROVE  \E c \in Convs, f \in FlowIds : D!Begin(c, f)
<1> DEFINE c == CHOOSE d \in Convs : d \notin Used
           row == [status |-> "ACTIVE", flow |-> job[w].flow,
                   state |-> EmptyState, opener |-> NULL]
<1>1. /\ conv' = [conv EXCEPT ![c] = row] /\ fields' = fields /\ stored' = stored
      /\ job[w].pc = "open"
  BY Zenon DEF Open, contactVars, flowVars
<1>2. c \in Convs /\ conv[c].status = "unused"
  BY DEF Open, Used
<1>3. TalkOf(row) = [status |-> "ACTIVE", flow |-> job[w].flow, run |-> EmptyState]
  BY DEF TalkOf
<1> HIDE DEF c, row
<1>4. /\ conv \in [Convs -> Row] /\ job[w].flow \in FlowIds
      /\ \A d \in Convs : conv[d].status # "ACTIVE"
  BY <1>1, ExchangeTypes, QuietTypes DEF ExchangeInv, Ready, Knows
<1>5. Talk[c].status = "unused" /\ \A d \in Convs : ~D!InProgress(d)
  BY <1>2, <1>4 DEF D!InProgress, Talk, TalkOf
<1>6. Talk' = [Talk EXCEPT ![c] = [status |-> "ACTIVE", flow |-> job[w].flow,
                                   run |-> EmptyState]]
  BY <1>1, <1>2, <1>3, <1>4 DEF Talk
<1>7. D!Begin(c, job[w].flow)
  BY <1>1, <1>5, <1>6 DEF D!Begin
<1> QED
  BY <1>2, <1>4, <1>7

LEMMA RouteInDialogue ==
  ASSUME Serial, ExchangeInv, NEW w \in Workers, RouteByKeyword(w)
  PROVE  UNCHANGED DialogueVars \/ \E c \in Convs : D!Close(c)
<1>1. /\ conv \in [Convs -> Row] /\ Knows(w) /\ job[w] \in Job /\ NULL \notin Convs
      /\ job[w].pc = "route" /\ fields' = fields /\ stored' = stored
      /\ conv' = IF job[w].conv = NULL THEN conv
                 ELSE [conv EXCEPT ![job[w].conv].status = "ABANDONED"]
  BY ExchangeTypes, QuietTypes DEF ExchangeInv, RouteByKeyword, contactVars, flowVars
<1>2. CASE job[w].conv = NULL
  BY <1>1, <1>2 DEF DialogueVars, Talk
<1>3. CASE job[w].conv # NULL
  <2>1. job[w].conv \in Convs /\ conv[job[w].conv].status = "ACTIVE"
    BY <1>1, <1>3 DEF Knows, Job
  <2>2. /\ conv'[job[w].conv].status = "ABANDONED"
        /\ conv'[job[w].conv].flow = conv[job[w].conv].flow
        /\ conv'[job[w].conv].state = conv[job[w].conv].state
        /\ \A d \in Convs \ {job[w].conv} : conv'[d] = conv[d]
    BY <1>1, <1>3, <2>1 DEF Row
  <2> QED
    BY <1>1, <2>1, <2>2, ClosedInDialogue
<1> QED
  BY <1>2, <1>3

LEMMA AdmitInDialogue ==
  ASSUME Serial, ExchangeInv, NEW w \in Workers,
         AdmitTooMany(w) \/ AdmitDuplicate(w) \/ AdmitFinished(w) \/ AdmitToRun(w)
  PROVE  UNCHANGED DialogueVars \/ \E c \in Convs : D!Close(c)
<1> DEFINE c == job[w].conv
<1>1. /\ conv \in [Convs -> Row] /\ job[w].pc = "admit"
      /\ c \in Convs /\ conv[c].status = "ACTIVE"
  BY ExchangeTypes, QuietTypes
     DEF ExchangeInv, Ready, Knows, AdmitTooMany, AdmitDuplicate, AdmitFinished, AdmitToRun
<1>2. ASSUME NEW status, Admit(w, status)
      PROVE  /\ conv'[c].status = status
             /\ conv'[c].flow = conv[c].flow /\ conv'[c].state = conv[c].state
             /\ \A d \in Convs \ {c} : conv'[d] = conv[d]
             /\ fields' = fields /\ stored' = stored
  BY <1>1, <1>2 DEF Admit, Row, flowVars
<1> HIDE DEF c
<1>3. CASE AdmitTooMany(w) \/ AdmitDuplicate(w) \/ AdmitFinished(w)
  <2>1. PICK status \in {"HANDOFF", "COMPLETED"} : Admit(w, status)
    BY <1>3 DEF AdmitTooMany, AdmitDuplicate, AdmitFinished
  <2> QED
    BY <1>1, <1>2, <2>1, ClosedInDialogue
<1>4. CASE AdmitToRun(w)
  <2>1. Admit(w, conv[c].status)
    BY <1>4 DEF AdmitToRun, c
  <2>2. /\ fields' = fields /\ stored' = stored
        /\ \A d \in Convs : TalkOf(conv'[d]) = TalkOf(conv[d])
    BY <1>2, <2>1 DEF TalkOf
  <2> QED
    BY <2>2 DEF DialogueVars, Talk
<1> QED
  BY <1>3, <1>4

LEMMA SaveInDialogue ==
  ASSUME Serial, ExchangeInv, NEW w \in Workers, Save(w)
  PROVE  \/ UNCHANGED DialogueVars
         \/ \E c \in Convs, f \in FlowIds, text \in Texts : D!Exchange(c, f, text)
<1> DEFINE j == job[w]
           c == j.conv
           outcome == [run |-> j.next, saved |-> j.saved]
<1>1. /\ j.pc = "save" /\ stored' = stored
      /\ conv' = [conv EXCEPT ![c].state = j.next, ![c].status = StatusOf(j.next, j.waiting)]
      /\ fields' = IF j.saved = NoSaved THEN fields ELSE Merged(j)
  BY DEF Save, flowVars
<1>2. /\ conv \in [Convs -> Row] /\ c \in Convs /\ conv[c].status = "ACTIVE"
      /\ j.flow \in FlowIds /\ j.text \in Texts
      /\ outcome \in Outcomes(j.flow, conv[c].state, j.text)
      /\ StatusOf(j.next, j.waiting) = Standing(j.next)
  BY <1>1, ExchangeTypes, QuietTypes DEF ExchangeInv, Ready, Knows, Answering
<1>3. conv[c].flow \in stored => j.flow = conv[c].flow
  <2>1. FlowFits(w)
    BY QuietTypes DEF ExchangeInv, QuietInv, OrderInv, FlowInv
  <2> QED
    BY <1>1, <2>1 DEF FlowFits, Working
<1>4. fields' = [x \in Fields |-> IF j.saved[x] # NULL THEN j.saved[x] ELSE fields[x]]
  <2>1. j.contactFields = fields /\ fields \in [Fields -> Answer]
    BY <1>1 DEF ExchangeInv, FieldsInv, ReadNow, TypeInv, TypeOK
  <2>2. CASE j.saved = NoSaved
    BY <1>1, <2>1, <2>2 DEF NoSaved
  <2>3. CASE j.saved # NoSaved
    BY <1>1, <2>1, <2>3 DEF Merged
  <2> QED
    BY <2>2, <2>3
<1>5. /\ outcome.run = j.next /\ outcome.saved = j.saved
  OBVIOUS
<1> HIDE DEF j, c, outcome
<1>6. Talk' = [Talk EXCEPT ![c].run = outcome.run, ![c].status = Standing(outcome.run)]
  BY <1>1, <1>2, <1>5 DEF Talk, TalkOf, Row
<1>7. D!InProgress(c) /\ Talk[c].flow = conv[c].flow /\ Talk[c].run = conv[c].state
  BY <1>2 DEF D!InProgress, Talk, TalkOf
<1>8. CASE <<Talk, fields>>' = <<Talk, fields>>
  BY <1>1, <1>8 DEF DialogueVars
<1>9. CASE <<Talk, fields>>' # <<Talk, fields>>
  <2>1. outcome \in Outcomes(j.flow, Talk[c].run, j.text)
    BY <1>2, <1>7
  <2>2. fields' = [x \in Fields |-> IF outcome.saved[x] # NULL THEN outcome.saved[x]
                                    ELSE fields[x]]
    BY <1>4, <1>5
  <2>3. Talk[c].flow \in stored => j.flow = Talk[c].flow
    BY <1>3, <1>7
  <2>4. D!Exchange(c, j.flow, j.text)
    BY <1>1, <1>6, <1>7, <1>9, <2>1, <2>2, <2>3, Zenon DEF D!Exchange
  <2> QED
    BY <1>2, <2>4
<1> QED
  BY <1>8, <1>9

LEMMA DeletedInDialogue ==
  ASSUME Serial, ExchangeInv, NEW f \in FlowIds, DeleteFlow(f)
  PROVE  D!LoseFlow(f)
<1>1. conv \in [Convs -> Row]
  BY QuietTypes DEF ExchangeInv
<1>2. /\ stored' = stored \ {f} /\ fields' = fields
      /\ conv' = [c \in Convs |-> IF conv[c].flow = f THEN [conv[c] EXCEPT !.flow = NULL]
                                  ELSE conv[c]]
  BY DEF DeleteFlow, contactVars
<1>3. ASSUME NEW c \in Convs
      PROVE  TalkOf(conv'[c]) = IF TalkOf(conv[c]).flow = f
                                THEN [TalkOf(conv[c]) EXCEPT !.flow = NULL]
                                ELSE TalkOf(conv[c])
  BY <1>1, <1>2 DEF TalkOf, Row
<1>4. Talk' = [c \in Convs |-> IF Talk[c].flow = f THEN [Talk[c] EXCEPT !.flow = NULL]
                               ELSE Talk[c]]
  BY <1>3 DEF Talk
<1> QED
  BY <1>2, <1>4 DEF D!LoseFlow

LEMMA StepInDialogue ==
  ASSUME Serial, ExchangeInv, [Next]_vars
  PROVE  [D!Next]_<<Talk, fields, stored>>
<1>1. DelayWorkers = {} /\ Jobs = Workers
  BY DEF Serial, Jobs
<1>2. ASSUME UNCHANGED <<conv, fields, stored>> PROVE UNCHANGED DialogueVars
  BY <1>2 DEF DialogueVars, Talk
<1>3. CASE \E w \in Workers : Inbound(w)
  <2> PICK w \in Workers : Inbound(w)
    BY <1>3
  <2>1. CASE \/ (\E text \in Texts : Receive(w, text)) \/ ReceiveAgain(w)
             \/ RouteNowhere(w) \/ RouteToRunning(w) \/ RouteToPrevious(w) \/ RouteToNew(w)
             \/ BookAgain(w) \/ BookSlot(w)
    <3>1. UNCHANGED <<conv, fields, stored>>
      BY <2>1 DEF Receive, ReceiveAgain, ReadRows, RouteNowhere, RouteToRunning,
           RouteToPrevious, RouteToNew, BookAgain, BookSlot, rowVars, contactVars, flowVars
    <3> QED
      BY <1>2, <3>1 DEF DialogueVars
  <2>2. CASE Open(w)
    BY <2>2, OpenInDialogue DEF D!Next
  <2>3. CASE RouteByKeyword(w)
    BY <2>3, RouteInDialogue DEF D!Next, DialogueVars
  <2>4. CASE AdmitTooMany(w) \/ AdmitDuplicate(w) \/ AdmitFinished(w) \/ AdmitToRun(w)
    BY <2>4, AdmitInDialogue DEF D!Next, DialogueVars
  <2> QED
    BY <2>1, <2>2, <2>3, <2>4 DEF Inbound
<1>4. CASE \E w \in Jobs : Applying(w) \/ Crash(w)
  <2> PICK w \in Workers : Applying(w) \/ Crash(w)
    BY <1>1, <1>4
  <2>1. CASE RunFails(w) \/ Run(w) \/ RunToMenu(w) \/ RunPastBooking(w) \/ Crash(w)
    <3>1. UNCHANGED <<conv, fields, stored>>
      BY <2>1 DEF RunFails, Run, RunToMenu, RunPastBooking, Crash, rowVars, contactVars,
           flowVars
    <3> QED
      BY <1>2, <3>1 DEF DialogueVars
  <2>2. CASE Save(w)
    BY <2>2, SaveInDialogue DEF D!Next, DialogueVars
  <2> QED
    BY <2>1, <2>2 DEF Applying
<1>5. CASE \E f \in FlowIds : DeleteFlow(f)
  BY <1>5, DeletedInDialogue DEF D!Next
<1>6. CASE \/ \E c \in Convs : Expire(c)
           \/ SlideWindow
           \/ \E f \in FlowIds : ToggleFlow(f)
           \/ UNCHANGED vars
  <2>1. UNCHANGED <<conv, fields, stored>>
    BY <1>6 DEF Expire, SlideWindow, ToggleFlow, vars, rowVars, contactVars, flowVars
  <2> QED
    BY <1>2, <2>1 DEF DialogueVars
<1> QED
  BY <1>1, <1>3, <1>4, <1>5, <1>6 DEF Next

\* One message at a time, and no timers: every behaviour of the runtime, with its
\* reads, its sends and its saves apart, with crashes, jobs run again and flows
\* deleted in between, is one of Dialogue.
THEOREM ConversationsImplementDialogue ==
  ASSUME Serial
  PROVE  Spec => ImplementsDialogue
<1>1. Init => ExchangeInv
  <2> SUFFICES ASSUME Init, NEW w \in Workers PROVE ReadNow(w) /\ Answering(w)
    BY QuietInit, InitTypes DEF ExchangeInv, FieldsInv
  <2>1. job[w].pc = "idle"
    BY DEF Init, IdleJob, Jobs
  <2> QED
    BY <2>1 DEF ReadNow, Answering
<1>2. Init => D!Init
  <2> SUFFICES ASSUME Init PROVE D!Init
    OBVIOUS
  <2>1. PICK kept \in SUBSET Legacy :
          conv = [c \in Convs |-> IF c \in kept THEN LegacyRow ELSE UnusedRow]
    BY DEF Init
  <2>2. Talk = [c \in Convs |-> IF c \in kept THEN TalkOf(LegacyRow) ELSE D!Unused]
    BY <2>1 DEF Talk, TalkOf, UnusedRow, D!Unused
  <2>3. fields = [x \in Fields |-> NULL] /\ stored = FlowIds
    BY DEF Init, NoSaved
  <2> QED
    BY <2>2, <2>3 DEF D!Init
<1>3. ExchangeInv /\ [Next]_vars => ExchangeInv'
  BY ExchangeNext
<1>4. ExchangeInv /\ [Next]_vars => [D!Next]_<<Talk, fields, stored>>
  BY StepInDialogue
<1> QED
  BY <1>1, <1>2, <1>3, <1>4, PTL DEF Spec, ImplementsDialogue, D!Spec
=============================================================================

-------------------------------- MODULE FlowRun --------------------------------
(***************************************************************************)
(* One run of the flow engine under a runtime that does exactly what       *)
(* types.ts asks of it: it starts the flow, feeds the lead's texts to      *)
(* Step, resumes a delay when its timer fires and a booking once it is     *)
(* handled, and never loses or repeats a call.  What can be shown here is  *)
(* the engine's own contract; Conversations embeds the same operators in   *)
(* the worker, which is not that careful.                                  *)
(***************************************************************************)
EXTENDS FlowEngine

CONSTANT Flows  \* the flow definitions a run may be of

ASSUME FlowsAssumption == \A f \in Flows : IsFlowDefinition(f)

VARIABLES
  script,    \* the flow of this run
  begun,     \* Start has been called (and did not throw)
  run,       \* the run's FlowState
  actions,   \* effects of the latest call
  listening, \* awaitingInput of the latest call
  recorded   \* history: what the save_field effects so far have stored

runVars == <<script, begun, run, actions, listening, recorded>>

Said(acts, kind, node) ==
  \E n \in DOMAIN acts : acts[n].kind = kind /\ acts[n].node = node

\* The value the last save_field effect on f stores, NULL when there is none.
LastSaved(acts, f) ==
  LET saves == {n \in DOMAIN acts : acts[n].kind = "save_field" /\ acts[n].field = f}
      final == {acts[n].value : n \in {m \in saves : \A k \in saves : k <= m}}
  IN  IF final = {} THEN NULL ELSE CHOOSE v \in final : TRUE

RunTypeOK ==
  /\ script \in Flows
  /\ begun \in BOOLEAN
  /\ run \in FlowState
  /\ actions \in [0..GUARD_MAX -> Effect]
  /\ listening \in BOOLEAN
  /\ recorded \in [Fields -> Answer]

RunInit ==
  /\ script \in Flows
  /\ begun = FALSE
  /\ run = EmptyState
  /\ actions = [n \in 0..GUARD_MAX |-> NoEffect]
  /\ listening = FALSE
  /\ recorded = [f \in Fields |-> NULL]

\* Take over the result of an engine call; a call that throws changes nothing.
Apply(call) ==
  \E result \in {call} :
    /\ ~result.throws
    /\ begun' = TRUE
    /\ run' = result.state
    /\ actions' = result.actions
    /\ listening' = result.awaitingInput
    /\ recorded' = [f \in Fields |-> IF LastSaved(result.actions, f) # NULL
                                  THEN LastSaved(result.actions, f) ELSE recorded[f]]
    /\ UNCHANGED script

Begin == ~begun /\ Apply(Start(script))

Reply(text) == begun /\ Apply(Step(script, run, text))

TimerFires == begun /\ run.awaiting = "delay" /\ Apply(ResumeDelay(script, run))

BookingHandled == begun /\ run.awaiting = "booking" /\ Apply(ResumeBooking(script, run))

RunNext ==
  \/ Begin
  \/ \E text \in Texts : Reply(text)
  \/ TimerFires
  \/ BookingHandled

\* Something keeps happening to the run: the lead writes, a timer fires or a
\* booking is handled.  It is a hypothesis on the lead, used by RunEnds alone.
RunFairness == WF_runVars(RunNext)

RunSpec == RunInit /\ [][RunNext]_runVars /\ RunFairness

-------------------------------------------------------------------------------

AtQuestion == run.node \in DOMAIN script.nodes /\ IsQuestion(script.nodes[run.node])

\* A live run always waits for something that can still come: an answer to the
\* question it is at, a timer or a booking, whose node to resume at is the one
\* after the pause.  A run that is over waits for nothing, and keeps its node
\* only when it was handed over because of refused answers.  (walk, finish and
\* the two resume functions each clear their own part of the pause.)
LiveRunWaits ==
  begun =>
    IF run.status = "active"
    THEN /\ run.node \in DOMAIN script.nodes
         /\ LET node == script.nodes[run.node]
            IN  CASE run.awaiting = "none" -> IsQuestion(node) /\ listening
                  [] run.awaiting = "delay" ->
                       node.type = "delay" /\ run.resume = node.next /\ ~listening
                  [] run.awaiting = "booking" ->
                       IsBooking(node) /\ run.resume = node.next /\ listening
    ELSE /\ run.awaiting = "none" /\ run.resume = NULL
         /\ ~listening
         /\ run.node # NULL => run.status = "handoff" /\ AtQuestion
                               /\ run.retries = MAX_RETRIES + 1

\* The engine enters a timed pause exactly when it asks the runtime for the
\* timer that ends it, and both name the same node to resume at (types.ts:146).
TimerMatchesPause ==
  \A node \in Target :
    Said(actions, "schedule_delay", node)
      <=> run.awaiting = "delay" /\ run.resume = node

\* The bot never waits for an answer in silence: whenever a run is at a
\* question, the call that left it there sent that question, or its retry hint.
NeverWaitsSilently ==
  begun /\ run.status = "active" /\ AtQuestion
    => Said(actions, "send_message", run.node)

\* What types.ts promises the runtime about every result of the engine.
RuntimeContract == LiveRunWaits /\ TimerMatchesPause /\ NeverWaitsSilently

\* A field no save_field action writes holds in the contact record, built from
\* the effects, what the run's answers say, across pauses and branches.
SavedFieldsAreAnswers ==
  \A f \in Fields :
    (\A id \in DOMAIN script.nodes :
        script.nodes[id].type = "action" => script.nodes[id].field # f)
      => recorded[f] = run.answers[f]

\* Once a run is over, no text, timer or booking changes it or says anything.
OverIsFinal ==
  [][begun /\ run.status # "active"
       => run' = run /\ \A n \in DOMAIN actions' : actions'[n].kind = "none"]_runVars

\* Where a node can lead.
Edges(node) ==
  CASE node.type = "condition" -> {node.then, node.else}
    [] IsQuestion(node) ->
         {node.next} \cup {node.branches[t] : t \in DOMAIN node.branches}
    [] OTHER -> {node.next}

\* No set of nodes leads only back into itself.
Forward ==
  \A S \in (SUBSET DOMAIN script.nodes) \ {{}} :
    \E id \in S : Edges(script.nodes[id]) \cap S = {}

\* A flow whose nodes only lead forward ends, whatever the lead answers, as long
\* as they keep writing: re-prompts are not endless.
RunEnds == Forward => <>(run.status # "active")
=============================================================================

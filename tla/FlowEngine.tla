------------------------------ MODULE FlowEngine ------------------------------
(***************************************************************************)
(* The flow engine of packages/flow-engine: a pure reducer from a flow     *)
(* definition, the run's state and an event to the next state and the      *)
(* effects the runtime must carry out.  Nothing here is a state machine;   *)
(* FlowRun drives it, Conversations embeds it.                             *)
(*                                                                         *)
(* Data is abstracted to what the control distinguishes.  A text of the    *)
(* lead is a member of Texts; NumberOf gives the 1-based index it reads as *)
(* (0 for any other text) and Parse the value a question of a given kind   *)
(* makes of it (NULL when it is refused).  A condition is the set of       *)
(* answers that satisfy it.  The wording of messages is left out: a sent   *)
(* message is known by the node that sends it.                             *)
(***************************************************************************)
EXTENDS Naturals, Sequences

CONSTANTS
  Nodes,        \* node ids a flow may mention, defined or dangling
  Fields,       \* names of the fields questions and save_field actions fill
  Texts,        \* what a lead may write
  NULL,
  MAX_RETRIES,  \* refused answers one question tolerates
  GUARD_MAX,    \* nodes one walk may visit (1000 in the code)
  NumberOf,     \* NumberOf[t]: the positive integer t reads as, else 0
  Parse         \* Parse[e][t]: value of t for a question expecting e, or NULL

ExpectType == {"text", "number", "email", "phone", "date", "choice"}
ActionKind == {"save_field", "add_tag", "notify_agent", "assign_owner",
               "book_appointment", "webhook", "handoff_to_human", "end"}

ASSUME EngineAssumption ==
  /\ NULL \notin Nodes /\ NULL \notin Texts /\ NULL \notin Fields
  /\ MAX_RETRIES \in Nat
  /\ GUARD_MAX \in Nat \ {0}
  /\ NumberOf \in [Texts -> Nat]
  /\ Parse \in [ExpectType -> [Texts -> Texts \cup {NULL}]]

Target == Nodes \cup {NULL}
Answer == Texts \cup {NULL}

MessageNode == [type: {"message"}, next: Target]
QuestionNode == [type: {"question"}, field: Fields, expect: ExpectType,
                 choices: Seq(Texts),
                 branches: UNION {[S -> Target] : S \in SUBSET Texts},
                 next: Target]
DelayNode == [type: {"delay"}, next: Target]
ConditionNode == [type: {"condition"}, field: Fields, holds: SUBSET Answer,
                  then: Target, else: Target]
ActionNode == [type: {"action"}, action: ActionKind,
               field: Fields \cup {NULL}, value: Answer, next: Target]
\* A save_field that names its field has a value to store in it.
IsFlowNode(node) ==
  \/ node \in MessageNode \/ node \in QuestionNode \/ node \in DelayNode
  \/ node \in ConditionNode
  \/ node \in ActionNode /\ (node.action = "save_field" /\ node.field # NULL
                               => node.value # NULL)

\* "keywords" is the set of texts that contain one of the trigger's keywords.
FlowTrigger == [type: {"any", "keyword"}, keywords: SUBSET Texts]
IsFlowDefinition(flow) ==
  /\ DOMAIN flow = {"start", "nodes", "trigger"}
  /\ flow.start \in Nodes
  /\ DOMAIN flow.nodes \subseteq Nodes
  /\ \A id \in DOMAIN flow.nodes : IsFlowNode(flow.nodes[id])
  /\ flow.trigger \in FlowTrigger

MatchesTrigger(trigger, text) ==
  trigger.type = "any" \/ text \in trigger.keywords

TriggerSpecificity(trigger) == IF trigger.type = "keyword" THEN 1 ELSE 0

\* "offered" is the number of booking slots the runtime has put on the menu.
FlowState == [node: Target, answers: [Fields -> Answer], retries: Nat,
              status: {"active", "completed", "handoff"},
              awaiting: {"none", "booking", "delay"},
              resume: Target, offered: Nat]

\* The state "{}" of a new conversation row, as normalizeState reads it.
EmptyState == [node |-> NULL, answers |-> [f \in Fields |-> NULL],
               retries |-> 0, status |-> "active", awaiting |-> "none",
               resume |-> NULL, offered |-> 0]

EffectKind == {"none", "send_message", "save_field", "add_tag", "notify_agent",
               "assign_owner", "book_appointment", "webhook",
               "handoff_to_human", "end", "schedule_delay"}
Effect == [kind: EffectKind, node: Target,
           field: Fields \cup {NULL}, value: Answer]
NoEffect == [kind |-> "none", node |-> NULL, field |-> NULL, value |-> NULL]

IsQuestion(node) == node.type = "question"
IsBooking(node) == node.type = "action" /\ node.action = "book_appointment"
IsFinal(node) == node.type = "action" /\ node.action \in {"end", "handoff_to_human"}

\* The walk goes through a node without stopping.
Passes(flow, id) ==
  /\ id \in DOMAIN flow.nodes
  /\ LET node == flow.nodes[id]
     IN  \/ node.type \in {"message", "condition"}
         \/ node.type = "action" /\ ~IsBooking(node) /\ ~IsFinal(node)

\* A choice is matched by its 1-based index first and by its text second.
Coerce(text, node) ==
  IF node.expect = "choice" /\ node.choices # << >>
  THEN IF NumberOf[text] \in DOMAIN node.choices
       THEN node.choices[NumberOf[text]]
       ELSE IF \E i \in DOMAIN node.choices : node.choices[i] = text
            THEN text ELSE NULL
  ELSE IF node.expect = "choice" THEN text ELSE Parse[node.expect][text]

ActionToEffect(id, node) ==
  IF node.action = "save_field"
  THEN IF node.field = NULL THEN NoEffect
       ELSE [kind |-> "save_field", node |-> id,
             field |-> node.field, value |-> node.value]
  ELSE [NoEffect EXCEPT !.kind = node.action, !.node = id]

\* What visiting a node emits.  A timer request carries the node to resume at.
EffectOf(id, node) ==
  CASE node.type = "condition" -> NoEffect
    [] node.type = "delay" ->
         [NoEffect EXCEPT !.kind = "schedule_delay", !.node = node.next]
    [] node.type = "action" -> ActionToEffect(id, node)
    [] OTHER -> [NoEffect EXCEPT !.kind = "send_message", !.node = id]

Finish(state) ==
  [state EXCEPT !.node = NULL, !.retries = 0,
                !.status = IF @ = "active" THEN "completed" ELSE @]

Pause(flow, state, id, why) ==
  [state EXCEPT !.node = id, !.awaiting = why, !.resume = flow.nodes[id].next,
                !.retries = 0, !.status = "active"]

\* The state a walk returns once it stops at id.
StateAt(flow, state, id) ==
  IF id = NULL THEN Finish([state EXCEPT !.status = "completed"])
  ELSE IF id \notin DOMAIN flow.nodes THEN Finish(state)
  ELSE LET node == flow.nodes[id]
       IN CASE IsQuestion(node) ->
                 [state EXCEPT !.node = id, !.retries = 0, !.status = "active"]
            [] node.type = "delay" -> Pause(flow, state, id, "delay")
            [] IsBooking(node) -> Pause(flow, state, id, "booking")
            [] node.type = "action" /\ node.action = "handoff_to_human" ->
                 Finish([state EXCEPT !.status = "handoff"])
            [] OTHER -> Finish([state EXCEPT !.status = "completed"])

\* The node a walk goes to after id; a walk that has stopped stays.
Successor(flow, id, answers) ==
  IF ~Passes(flow, id) THEN id
  ELSE LET node == flow.nodes[id]
       IN  IF node.type = "condition"
           THEN IF answers[node.field] \in node.holds THEN node.then ELSE node.else
           ELSE node.next

(***************************************************************************)
(* The nodes a walk from state goes through: path[n] is the node after n   *)
(* turns of its loop.                                                      *)
(***************************************************************************)
Path(flow, state) ==
  LET next == [id \in Target |-> Successor(flow, id, state.answers)]
      path[n \in 0..GUARD_MAX] == IF n = 0 THEN state.node ELSE next[path[n - 1]]
  IN  path

\* The turns at which the walk can stop: no node is left, or a node that ends
\* it.  The cycle guard lets it visit GUARD_MAX nodes.
Stops(flow, path) ==
  {n \in 0..GUARD_MAX : \/ path[n] = NULL
                        \/ n < GUARD_MAX /\ ~Passes(flow, path[n])}

LastTurn(stops) ==
  IF stops = {} THEN GUARD_MAX ELSE CHOOSE n \in stops : \A m \in stops : n <= m

\* actions[0] is the effect already emitted when the walk begins, actions[n]
\* what the n-th node visited emits.
WalkEffects(flow, path, last, first) ==
  [n \in 0..GUARD_MAX |->
     IF n = 0 THEN first
     ELSE IF n - 1 <= last /\ path[n - 1] \in DOMAIN flow.nodes
          THEN EffectOf(path[n - 1], flow.nodes[path[n - 1]])
          ELSE NoEffect]

\* What a walk that stops at a node waits for the lead to answer.
AwaitsInput(flow, at) ==
  at \in DOMAIN flow.nodes /\ (IsQuestion(flow.nodes[at]) \/ IsBooking(flow.nodes[at]))

Walk(flow, state, first) ==
  LET path == Path(flow, state)
      last == LastTurn(Stops(flow, path))
  IN  [throws |-> Stops(flow, path) = {},
       state |-> StateAt(flow, state, path[last]),
       actions |-> WalkEffects(flow, path, last, first),
       awaitingInput |-> AwaitsInput(flow, path[last])]

Quietly(state, first, awaitingInput) ==
  [throws |-> FALSE, state |-> state, awaitingInput |-> awaitingInput,
   actions |-> [n \in 0..GUARD_MAX |-> IF n = 0 THEN first ELSE NoEffect]]

Start(flow) == Walk(flow, [EmptyState EXCEPT !.node = flow.start], NoEffect)

ResumedKeepsAwaiting(state) ==
  [state EXCEPT !.resume = NULL, !.node = state.resume, !.retries = 0]

\* The state a pause is left with: its node to resume at becomes the current one.
Resumed(state) ==
  [state EXCEPT !.awaiting = "none", !.resume = NULL,
                !.node = state.resume, !.retries = 0]

ResumeBooking(flow, state) ==
  Walk(flow, [Resumed(state) EXCEPT !.offered = 0], NoEffect)

ResumeDelay(flow, state) ==
  IF state.awaiting # "delay"
  THEN Quietly(state, NoEffect, state.status = "active")
  ELSE Walk(flow, Resumed(state), NoEffect)

\* The lead has used up the retries of this question.
GivesUp(retries) == retries > MAX_RETRIES

RefusedStartsOver(state) ==
  Quietly([state EXCEPT !.retries = IF GivesUp(@ + 1) THEN 0 ELSE @ + 1],
          [NoEffect EXCEPT !.kind = "send_message", !.node = state.node], TRUE)

\* A refused answer: prompt again, or hand over and keep the node.
Refused(state) ==
  IF GivesUp(state.retries + 1)
  THEN Quietly([state EXCEPT !.retries = @ + 1, !.status = "handoff"],
               [NoEffect EXCEPT !.kind = "handoff_to_human"], FALSE)
  ELSE Quietly([state EXCEPT !.retries = @ + 1],
               [NoEffect EXCEPT !.kind = "send_message", !.node = state.node], TRUE)

\* Where an answer leads: its declared branch, else the question's next node.
Branch(node, value) ==
  IF value \in DOMAIN node.branches THEN node.branches[value] ELSE node.next

AnsweredUnrecorded(flow, state, node, value) ==
  Walk(flow, [state EXCEPT !.retries = 0, !.node = Branch(node, value)],
       [kind |-> "save_field", node |-> NULL, field |-> node.field, value |-> value])

Answered(flow, state, node, value) ==
  Walk(flow,
       [state EXCEPT !.answers[node.field] = value, !.retries = 0,
                     !.node = Branch(node, value)],
       [kind |-> "save_field", node |-> NULL, field |-> node.field, value |-> value])

IsOver(state) == state.status # "active" \/ state.node = NULL

Step(flow, state, text) ==
  IF state.awaiting = "booking" THEN Quietly(state, NoEffect, TRUE)
  ELSE IF state.awaiting = "delay" THEN ResumeDelay(flow, state)
  ELSE IF IsOver(state) THEN Quietly(state, NoEffect, FALSE)
  ELSE IF ~(state.node \in DOMAIN flow.nodes /\ IsQuestion(flow.nodes[state.node]))
       THEN Walk(flow, [state EXCEPT !.retries = 0], NoEffect)
  ELSE LET node == flow.nodes[state.node]
           value == Coerce(text, node)
       IN  IF value = NULL THEN Refused(state)
           ELSE Answered(flow, state, node, value)
=============================================================================

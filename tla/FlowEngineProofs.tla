---------------------------- MODULE FlowEngineProofs ----------------------------
(***************************************************************************)
(* What every call of the flow engine returns, for every flow: its type    *)
(* and where it leaves the run.  For most of it the walk needs no          *)
(* induction over its path: where it stops is one node of the path, and    *)
(* what it has emitted is bounded by the turn it stopped at.  Only that a  *)
(* walk never goes up the ranks of its flow is shown turn by turn.         *)
(* From it the contract of the engine, for every flow definition, text and *)
(* bound: each call leaves the run either over or waiting for something    *)
(* that can still come, and says what it is waiting for.                   *)
(***************************************************************************)
EXTENDS FlowRun, FiniteSets, TLAPS, WellFoundedInduction

USE DEF Target, Answer

\* What any engine call returns.
IsResult(result) ==
  /\ result.throws \in BOOLEAN
  /\ result.state \in FlowState
  /\ result.actions \in [0..GUARD_MAX -> Effect]
  /\ result.awaitingInput \in BOOLEAN

\* A nonempty set of naturals has a least element.
LEMMA LeastNatural ==
  ASSUME NEW S, S \subseteq Nat, S # {}
  PROVE  \E n \in S : \A m \in S : n <= m
<1>1. \E n \in S : \A m \in S : ~(<<m, n>> \in OpToRel(<, Nat))
  BY NatLessThanWellFounded, WFMin
<1>2. PICK n \in S : \A m \in S : ~(<<m, n>> \in OpToRel(<, Nat))
  BY <1>1
<1>3. ASSUME NEW m \in S PROVE n <= m
  <2>1. m \in Nat /\ n \in Nat
    OBVIOUS
  <2>2. ~(<<m, n>> \in OpToRel(<, Nat))
    BY <1>2, Zenon
  <2>3. ~(m < n)
    BY <2>1, <2>2 DEF OpToRel
  <2> QED
    BY <2>1, <2>3
<1> QED
  BY <1>3

\* A walk that can stop stops at the first turn at which it can.
LEMMA FirstStop ==
  ASSUME NEW S, S \subseteq 0..GUARD_MAX, S # {}
  PROVE  /\ LastTurn(S) \in S
         /\ \A m \in S : LastTurn(S) <= m
<1>1. S \subseteq Nat
  BY EngineAssumption DEF EngineAssumption
<1>2. \E n \in S : \A m \in S : n <= m
  BY <1>1, LeastNatural
<1> QED
  BY <1>2 DEF LastTurn

LEMMA LastTurnType ==
  ASSUME NEW S, S \subseteq 0..GUARD_MAX
  PROVE  LastTurn(S) \in 0..GUARD_MAX
<1>1. CASE S = {}
  BY <1>1, EngineAssumption DEF LastTurn, EngineAssumption
<1>2. CASE S # {}
  BY <1>2, FirstStop
<1> QED
  BY <1>1, <1>2

LEMMA EmptyStateType == EmptyState \in FlowState
BY DEF EmptyState, FlowState

\* The effects a node emits are effects.
LEMMA NoEffectType == NoEffect \in Effect
BY DEF NoEffect, Effect, EffectKind

LEMMA EffectType ==
  ASSUME NEW id \in Nodes, NEW node, IsFlowNode(node)
  PROVE  EffectOf(id, node) \in Effect
BY DEF EffectOf, ActionToEffect, NoEffect, Effect, EffectKind, ActionKind, IsFlowNode,
      MessageNode, QuestionNode, DelayNode, ConditionNode, ActionNode

-------------------------------------------------------------------------------
(* Where a walk stops *)

LEMMA StateAtType ==
  ASSUME NEW flow, IsFlowDefinition(flow), NEW state \in FlowState, NEW at
  PROVE  StateAt(flow, state, at) \in FlowState
<1> DEFINE node == flow.nodes[at]
<1>1. ASSUME NEW s \in FlowState PROVE Finish(s) \in FlowState
  BY DEF Finish, FlowState
<1>2. Finish(state) \in FlowState
  BY <1>1
<1>3. /\ Finish([state EXCEPT !.status = "completed"]) \in FlowState
      /\ Finish([state EXCEPT !.status = "handoff"]) \in FlowState
  <2>1. [state EXCEPT !.status = "completed"] \in FlowState
    BY DEF FlowState
  <2>2. [state EXCEPT !.status = "handoff"] \in FlowState
    BY DEF FlowState
  <2> QED
    BY <1>1, <2>1, <2>2
<1>4. CASE at = NULL
  BY <1>3, <1>4 DEF StateAt
<1>5. CASE at # NULL /\ at \notin DOMAIN flow.nodes
  BY <1>2, <1>5 DEF StateAt
<1>6. CASE at # NULL /\ at \in DOMAIN flow.nodes
  <2>1. at \in Nodes /\ IsFlowNode(node)
    BY <1>6 DEF IsFlowDefinition
  <2>2. [state EXCEPT !.node = at, !.retries = 0, !.status = "active"] \in FlowState
    BY <2>1 DEF FlowState
  <2>3. node.type = "delay" \/ IsBooking(node) => node.next \in Target
    BY <2>1 DEF IsBooking, IsFlowNode,
         MessageNode, QuestionNode, DelayNode, ConditionNode, ActionNode
  <2>4. ASSUME NEW why \in {"delay", "booking"}, node.next \in Target
        PROVE  Pause(flow, state, at, why) \in FlowState
    BY <2>1, <2>4 DEF Pause, FlowState
  <2>5. CASE IsQuestion(node)
    BY <1>6, <2>2, <2>5 DEF StateAt, IsQuestion, IsBooking
  <2>6. CASE node.type = "delay"
    BY <1>6, <2>3, <2>4, <2>6 DEF StateAt, IsQuestion, IsBooking
  <2>7. CASE IsBooking(node)
    BY <1>6, <2>3, <2>4, <2>7 DEF StateAt, IsQuestion, IsBooking
  <2>8. CASE ~IsQuestion(node) /\ node.type # "delay" /\ ~IsBooking(node)
    BY <1>3, <1>6, <2>8 DEF StateAt
  <2> QED
    BY <2>5, <2>6, <2>7, <2>8
<1> QED
  BY <1>4, <1>5, <1>6

\* Whatever path a walk took, the effects it emits are effects.
LEMMA WalkEffectsType ==
  ASSUME NEW flow, IsFlowDefinition(flow), NEW path, NEW last, NEW first \in Effect
  PROVE  WalkEffects(flow, path, last, first) \in [0..GUARD_MAX -> Effect]
<1>1. ASSUME NEW n, path[n - 1] \in DOMAIN flow.nodes
      PROVE  EffectOf(path[n - 1], flow.nodes[path[n - 1]]) \in Effect
  <2>1. path[n - 1] \in Nodes /\ IsFlowNode(flow.nodes[path[n - 1]])
    BY <1>1 DEF IsFlowDefinition
  <2> QED
    BY <2>1, EffectType
<1> QED
  BY <1>1, NoEffectType DEF WalkEffects

LEMMA StopsType ==
  ASSUME NEW flow, NEW path
  PROVE  Stops(flow, path) \subseteq 0..GUARD_MAX
BY DEF Stops

\* A walk from a typed state returns a typed result.
LEMMA WalkResult ==
  ASSUME NEW flow, IsFlowDefinition(flow), NEW state \in FlowState, NEW first \in Effect
  PROVE  IsResult(Walk(flow, state, first))
<1> DEFINE path == Path(flow, state)
           last == LastTurn(Stops(flow, path))
<1>1. StateAt(flow, state, path[last]) \in FlowState
  BY StateAtType
<1>2. WalkEffects(flow, path, last, first) \in [0..GUARD_MAX -> Effect]
  BY WalkEffectsType
<1>3. AwaitsInput(flow, path[last]) \in BOOLEAN
  BY DEF AwaitsInput
<1>4. Walk(flow, state, first) =
        [throws |-> Stops(flow, path) = {},
         state |-> StateAt(flow, state, path[last]),
         actions |-> WalkEffects(flow, path, last, first),
         awaitingInput |-> AwaitsInput(flow, path[last])]
  BY DEF Walk
<1> HIDE DEF path, last
<1> QED
  BY <1>1, <1>2, <1>3, <1>4 DEF IsResult

\* Where a walk that does not throw stops: every node before it was passed, and
\* no node is left or the one it stops at ends the walk.
LEMMA WalkStops ==
  ASSUME NEW flow, NEW state, NEW first, ~Walk(flow, state, first).throws
  PROVE  \E path : \E last \in 0..GUARD_MAX :
           /\ \A n \in 0..GUARD_MAX : n < last => Passes(flow, path[n])
           /\ path[last] = NULL \/ (last < GUARD_MAX /\ ~Passes(flow, path[last]))
           /\ Walk(flow, state, first) =
                [throws |-> FALSE,
                 state |-> StateAt(flow, state, path[last]),
                 actions |-> WalkEffects(flow, path, last, first),
                 awaitingInput |-> AwaitsInput(flow, path[last])]
<1> DEFINE path == Path(flow, state)
           stops == Stops(flow, path)
           last == LastTurn(stops)
<1>1. Walk(flow, state, first) =
        [throws |-> stops = {},
         state |-> StateAt(flow, state, path[last]),
         actions |-> WalkEffects(flow, path, last, first),
         awaitingInput |-> AwaitsInput(flow, path[last])]
  BY Zenon DEF Walk
<1>2. stops \subseteq 0..GUARD_MAX
  BY StopsType
<1> HIDE DEF path, last
<1> HIDE DEF stops
<1>3. stops # {}
  <2>1. Walk(flow, state, first).throws = (stops = {})
    BY <1>1
  <2> QED
    BY <2>1, Zenon
<1>4. last \in stops /\ \A m \in stops : last <= m
  BY <1>2, <1>3, FirstStop DEF last
<1> USE DEF stops
<1>5. last \in 0..GUARD_MAX
  BY <1>2, <1>4
<1>6. ASSUME NEW n \in 0..GUARD_MAX, n < last
      PROVE  Passes(flow, path[n])
  <2>1. n \notin stops
    BY <1>4, <1>5, <1>6, EngineAssumption DEF EngineAssumption
  <2>2. n < GUARD_MAX
    BY <1>5, <1>6, EngineAssumption DEF EngineAssumption
  <2> QED
    BY <2>1, <2>2 DEF Stops
<1>7. path[last] = NULL \/ (last < GUARD_MAX /\ ~Passes(flow, path[last]))
  BY <1>4 DEF Stops
<1>8. (stops = {}) = FALSE
  BY <1>3
<1> HIDE DEF stops
<1> QED
  BY <1>1, <1>5, <1>6, <1>7, <1>8

-------------------------------------------------------------------------------
(* What the engine's calls return *)

LEMMA QuietlyResult ==
  ASSUME NEW state \in FlowState, NEW first \in Effect, NEW awaitingInput \in BOOLEAN
  PROVE  IsResult(Quietly(state, first, awaitingInput))
BY NoEffectType DEF Quietly, IsResult

LEMMA ResumedType ==
  ASSUME NEW state \in FlowState
  PROVE  Resumed(state) \in FlowState
BY DEF Resumed, FlowState

LEMMA StartResult ==
  ASSUME NEW flow, IsFlowDefinition(flow)
  PROVE  IsResult(Start(flow))
<1>1. [EmptyState EXCEPT !.node = flow.start] \in FlowState
  BY EmptyStateType DEF FlowState, IsFlowDefinition
<1> QED
  BY <1>1, WalkResult, NoEffectType DEF Start

LEMMA ResumeBookingResult ==
  ASSUME NEW flow, IsFlowDefinition(flow), NEW state \in FlowState
  PROVE  IsResult(ResumeBooking(flow, state))
<1>1. [Resumed(state) EXCEPT !.offered = 0] \in FlowState
  BY ResumedType DEF FlowState
<1> QED
  BY <1>1, WalkResult, NoEffectType DEF ResumeBooking

LEMMA ResumeDelayResult ==
  ASSUME NEW flow, IsFlowDefinition(flow), NEW state \in FlowState
  PROVE  IsResult(ResumeDelay(flow, state))
BY ResumedType, WalkResult, QuietlyResult, NoEffectType DEF ResumeDelay

LEMMA RefusedResult ==
  ASSUME NEW state \in FlowState
  PROVE  IsResult(Refused(state))
<1>1. [state EXCEPT !.retries = @ + 1] \in FlowState
  BY DEF FlowState
<1>2. [state EXCEPT !.retries = @ + 1, !.status = "handoff"] \in FlowState
  <2>1. state.retries + 1 \in Nat
    BY DEF FlowState
  <2>2. ASSUME NEW n \in Nat
        PROVE  [state EXCEPT !.retries = n, !.status = "handoff"] \in FlowState
    BY DEF FlowState
  <2> QED
    BY <2>1, <2>2
<1>3. [NoEffect EXCEPT !.kind = "handoff_to_human"] \in Effect
  BY DEF NoEffect, Effect, EffectKind
<1>4. [NoEffect EXCEPT !.kind = "send_message", !.node = state.node] \in Effect
  BY DEF NoEffect, Effect, EffectKind, FlowState
<1> QED
  BY <1>1, <1>2, <1>3, <1>4, QuietlyResult DEF Refused

\* An accepted answer is a text.
LEMMA CoerceType ==
  ASSUME NEW node \in QuestionNode, NEW text \in Texts
  PROVE  Coerce(text, node) \in Answer
<1>1. CASE node.expect = "choice"
  <2>1. \A i \in DOMAIN node.choices : node.choices[i] \in Texts
    BY DEF QuestionNode
  <2> QED
    BY <1>1, <2>1 DEF Coerce
<1>2. CASE node.expect # "choice"
  BY <1>2, EngineAssumption DEF Coerce, QuestionNode, EngineAssumption
<1> QED
  BY <1>1, <1>2

LEMMA BranchType ==
  ASSUME NEW node \in QuestionNode, NEW value
  PROVE  Branch(node, value) \in Target
BY DEF Branch, QuestionNode

LEMMA QuestionType ==
  ASSUME NEW flow, IsFlowDefinition(flow), NEW id \in DOMAIN flow.nodes,
         IsQuestion(flow.nodes[id])
  PROVE  id \in Nodes /\ flow.nodes[id] \in QuestionNode
BY DEF IsFlowDefinition, IsFlowNode, IsQuestion,
     MessageNode, QuestionNode, DelayNode, ConditionNode, ActionNode

LEMMA AnsweredResult ==
  ASSUME NEW flow, IsFlowDefinition(flow), NEW state \in FlowState,
         NEW node \in QuestionNode, NEW value \in Answer
  PROVE  IsResult(Answered(flow, state, node, value))
<1>1. node.field \in Fields
  BY DEF QuestionNode
<1>2. [kind |-> "save_field", node |-> NULL, field |-> node.field, value |-> value] \in Effect
  BY <1>1 DEF Effect, EffectKind
<1>3. Branch(node, value) \in Target
  BY BranchType
<1>4. [state EXCEPT !.answers[node.field] = value, !.retries = 0,
                    !.node = Branch(node, value)] \in FlowState
  BY <1>1, <1>3 DEF FlowState
<1> QED
  BY <1>2, <1>4, WalkResult DEF Answered

\* A call of the reducer from a typed state returns a typed result.
LEMMA StepResult ==
  ASSUME NEW flow, IsFlowDefinition(flow), NEW state \in FlowState, NEW text \in Texts
  PROVE  IsResult(Step(flow, state, text))
<1> DEFINE node == flow.nodes[state.node]
           atQuestion == state.node \in DOMAIN flow.nodes /\ IsQuestion(node)
<1>1. CASE state.awaiting = "booking"
  BY <1>1, QuietlyResult, NoEffectType DEF Step
<1>2. CASE state.awaiting = "delay"
  BY <1>2, ResumeDelayResult DEF Step
<1>3. CASE state.awaiting \notin {"booking", "delay"} /\ IsOver(state)
  BY <1>3, QuietlyResult, NoEffectType DEF Step
<1>4. CASE state.awaiting \notin {"booking", "delay"} /\ ~IsOver(state) /\ ~atQuestion
  <2>1. [state EXCEPT !.retries = 0] \in FlowState
    BY DEF FlowState
  <2> QED
    BY <1>4, <2>1, WalkResult, NoEffectType DEF Step
<1>5. CASE state.awaiting \notin {"booking", "delay"} /\ ~IsOver(state) /\ atQuestion
  <2>1. node \in QuestionNode
    BY <1>5, QuestionType
  <2>2. Coerce(text, node) \in Answer
    BY <2>1, CoerceType
  <2>3. IsResult(Refused(state)) /\ IsResult(Answered(flow, state, node, Coerce(text, node)))
    BY <2>1, <2>2, RefusedResult, AnsweredResult
  <2> QED
    BY <1>5, <2>3 DEF Step
<1> QED
  BY <1>1, <1>2, <1>3, <1>4, <1>5

-------------------------------------------------------------------------------
(* The contract *)

\* What a call leaves: a state, its effects and its awaitingInput flag.
Waits(f, state, awaitingInput) ==
  IF state.status = "active"
  THEN /\ state.node \in DOMAIN f.nodes
       /\ state.retries <= MAX_RETRIES
       /\ \/ /\ state.awaiting = "none"
             /\ IsQuestion(f.nodes[state.node]) /\ awaitingInput
          \/ /\ state.awaiting = "delay" /\ ~awaitingInput
             /\ f.nodes[state.node].type = "delay"
             /\ state.resume = f.nodes[state.node].next
          \/ /\ state.awaiting = "booking" /\ awaitingInput
             /\ IsBooking(f.nodes[state.node])
             /\ state.resume = f.nodes[state.node].next
  ELSE /\ state.awaiting = "none" /\ ~awaitingInput
       /\ state.node # NULL =>
            /\ state.status = "handoff"
            /\ state.node \in DOMAIN f.nodes /\ IsQuestion(f.nodes[state.node])
            /\ state.retries = MAX_RETRIES + 1

TellsTimer(state, acts) ==
  \A node \in Target :
    Said(acts, "schedule_delay", node) <=> state.awaiting = "delay" /\ state.resume = node

Asks(f, state, acts) ==
  /\ state.status = "active" /\ state.node \in DOMAIN f.nodes
  /\ IsQuestion(f.nodes[state.node])
  => Said(acts, "send_message", state.node)

Contract(f, state, acts, awaitingInput) ==
  /\ state.awaiting = "none" => state.resume = NULL
  /\ Waits(f, state, awaitingInput)
  /\ TellsTimer(state, acts)
  /\ Asks(f, state, acts)

Keeps(f, result) == Contract(f, result.state, result.actions, result.awaitingInput)

\* No pause is pending in the state a walk starts from.
Unpaused(state) == state.awaiting = "none" /\ state.resume = NULL

\* Effects that are no timer requests and may be emitted before a walk begins.
Immediate(effect) == effect \in Effect /\ effect.kind \in {"none", "save_field"}

-------------------------------------------------------------------------------
(* What a walk leaves *)

\* The node a walk stops at decides what the run waits for.
LEMMA WalkWaits ==
  ASSUME NEW f, IsFlowDefinition(f), NEW state \in FlowState, Unpaused(state), NEW at,
         at = NULL \/ ~Passes(f, at)
  PROVE  LET st == StateAt(f, state, at)
         IN  /\ st.awaiting = "none" => st.resume = NULL
             /\ Waits(f, st, AwaitsInput(f, at))
             /\ st.status = "active" => st.node = at /\ at \in DOMAIN f.nodes
<1> DEFINE st == StateAt(f, state, at)
           node == f.nodes[at]
<1>1. NULL \notin DOMAIN f.nodes
  BY EngineAssumption DEF EngineAssumption, IsFlowDefinition
<1>2. 0 <= MAX_RETRIES
  BY EngineAssumption DEF EngineAssumption
<1>3. CASE at = NULL
  BY <1>1, <1>3 DEF StateAt, Finish, FlowState, Unpaused, Waits, AwaitsInput
<1>4. CASE at # NULL /\ at \notin DOMAIN f.nodes
  BY <1>4 DEF StateAt, Finish, FlowState, Unpaused, Waits, AwaitsInput
<1>5. CASE at # NULL /\ at \in DOMAIN f.nodes
  <2>1. IsFlowNode(node) /\ ~Passes(f, at)
    BY <1>5 DEF IsFlowDefinition
  <2>2. node.type = "question" \/ node.type = "delay" \/ node.type = "action"
    BY <1>5, <2>1 DEF Passes, IsFlowNode,
         MessageNode, QuestionNode, DelayNode, ConditionNode, ActionNode
  <2>3. CASE IsQuestion(node)
    BY <1>2, <1>5, <2>3 DEF StateAt, FlowState, Unpaused, Waits, AwaitsInput, IsQuestion, IsBooking
  <2>4. CASE node.type = "delay"
    BY <1>2, <1>5, <2>4
       DEF StateAt, Pause, FlowState, Unpaused, Waits, AwaitsInput, IsQuestion, IsBooking
  <2>5. CASE IsBooking(node)
    BY <1>2, <1>5, <2>5
       DEF StateAt, Pause, FlowState, Unpaused, Waits, AwaitsInput, IsQuestion, IsBooking
  <2>6. CASE node.type = "action" /\ ~IsBooking(node)
    <3>1. st.node = NULL /\ st.status # "active" /\ st.awaiting = "none" /\ st.resume = NULL
      BY <1>5, <2>6 DEF StateAt, Finish, FlowState, Unpaused, IsQuestion, IsBooking
    <3>2. ~AwaitsInput(f, at)
      BY <2>6 DEF AwaitsInput, IsQuestion
    <3> QED
      BY <3>1, <3>2 DEF Waits
  <2> QED
    BY <2>2, <2>3, <2>4, <2>5, <2>6 DEF IsQuestion
<1> QED
  BY <1>3, <1>4, <1>5

\* A node is a delay exactly when its effect requests a timer.
LEMMA TimerEffects ==
  ASSUME NEW id \in Nodes, NEW node, IsFlowNode(node)
  PROVE  /\ EffectOf(id, node).kind = "schedule_delay" <=> node.type = "delay"
         /\ node.type = "delay" => EffectOf(id, node).node = node.next /\ node.next \in Target
         /\ IsQuestion(node) => /\ EffectOf(id, node).kind = "send_message"
                                /\ EffectOf(id, node).node = id
BY DEF EffectOf, ActionToEffect, NoEffect, ActionKind, IsQuestion, IsFlowNode,
     MessageNode, QuestionNode, DelayNode, ConditionNode, ActionNode

LEMMA WalkContract ==
  ASSUME NEW f, IsFlowDefinition(f), NEW state \in FlowState, Unpaused(state),
         NEW first, Immediate(first), ~Walk(f, state, first).throws
  PROVE  Keeps(f, Walk(f, state, first))
<1>1. PICK path : \E last \in 0..GUARD_MAX :
        /\ \A n \in 0..GUARD_MAX : n < last => Passes(f, path[n])
        /\ path[last] = NULL \/ (last < GUARD_MAX /\ ~Passes(f, path[last]))
        /\ Walk(f, state, first) =
             [throws |-> FALSE,
              state |-> StateAt(f, state, path[last]),
              actions |-> WalkEffects(f, path, last, first),
              awaitingInput |-> AwaitsInput(f, path[last])]
  BY WalkStops
<1>2. PICK last \in 0..GUARD_MAX :
        /\ \A n \in 0..GUARD_MAX : n < last => Passes(f, path[n])
        /\ path[last] = NULL \/ (last < GUARD_MAX /\ ~Passes(f, path[last]))
        /\ Walk(f, state, first) =
             [throws |-> FALSE,
              state |-> StateAt(f, state, path[last]),
              actions |-> WalkEffects(f, path, last, first),
              awaitingInput |-> AwaitsInput(f, path[last])]
  BY <1>1, Zenon
<1> DEFINE at == path[last]
           st == StateAt(f, state, at)
           acts == WalkEffects(f, path, last, first)
           waits == AwaitsInput(f, at)
<1>3. /\ st.awaiting = "none" => st.resume = NULL
      /\ Waits(f, st, waits)
      /\ st.status = "active" => st.node = at /\ at \in DOMAIN f.nodes
  BY <1>2, WalkWaits
<1>4. GUARD_MAX \in Nat /\ NULL \notin DOMAIN f.nodes
  BY EngineAssumption DEF EngineAssumption, IsFlowDefinition
<1>5. \A id \in DOMAIN f.nodes : id \in Nodes /\ IsFlowNode(f.nodes[id])
  BY DEF IsFlowDefinition
<1>6. \A n \in 1..last : f.nodes[path[n - 1]].type # "delay"
  <2>1. ASSUME NEW n \in 1..last PROVE Passes(f, path[n - 1])
    BY <1>2, <1>4
  <2> QED
    BY <2>1 DEF Passes
<1>7. ASSUME at \in DOMAIN f.nodes
      PROVE  last + 1 \in 1..GUARD_MAX /\ acts[last + 1] = EffectOf(at, f.nodes[at])
  <2>1. last < GUARD_MAX
    BY <1>2, <1>4, <1>7
  <2> QED
    BY <1>4, <1>7, <2>1 DEF WalkEffects
<1>8. \A n \in DOMAIN acts : acts[n].kind = "schedule_delay" =>
        /\ n = last + 1 /\ at \in DOMAIN f.nodes
        /\ acts[n] = EffectOf(at, f.nodes[at])
  <2> SUFFICES ASSUME NEW n \in 0..GUARD_MAX, acts[n].kind = "schedule_delay"
               PROVE  /\ n = last + 1 /\ at \in DOMAIN f.nodes
                      /\ acts[n] = EffectOf(at, f.nodes[at])
    BY DEF WalkEffects
  <2>1. n # 0
    BY DEF WalkEffects, Immediate
  <2>2. /\ n - 1 <= last /\ path[n - 1] \in DOMAIN f.nodes
        /\ acts[n] = EffectOf(path[n - 1], f.nodes[path[n - 1]])
    BY <2>1 DEF WalkEffects, NoEffect
  <2>3. f.nodes[path[n - 1]].type = "delay"
    BY <1>5, <2>2, TimerEffects
  <2>4. n \notin 1..last
    BY <1>6, <2>3
  <2>5. n = last + 1
    BY <1>4, <2>1, <2>2, <2>4
  <2> QED
    BY <2>2, <2>5
<1>9. TellsTimer(st, acts)
  <2> SUFFICES ASSUME NEW to \in Target
               PROVE  Said(acts, "schedule_delay", to)
                        <=> st.awaiting = "delay" /\ st.resume = to
    BY DEF TellsTimer
  <2>1. ASSUME Said(acts, "schedule_delay", to)
        PROVE  st.awaiting = "delay" /\ st.resume = to
    <3>1. PICK n \in DOMAIN acts : acts[n].kind = "schedule_delay" /\ acts[n].node = to
      BY <2>1 DEF Said
    <3>2. at \in DOMAIN f.nodes /\ acts[n] = EffectOf(at, f.nodes[at])
      BY <1>8, <3>1
    <3>3. f.nodes[at].type = "delay" /\ f.nodes[at].next = to
      BY <1>5, <3>1, <3>2, TimerEffects
    <3> QED
      <4>1. st = Pause(f, state, at, "delay")
        BY <1>4, <3>2, <3>3 DEF StateAt, IsQuestion, IsBooking
      <4> QED
        BY <3>3, <4>1 DEF Pause, FlowState
  <2>2. ASSUME st.awaiting = "delay", st.resume = to
        PROVE  Said(acts, "schedule_delay", to)
    <3>1. /\ at \in DOMAIN f.nodes /\ f.nodes[at].type = "delay"
          /\ f.nodes[at].next = to
      BY <1>3, <2>2 DEF Waits
    <3>2. acts[last + 1].kind = "schedule_delay" /\ acts[last + 1].node = to
      BY <1>5, <1>7, <3>1, TimerEffects
    <3> QED
      BY <1>7, <3>1, <3>2 DEF Said, WalkEffects
  <2> QED
    BY <2>1, <2>2
<1>10. Asks(f, st, acts)
  <2> SUFFICES ASSUME st.status = "active", IsQuestion(f.nodes[st.node])
               PROVE  Said(acts, "send_message", st.node)
    BY DEF Asks
  <2>1. st.node = at /\ at \in DOMAIN f.nodes
    BY <1>3
  <2>2. acts[last + 1].kind = "send_message" /\ acts[last + 1].node = at
    BY <1>5, <1>7, <2>1, TimerEffects
  <2> QED
    BY <1>7, <2>1, <2>2 DEF Said, WalkEffects
<1> QED
  BY <1>2, <1>3, <1>9, <1>10 DEF Keeps, Contract

-------------------------------------------------------------------------------
(* What the other calls leave *)

\* A call that emits at most one effect keeps the contract, unless it requests a
\* timer or leaves a question unasked.
LEMMA QuietContract ==
  ASSUME NEW f, NEW state, NEW first, NEW awaitingInput,
         Waits(f, state, awaitingInput),
         state.awaiting = "none" => state.resume = NULL,
         state.awaiting # "delay", first.kind # "schedule_delay",
         /\ state.status = "active" /\ state.node \in DOMAIN f.nodes
         /\ IsQuestion(f.nodes[state.node])
         => first.kind = "send_message" /\ first.node = state.node
  PROVE  Keeps(f, Quietly(state, first, awaitingInput))
<1> DEFINE acts == [n \in 0..GUARD_MAX |-> IF n = 0 THEN first ELSE NoEffect]
<1>1. /\ Quietly(state, first, awaitingInput).state = state
      /\ Quietly(state, first, awaitingInput).actions = acts
      /\ Quietly(state, first, awaitingInput).awaitingInput = awaitingInput
  BY DEF Quietly
<1>2. 0 \in DOMAIN acts /\ acts[0] = first
  BY EngineAssumption DEF EngineAssumption
<1>3. \A n \in DOMAIN acts : acts[n].kind # "schedule_delay"
  BY DEF NoEffect
<1> HIDE DEF acts
<1>4. TellsTimer(state, acts)
  BY <1>3 DEF TellsTimer, Said
<1>5. Asks(f, state, acts)
  BY <1>2 DEF Asks, Said
<1> QED
  BY <1>1, <1>4, <1>5 DEF Keeps, Contract

LEMMA RefusedContract ==
  ASSUME NEW f, NEW state \in FlowState, Unpaused(state), state.status = "active",
         state.node \in DOMAIN f.nodes, IsQuestion(f.nodes[state.node]),
         state.retries <= MAX_RETRIES
  PROVE  Keeps(f, Refused(state))
<1> DEFINE prompt == [NoEffect EXCEPT !.kind = "send_message", !.node = state.node]
           over == [NoEffect EXCEPT !.kind = "handoff_to_human"]
           again == [state EXCEPT !.retries = @ + 1]
           given == [state EXCEPT !.retries = @ + 1, !.status = "handoff"]
<1>1. state.retries \in Nat /\ MAX_RETRIES \in Nat
  BY EngineAssumption DEF FlowState, EngineAssumption
<1>2. /\ prompt.kind = "send_message" /\ prompt.node = state.node
      /\ over.kind = "handoff_to_human"
  BY DEF NoEffect
<1>3. CASE GivesUp(state.retries + 1)
  <2>1. Refused(state) = Quietly(given, over, FALSE)
    BY <1>3 DEF Refused
  <2>2. /\ given.status = "handoff" /\ given.awaiting = "none" /\ given.resume = NULL
        /\ given.node = state.node /\ given.retries = MAX_RETRIES + 1
    BY <1>1, <1>3 DEF GivesUp, FlowState, Unpaused
  <2> HIDE DEF given, over
  <2>3. Waits(f, given, FALSE)
    BY <2>2 DEF Waits
  <2>4. Keeps(f, Quietly(given, over, FALSE))
    BY <1>2, <2>2, <2>3, QuietContract
  <2> QED
    BY <2>1, <2>4
<1>4. CASE ~GivesUp(state.retries + 1)
  <2>1. Refused(state) = Quietly(again, prompt, TRUE)
    BY <1>4 DEF Refused
  <2>2. /\ again.status = "active" /\ again.awaiting = "none" /\ again.resume = NULL
        /\ again.node = state.node /\ again.retries <= MAX_RETRIES
    BY <1>1, <1>4 DEF GivesUp, FlowState, Unpaused
  <2> HIDE DEF again, prompt
  <2>3. Waits(f, again, TRUE)
    BY <2>2 DEF Waits
  <2>4. Keeps(f, Quietly(again, prompt, TRUE))
    BY <1>2, <2>2, <2>3, QuietContract
  <2> QED
    BY <2>1, <2>4
<1> QED
  BY <1>3, <1>4

\* A call that does nothing keeps the contract of a run that is over, or that
\* waits for its booking.
LEMMA SilentContract ==
  ASSUME NEW f, NEW state, NEW awaitingInput, Waits(f, state, awaitingInput),
         state.status # "active" \/ state.awaiting = "booking",
         state.awaiting = "none" => state.resume = NULL
  PROVE  Keeps(f, Quietly(state, NoEffect, awaitingInput))
<1>1. state.awaiting # "delay"
  BY DEF Waits
<1>2. NoEffect.kind # "schedule_delay"
  BY DEF NoEffect
<1>3. ~(/\ state.status = "active" /\ state.node \in DOMAIN f.nodes
        /\ IsQuestion(f.nodes[state.node]))
  BY DEF Waits, IsQuestion, IsBooking
<1> QED
  BY <1>1, <1>2, <1>3, QuietContract

LEMMA StartContract ==
  ASSUME NEW f, IsFlowDefinition(f), ~Start(f).throws
  PROVE  Keeps(f, Start(f))
<1>1. [EmptyState EXCEPT !.node = f.start] \in FlowState
  BY EmptyStateType DEF FlowState, IsFlowDefinition, Target
<1>2. Unpaused([EmptyState EXCEPT !.node = f.start])
  BY DEF Unpaused, EmptyState
<1>3. Immediate(NoEffect)
  BY NoEffectType DEF Immediate, NoEffect
<1> QED
  BY <1>1, <1>2, <1>3, WalkContract DEF Start

LEMMA ResumedUnpaused ==
  ASSUME NEW state \in FlowState
  PROVE  /\ Resumed(state) \in FlowState /\ Unpaused(Resumed(state))
         /\ [Resumed(state) EXCEPT !.offered = 0] \in FlowState
         /\ Unpaused([Resumed(state) EXCEPT !.offered = 0])
<1>1. Resumed(state) \in FlowState
  BY ResumedType
<1>2. Unpaused(Resumed(state))
  BY DEF Resumed, Unpaused, FlowState
<1>3. /\ [Resumed(state) EXCEPT !.offered = 0] \in FlowState
      /\ Unpaused([Resumed(state) EXCEPT !.offered = 0])
  BY <1>1, <1>2 DEF Unpaused, FlowState
<1> QED
  BY <1>1, <1>2, <1>3

LEMMA ResumeBookingContract ==
  ASSUME NEW f, IsFlowDefinition(f), NEW state \in FlowState, ~ResumeBooking(f, state).throws
  PROVE  Keeps(f, ResumeBooking(f, state))
<1>1. Immediate(NoEffect)
  BY NoEffectType DEF Immediate, NoEffect
<1> QED
  BY <1>1, ResumedUnpaused, WalkContract DEF ResumeBooking

LEMMA ResumeDelayContract ==
  ASSUME NEW f, IsFlowDefinition(f), NEW state \in FlowState, state.awaiting = "delay",
         ~ResumeDelay(f, state).throws
  PROVE  Keeps(f, ResumeDelay(f, state))
<1>1. Immediate(NoEffect)
  BY NoEffectType DEF Immediate, NoEffect
<1> QED
  BY <1>1, ResumedUnpaused, WalkContract DEF ResumeDelay

LEMMA StepContract ==
  ASSUME NEW f, IsFlowDefinition(f), NEW state \in FlowState, NEW text \in Texts,
         NEW awaitingInput \in BOOLEAN, Waits(f, state, awaitingInput),
         state.awaiting = "none" => state.resume = NULL,
         ~Step(f, state, text).throws
  PROVE  Keeps(f, Step(f, state, text))
<1> DEFINE node == f.nodes[state.node]
<1>1. NULL \notin DOMAIN f.nodes
  BY EngineAssumption DEF EngineAssumption, IsFlowDefinition
<1>2. CASE state.awaiting = "booking"
  <2>1. Waits(f, state, TRUE)
    BY <1>2 DEF Waits
  <2> QED
    BY <1>2, <2>1, SilentContract DEF Step
<1>3. CASE state.awaiting = "delay"
  BY <1>3, ResumeDelayContract DEF Step
<1>4. CASE state.awaiting \notin {"booking", "delay"} /\ IsOver(state)
  <2>1. state.status # "active" /\ Waits(f, state, FALSE)
    BY <1>1, <1>4 DEF Waits, IsOver
  <2> QED
    BY <1>4, <2>1, SilentContract DEF Step
<1>5. CASE state.awaiting \notin {"booking", "delay"} /\ ~IsOver(state)
  <2>1. /\ state.status = "active" /\ state.awaiting = "none"
        /\ state.node \in DOMAIN f.nodes /\ IsQuestion(node)
        /\ state.retries <= MAX_RETRIES
    BY <1>5 DEF Waits, IsOver
  <2>2. Unpaused(state)
    BY <2>1 DEF Unpaused
  <2>3. node \in QuestionNode
    BY <2>1, QuestionType
  <2> DEFINE value == Coerce(text, node)
             first == [kind |-> "save_field", node |-> NULL,
                       field |-> node.field, value |-> value]
             answered == [state EXCEPT !.answers[node.field] = value, !.retries = 0,
                                       !.node = Branch(node, value)]
  <2>4. value \in Answer /\ Branch(node, value) \in Target /\ node.field \in Fields
    BY <2>3, CoerceType, BranchType DEF QuestionNode
  <2>5. Step(f, state, text) = IF value = NULL THEN Refused(state)
                               ELSE Answered(f, state, node, value)
    BY <1>5, <2>1 DEF Step
  <2>6. Immediate(first)
    BY <2>4 DEF Immediate, Effect, EffectKind, Target
  <2>7. answered \in FlowState /\ Unpaused(answered)
    BY <2>2, <2>4 DEF FlowState, Unpaused
  <2>8. Answered(f, state, node, value) = Walk(f, answered, first)
    BY DEF Answered
  <2> HIDE DEF value, first, answered
  <2>9. CASE value = NULL
    BY <2>1, <2>2, <2>5, <2>9, RefusedContract
  <2>10. CASE value # NULL
    BY <2>5, <2>6, <2>7, <2>8, <2>10, WalkContract
  <2> QED
    BY <2>9, <2>10
<1> QED
  BY <1>2, <1>3, <1>4, <1>5

-------------------------------------------------------------------------------
(* The invariant *)

EngineInv ==
  /\ RunTypeOK
  /\ begun => Contract(script, run, actions, listening)
  /\ ~begun => run = EmptyState /\ \A n \in DOMAIN actions : actions[n] = NoEffect

LEMMA LastSavedType ==
  ASSUME NEW acts \in [0..GUARD_MAX -> Effect], NEW f \in Fields
  PROVE  LastSaved(acts, f) \in Answer
<1> DEFINE saves == {n \in DOMAIN acts : acts[n].kind = "save_field" /\ acts[n].field = f}
           final == {acts[n].value : n \in {m \in saves : \A k \in saves : k <= m}}
<1>1. final \subseteq Answer
  BY DEF Effect
<1>2. LastSaved(acts, f) = IF final = {} THEN NULL ELSE CHOOSE v \in final : TRUE
  BY DEF LastSaved
<1> HIDE DEF final
<1> QED
  BY <1>1, <1>2 DEF Answer

\* Taking over a result that keeps the contract keeps the invariant.
LEMMA ApplyKeepsInv ==
  ASSUME EngineInv, NEW call, Apply(call), IsResult(call), ~call.throws => Keeps(script, call)
  PROVE  EngineInv'
<1>1. /\ ~call.throws /\ begun' = TRUE /\ run' = call.state /\ actions' = call.actions
      /\ listening' = call.awaitingInput /\ script' = script
      /\ recorded' = [f \in Fields |-> IF LastSaved(call.actions, f) # NULL
                                    THEN LastSaved(call.actions, f) ELSE recorded[f]]
  BY DEF Apply
<1>2. recorded' \in [Fields -> Answer]
  BY <1>1, LastSavedType DEF EngineInv, RunTypeOK, IsResult
<1>4. RunTypeOK'
  BY <1>1, <1>2 DEF EngineInv, RunTypeOK, IsResult
<1>5. Contract(script, run, actions, listening)'
  BY <1>1 DEF Keeps, Contract, Waits, TellsTimer, Asks, Said
<1> QED
  BY <1>1, <1>4, <1>5 DEF EngineInv

LEMMA InitInv == RunInit => EngineInv
<1> SUFFICES ASSUME RunInit PROVE EngineInv
  OBVIOUS
<1>1. run \in FlowState /\ actions \in [0..GUARD_MAX -> Effect]
  BY EmptyStateType, NoEffectType DEF RunInit
<1>2. recorded \in [Fields -> Answer]
  BY DEF RunInit, Answer
<1> QED
  BY <1>1, <1>2 DEF RunInit, EngineInv, RunTypeOK

LEMMA NextInv == EngineInv /\ [RunNext]_runVars => EngineInv'
<1> SUFFICES ASSUME EngineInv, [RunNext]_runVars PROVE EngineInv'
  OBVIOUS
<1>1. /\ IsFlowDefinition(script) /\ run \in FlowState /\ listening \in BOOLEAN
      /\ begun => Waits(script, run, listening) /\ (run.awaiting = "none" => run.resume = NULL)
  BY FlowsAssumption DEF EngineInv, RunTypeOK, Contract, FlowsAssumption
<1>2. CASE Begin
  <2>1. IsResult(Start(script)) /\ (~Start(script).throws => Keeps(script, Start(script)))
    BY <1>1, StartResult, StartContract
  <2> QED
    BY <1>2, <2>1, ApplyKeepsInv DEF Begin
<1>3. ASSUME NEW text \in Texts, Reply(text) PROVE EngineInv'
  <2>1. /\ IsResult(Step(script, run, text))
        /\ ~Step(script, run, text).throws => Keeps(script, Step(script, run, text))
    BY <1>1, <1>3, StepResult, StepContract DEF Reply
  <2> QED
    BY <1>3, <2>1, ApplyKeepsInv DEF Reply
<1>4. CASE TimerFires
  <2>1. /\ IsResult(ResumeDelay(script, run))
        /\ ~ResumeDelay(script, run).throws => Keeps(script, ResumeDelay(script, run))
    BY <1>1, <1>4, ResumeDelayResult, ResumeDelayContract DEF TimerFires
  <2> QED
    BY <1>4, <2>1, ApplyKeepsInv DEF TimerFires
<1>5. CASE BookingHandled
  <2>1. /\ IsResult(ResumeBooking(script, run))
        /\ ~ResumeBooking(script, run).throws => Keeps(script, ResumeBooking(script, run))
    BY <1>1, ResumeBookingResult, ResumeBookingContract
  <2> QED
    BY <1>5, <2>1, ApplyKeepsInv DEF BookingHandled
<1>6. CASE UNCHANGED runVars
  BY <1>6 DEF runVars, EngineInv, RunTypeOK, Contract, Waits, TellsTimer, Asks, Said
<1> QED
  BY <1>2, <1>3, <1>4, <1>5, <1>6 DEF RunNext

LEMMA Invariance == RunSpec => []EngineInv
BY InitInv, NextInv, PTL DEF RunSpec

-------------------------------------------------------------------------------
(* Where a call leaves a run that pauses *)

\* A state that waits for a booking of the flow resumes after a booking node.
AfterBooking(flow, state) ==
  state.awaiting = "booking" =>
    \E id \in DOMAIN flow.nodes :
      IsBooking(flow.nodes[id]) /\ state.resume = flow.nodes[id].next

\* A call that leaves a timed pause has asked for its timer; one that has asked
\* for a booking leaves the run waiting for it, at a booking node.
Pauses(flow, result) ==
  /\ result.state.awaiting = "delay" => Said(result.actions, "schedule_delay", result.state.resume)
  /\ AfterBooking(flow, result.state)
  /\ (\E n \in DOMAIN result.actions : result.actions[n].kind = "book_appointment")
       => result.state.awaiting = "booking"

\* A walk from a state without a pause pauses only at the node it stops at.
LEMMA StateAtPauses ==
  ASSUME NEW flow, NEW state \in FlowState, state.awaiting = "none", NEW at
  PROVE  /\ StateAt(flow, state, at).awaiting = "delay" =>
              /\ at \in DOMAIN flow.nodes /\ flow.nodes[at].type = "delay"
              /\ StateAt(flow, state, at).resume = flow.nodes[at].next
         /\ StateAt(flow, state, at).awaiting = "booking" =>
              /\ at \in DOMAIN flow.nodes /\ IsBooking(flow.nodes[at])
              /\ StateAt(flow, state, at).resume = flow.nodes[at].next
         /\ at \in DOMAIN flow.nodes /\ at # NULL /\ IsBooking(flow.nodes[at])
              => StateAt(flow, state, at).awaiting = "booking"
<1> DEFINE node == flow.nodes[at]
<1>1. CASE at = NULL \/ at \notin DOMAIN flow.nodes
  <2>1. StateAt(flow, state, at).awaiting = "none"
    BY <1>1 DEF StateAt, Finish, FlowState
  <2> QED
    BY <1>1, <2>1
<1>2. CASE at # NULL /\ at \in DOMAIN flow.nodes /\ IsQuestion(node)
  <2>1. StateAt(flow, state, at).awaiting = "none"
    BY <1>2 DEF StateAt, FlowState, IsQuestion, IsBooking
  <2> QED
    BY <1>2, <2>1 DEF IsQuestion, IsBooking
<1>3. CASE at # NULL /\ at \in DOMAIN flow.nodes /\ node.type = "delay"
  <2>1. StateAt(flow, state, at) = Pause(flow, state, at, "delay")
    BY <1>3 DEF StateAt, IsQuestion, IsBooking
  <2> QED
    BY <1>3, <2>1 DEF Pause, FlowState, IsBooking
<1>4. CASE at # NULL /\ at \in DOMAIN flow.nodes /\ IsBooking(node)
  <2>1. StateAt(flow, state, at) = Pause(flow, state, at, "booking")
    BY <1>4 DEF StateAt, IsQuestion, IsBooking
  <2> QED
    BY <1>4, <2>1 DEF Pause, FlowState
<1>5. CASE /\ at # NULL /\ at \in DOMAIN flow.nodes
           /\ ~IsQuestion(node) /\ node.type # "delay" /\ ~IsBooking(node)
  <2>1. StateAt(flow, state, at) \in {Finish([state EXCEPT !.status = "handoff"]),
                                      Finish([state EXCEPT !.status = "completed"])}
    BY <1>5 DEF StateAt
  <2>2. StateAt(flow, state, at).awaiting = "none"
    BY <2>1 DEF Finish, FlowState
  <2> QED
    BY <1>5, <2>2
<1> QED
  BY <1>1, <1>2, <1>3, <1>4, <1>5

\* Only a booking node asks for a booking.
LEMMA BookingEffect ==
  ASSUME NEW id, NEW node, IsFlowNode(node), EffectOf(id, node).kind = "book_appointment"
  PROVE  IsBooking(node)
BY DEF EffectOf, ActionToEffect, NoEffect, IsBooking, IsFlowNode,
       MessageNode, QuestionNode, DelayNode, ConditionNode, ActionNode

LEMMA WalkPauses ==
  ASSUME NEW flow, IsFlowDefinition(flow), NEW state \in FlowState, state.awaiting = "none",
         NEW first, first.kind # "book_appointment", ~Walk(flow, state, first).throws
  PROVE  Pauses(flow, Walk(flow, state, first))
<1>1. PICK path : \E last \in 0..GUARD_MAX :
        /\ \A n \in 0..GUARD_MAX : n < last => Passes(flow, path[n])
        /\ path[last] = NULL \/ (last < GUARD_MAX /\ ~Passes(flow, path[last]))
        /\ Walk(flow, state, first) =
             [throws |-> FALSE,
              state |-> StateAt(flow, state, path[last]),
              actions |-> WalkEffects(flow, path, last, first),
              awaitingInput |-> AwaitsInput(flow, path[last])]
  BY WalkStops
<1>2. PICK last \in 0..GUARD_MAX :
        /\ \A n \in 0..GUARD_MAX : n < last => Passes(flow, path[n])
        /\ path[last] = NULL \/ (last < GUARD_MAX /\ ~Passes(flow, path[last]))
        /\ Walk(flow, state, first) =
             [throws |-> FALSE,
              state |-> StateAt(flow, state, path[last]),
              actions |-> WalkEffects(flow, path, last, first),
              awaitingInput |-> AwaitsInput(flow, path[last])]
  BY <1>1
<1> DEFINE at == path[last]
           st == StateAt(flow, state, at)
           acts == WalkEffects(flow, path, last, first)
<1>3. NULL \notin DOMAIN flow.nodes /\ GUARD_MAX \in Nat
  BY EngineAssumption DEF EngineAssumption, IsFlowDefinition
<1>4. /\ st.awaiting = "delay" => /\ at \in DOMAIN flow.nodes /\ flow.nodes[at].type = "delay"
                                  /\ st.resume = flow.nodes[at].next
      /\ st.awaiting = "booking" => /\ at \in DOMAIN flow.nodes /\ IsBooking(flow.nodes[at])
                                    /\ st.resume = flow.nodes[at].next
      /\ at \in DOMAIN flow.nodes /\ at # NULL /\ IsBooking(flow.nodes[at])
           => st.awaiting = "booking"
  BY StateAtPauses
<1>5. Walk(flow, state, first).state = st /\ Walk(flow, state, first).actions = acts
  BY <1>2
<1> HIDE DEF st
<1>6. ASSUME st.awaiting = "delay" PROVE Said(acts, "schedule_delay", st.resume)
  <2>1. at # NULL /\ last < GUARD_MAX
    BY <1>2, <1>3, <1>4, <1>6
  <2>2. at \in Nodes /\ IsFlowNode(flow.nodes[at])
    BY <1>4, <1>6 DEF IsFlowDefinition
  <2>3. last + 1 \in 0..GUARD_MAX /\ last + 1 # 0 /\ (last + 1) - 1 = last
    BY <1>3, <2>1
  <2>4. acts[last + 1] = EffectOf(at, flow.nodes[at])
    BY <1>4, <1>6, <2>3 DEF WalkEffects
  <2>5. acts[last + 1].kind = "schedule_delay" /\ acts[last + 1].node = st.resume
    BY <1>4, <1>6, <2>2, <2>4, TimerEffects
  <2>6. DOMAIN acts = 0..GUARD_MAX
    BY DEF WalkEffects
  <2> QED
    BY <2>3, <2>5, <2>6 DEF Said
<1>7. ASSUME NEW n \in DOMAIN acts, acts[n].kind = "book_appointment"
      PROVE  st.awaiting = "booking"
  <2>1. n \in 0..GUARD_MAX
    BY DEF WalkEffects
  <2>2. n # 0
    BY <1>7, <2>1 DEF WalkEffects
  <2>3. n - 1 \in 0..GUARD_MAX
    BY <1>3, <2>1, <2>2
  <2>4. n - 1 <= last /\ path[n - 1] \in DOMAIN flow.nodes
        /\ acts[n] = EffectOf(path[n - 1], flow.nodes[path[n - 1]])
    BY <1>7, <2>1, <2>2 DEF WalkEffects, NoEffect
  <2>5. IsFlowNode(flow.nodes[path[n - 1]])
    BY <2>4 DEF IsFlowDefinition
  <2>6. IsBooking(flow.nodes[path[n - 1]])
    BY <1>7, <2>4, <2>5, BookingEffect
  <2>7. ~Passes(flow, path[n - 1])
    BY <2>6 DEF Passes, IsBooking
  <2>8. n - 1 = last
    BY <1>2, <2>3, <2>4, <2>7
  <2> QED
    BY <1>3, <1>4, <2>4, <2>6, <2>8
<1> HIDE DEF at, acts
<1>8. AfterBooking(flow, st)
  BY <1>4 DEF AfterBooking
<1> QED
  BY <1>5, <1>6, <1>7, <1>8 DEF Pauses

LEMMA QuietPauses ==
  ASSUME NEW flow, NEW state, NEW first, first.kind # "book_appointment", NEW awaitingInput,
         state.awaiting # "delay", AfterBooking(flow, state)
  PROVE  Pauses(flow, Quietly(state, first, awaitingInput))
<1>1. NoEffect.kind # "book_appointment"
  BY DEF NoEffect
<1> QED
  BY <1>1 DEF Pauses, Quietly

LEMMA StartPauses ==
  ASSUME NEW flow, IsFlowDefinition(flow), ~Start(flow).throws
  PROVE  Pauses(flow, Start(flow))
<1>1. /\ [EmptyState EXCEPT !.node = flow.start] \in FlowState
      /\ [EmptyState EXCEPT !.node = flow.start].awaiting = "none"
  BY EmptyStateType DEF FlowState, IsFlowDefinition, EmptyState
<1>2. NoEffect.kind # "book_appointment"
  BY DEF NoEffect
<1> QED
  BY <1>1, <1>2, WalkPauses DEF Start

LEMMA ResumeBookingPauses ==
  ASSUME NEW flow, IsFlowDefinition(flow), NEW state \in FlowState,
         ~ResumeBooking(flow, state).throws
  PROVE  Pauses(flow, ResumeBooking(flow, state))
<1>1. /\ [Resumed(state) EXCEPT !.offered = 0] \in FlowState
      /\ [Resumed(state) EXCEPT !.offered = 0].awaiting = "none"
  BY ResumedType DEF FlowState, Resumed
<1>2. NoEffect.kind # "book_appointment"
  BY DEF NoEffect
<1> QED
  BY <1>1, <1>2, WalkPauses DEF ResumeBooking

LEMMA ResumeDelayPauses ==
  ASSUME NEW flow, IsFlowDefinition(flow), NEW state \in FlowState,
         AfterBooking(flow, state), ~ResumeDelay(flow, state).throws
  PROVE  Pauses(flow, ResumeDelay(flow, state))
<1>1. Resumed(state) \in FlowState /\ Resumed(state).awaiting = "none"
  BY ResumedType DEF FlowState, Resumed
<1>2. NoEffect.kind # "book_appointment"
  BY DEF NoEffect
<1> QED
  BY <1>1, <1>2, WalkPauses, QuietPauses DEF ResumeDelay

LEMMA StepPauses ==
  ASSUME NEW flow, IsFlowDefinition(flow), NEW state \in FlowState, NEW text \in Texts,
         AfterBooking(flow, state), ~Step(flow, state, text).throws
  PROVE  Pauses(flow, Step(flow, state, text))
<1> DEFINE node == flow.nodes[state.node]
           atQuestion == state.node \in DOMAIN flow.nodes /\ IsQuestion(node)
<1>1. NoEffect.kind # "book_appointment"
  BY DEF NoEffect
<1>2. CASE state.awaiting = "booking"
  BY <1>1, <1>2, QuietPauses DEF Step
<1>3. CASE state.awaiting = "delay"
  BY <1>3, ResumeDelayPauses DEF Step
<1>4. CASE state.awaiting \notin {"booking", "delay"} /\ IsOver(state)
  BY <1>1, <1>4, QuietPauses DEF Step
<1>5. CASE state.awaiting \notin {"booking", "delay"} /\ ~IsOver(state) /\ ~atQuestion
  <2>1. /\ [state EXCEPT !.retries = 0] \in FlowState
        /\ [state EXCEPT !.retries = 0].awaiting = "none"
    BY <1>5 DEF FlowState
  <2>2. Step(flow, state, text) = Walk(flow, [state EXCEPT !.retries = 0], NoEffect)
    BY <1>5 DEF Step
  <2> QED
    BY <1>1, <2>1, <2>2, WalkPauses
<1>6. CASE state.awaiting \notin {"booking", "delay"} /\ ~IsOver(state) /\ atQuestion
  <2> DEFINE value == Coerce(text, node)
             first == [kind |-> "save_field", node |-> NULL,
                       field |-> node.field, value |-> value]
             answered == [state EXCEPT !.answers[node.field] = value, !.retries = 0,
                                       !.node = Branch(node, value)]
             prompt == [NoEffect EXCEPT !.kind = "send_message", !.node = state.node]
             over == [NoEffect EXCEPT !.kind = "handoff_to_human"]
             again == [state EXCEPT !.retries = @ + 1]
             handed == [state EXCEPT !.retries = @ + 1, !.status = "handoff"]
  <2>1. node \in QuestionNode
    BY <1>6, QuestionType
  <2>2. value \in Answer /\ Branch(node, value) \in Target /\ node.field \in Fields
    BY <2>1, CoerceType, BranchType DEF QuestionNode
  <2>3. Step(flow, state, text) = IF value = NULL THEN Refused(state)
                                  ELSE Answered(flow, state, node, value)
    BY <1>6 DEF Step
  <2>4. answered \in FlowState /\ answered.awaiting = "none"
    BY <1>6, <2>2 DEF FlowState
  <2>5. Answered(flow, state, node, value) = Walk(flow, answered, first)
    BY DEF Answered
  <2>6. first.kind # "book_appointment" /\ prompt.kind # "book_appointment"
        /\ over.kind # "book_appointment"
    BY DEF NoEffect
  <2>7. /\ again.awaiting = state.awaiting /\ handed.awaiting = state.awaiting
        /\ state.awaiting \notin {"booking", "delay"}
    BY <1>6 DEF FlowState
  <2>8. Refused(state) \in {Quietly(handed, over, FALSE), Quietly(again, prompt, TRUE)}
    BY Zenon DEF Refused
  <2> HIDE DEF value, first, answered, prompt, over, again, handed
  <2>9. Pauses(flow, Refused(state))
    BY <2>6, <2>7, <2>8, QuietPauses DEF AfterBooking
  <2>10. CASE value = NULL
    BY <2>3, <2>9, <2>10
  <2>11. CASE value # NULL
    BY <2>3, <2>4, <2>5, <2>6, <2>11, WalkPauses
  <2> QED
    BY <2>10, <2>11
<1> QED
  BY <1>2, <1>3, <1>4, <1>5, <1>6

-------------------------------------------------------------------------------
(* What the effects leave in the contact record *)

SavesTo(effect, f) == effect.kind = "save_field" /\ effect.field = f

NotWritten(flow, f) ==
  \A id \in DOMAIN flow.nodes : flow.nodes[id].type = "action" => flow.nodes[id].field # f

\* A call and the answers it started from: what its effects leave stored under f
\* is what the answers say, and answers it stores nothing of are as they were.
Records(result, before, f) ==
  result.state.answers[f] = IF LastSaved(result.actions, f) # NULL
                            THEN LastSaved(result.actions, f) ELSE before[f]

\* When only the effect a walk begins with can store f, it decides.
LEMMA OnlyFirstSaves ==
  ASSUME NEW acts \in [0..GUARD_MAX -> Effect], NEW f \in Fields,
         \A n \in 1..GUARD_MAX : ~SavesTo(acts[n], f)
  PROVE  LastSaved(acts, f) = IF SavesTo(acts[0], f) THEN acts[0].value ELSE NULL
<1> DEFINE saves == {n \in DOMAIN acts : acts[n].kind = "save_field" /\ acts[n].field = f}
           final == {acts[n].value : n \in {m \in saves : \A k \in saves : k <= m}}
<1>1. LastSaved(acts, f) = IF final = {} THEN NULL ELSE CHOOSE v \in final : TRUE
  BY DEF LastSaved
<1>2. DOMAIN acts = 0..GUARD_MAX /\ GUARD_MAX \in Nat
  BY EngineAssumption DEF EngineAssumption
<1>3. saves = IF SavesTo(acts[0], f) THEN {0} ELSE {}
  BY <1>2 DEF SavesTo
<1>4. CASE SavesTo(acts[0], f)
  <2>1. saves = {0}
    BY <1>3, <1>4
  <2> HIDE DEF saves
  <2>2. {m \in saves : \A k \in saves : k <= m} = {0}
    BY <2>1
  <2>3. final = {acts[0].value}
    BY <2>2
  <2> HIDE DEF final
  <2> QED
    BY <1>1, <1>4, <2>3
<1>5. CASE ~SavesTo(acts[0], f)
  <2>1. saves = {}
    BY <1>3, <1>5
  <2> HIDE DEF saves
  <2>2. final = {}
    BY <2>1
  <2> HIDE DEF final
  <2> QED
    BY <1>1, <1>5, <2>2
<1> QED
  BY <1>4, <1>5

\* A node that is no save_field of f stores nothing under f.
LEMMA NodeSavesElsewhere ==
  ASSUME NEW id, NEW node, IsFlowNode(node), NEW f \in Fields,
         node.type = "action" => node.field # f
  PROVE  ~SavesTo(EffectOf(id, node), f)
<1>1. NULL # f
  BY EngineAssumption DEF EngineAssumption
<1>2. CASE node.type = "action"
  BY <1>1, <1>2 DEF SavesTo, EffectOf, ActionToEffect, NoEffect
<1>3. CASE node.type # "action"
  BY <1>1, <1>3 DEF SavesTo, EffectOf, NoEffect
<1> QED
  BY <1>2, <1>3

\* Where a run stops, its answers are those the walk began with.
LEMMA StateAtAnswers ==
  ASSUME NEW flow, NEW state \in FlowState, NEW at
  PROVE  StateAt(flow, state, at).answers = state.answers
BY DEF StateAt, Finish, Pause, FlowState

\* A walk stores no more than the effect it begins with.
LEMMA WalkRecords ==
  ASSUME NEW flow, IsFlowDefinition(flow), NEW state \in FlowState, NEW first \in Effect,
         NEW f \in Fields, NotWritten(flow, f), NEW before,
         state.answers[f] = IF SavesTo(first, f) THEN first.value ELSE before[f],
         SavesTo(first, f) => first.value # NULL
  PROVE  Records(Walk(flow, state, first), before, f)
<1> DEFINE path == Path(flow, state)
           last == LastTurn(Stops(flow, path))
           acts == WalkEffects(flow, path, last, first)
<1>1. Walk(flow, state, first) =
        [throws |-> Stops(flow, path) = {},
         state |-> StateAt(flow, state, path[last]),
         actions |-> acts,
         awaitingInput |-> AwaitsInput(flow, path[last])]
  BY DEF Walk
<1>2. StateAt(flow, state, path[last]).answers = state.answers
  BY StateAtAnswers
<1> HIDE DEF path, last
<1>3. acts \in [0..GUARD_MAX -> Effect]
  BY WalkEffectsType
<1>4. acts[0] = first
  BY EngineAssumption DEF EngineAssumption, WalkEffects
<1>5. ASSUME NEW n \in 1..GUARD_MAX PROVE ~SavesTo(acts[n], f)
  <2>1. NULL # f
    BY EngineAssumption DEF EngineAssumption
  <2>2. ~SavesTo(NoEffect, f)
    BY <2>1 DEF SavesTo, NoEffect
  <2>3. CASE path[n - 1] \in DOMAIN flow.nodes
    <3>1. IsFlowNode(flow.nodes[path[n - 1]])
      BY <2>3 DEF IsFlowDefinition
    <3>2. ~SavesTo(EffectOf(path[n - 1], flow.nodes[path[n - 1]]), f)
      BY <2>3, <3>1, NodeSavesElsewhere DEF NotWritten
    <3>3. acts[n] \in {EffectOf(path[n - 1], flow.nodes[path[n - 1]]), NoEffect}
      BY EngineAssumption DEF EngineAssumption, WalkEffects
    <3> QED
      BY <2>2, <3>2, <3>3
  <2>4. CASE path[n - 1] \notin DOMAIN flow.nodes
    <3>1. acts[n] = NoEffect
      BY <2>4, EngineAssumption DEF EngineAssumption, WalkEffects
    <3> QED
      BY <2>2, <3>1
  <2> QED
    BY <2>3, <2>4
<1> HIDE DEF acts
<1>6. LastSaved(acts, f) = IF SavesTo(first, f) THEN first.value ELSE NULL
  BY <1>3, <1>4, <1>5, OnlyFirstSaves
<1> QED
  BY <1>1, <1>2, <1>6 DEF Records

\* A walk that begins with no effect keeps the answers and stores nothing.
LEMMA SilentWalkRecords ==
  ASSUME NEW flow, IsFlowDefinition(flow), NEW state \in FlowState, NEW f \in Fields,
         NotWritten(flow, f), NEW before, state.answers = before
  PROVE  Records(Walk(flow, state, NoEffect), before, f)
<1>1. ~SavesTo(NoEffect, f)
  BY DEF SavesTo, NoEffect
<1>2. state.answers[f] = IF SavesTo(NoEffect, f) THEN NoEffect.value ELSE before[f]
  BY <1>1
<1> QED
  BY <1>1, <1>2, WalkRecords, NoEffectType

\* A call that does not walk stores nothing.
LEMMA QuietRecords ==
  ASSUME NEW state \in FlowState, NEW first \in Effect, first.kind # "save_field",
         NEW awaitingInput, NEW before, NEW f \in Fields, state.answers[f] = before[f]
  PROVE  Records(Quietly(state, first, awaitingInput), before, f)
<1> DEFINE acts == [n \in 0..GUARD_MAX |-> IF n = 0 THEN first ELSE NoEffect]
<1>1. acts \in [0..GUARD_MAX -> Effect] /\ acts[0] = first
  BY NoEffectType, EngineAssumption DEF EngineAssumption
<1>2. \A n \in 1..GUARD_MAX : ~SavesTo(acts[n], f)
  BY EngineAssumption DEF EngineAssumption, SavesTo, NoEffect
<1>3. Quietly(state, first, awaitingInput).actions = acts
      /\ Quietly(state, first, awaitingInput).state = state
  BY DEF Quietly
<1> HIDE DEF acts
<1>4. LastSaved(acts, f) = IF SavesTo(acts[0], f) THEN acts[0].value ELSE NULL
  BY <1>1, <1>2, OnlyFirstSaves
<1> QED
  BY <1>1, <1>3, <1>4 DEF Records, SavesTo

LEMMA StartRecords ==
  ASSUME NEW flow, IsFlowDefinition(flow), NEW f \in Fields, NotWritten(flow, f)
  PROVE  Records(Start(flow), EmptyState.answers, f)
<1>1. [EmptyState EXCEPT !.node = flow.start] \in FlowState
  BY EmptyStateType DEF FlowState, IsFlowDefinition
<1>2. [EmptyState EXCEPT !.node = flow.start].answers = EmptyState.answers
  BY DEF EmptyState
<1> QED
  BY <1>1, <1>2, SilentWalkRecords DEF Start

LEMMA ResumeRecords ==
  ASSUME NEW flow, IsFlowDefinition(flow), NEW state \in FlowState, NEW f \in Fields,
         NotWritten(flow, f)
  PROVE  /\ Records(ResumeDelay(flow, state), state.answers, f)
         /\ Records(ResumeBooking(flow, state), state.answers, f)
<1>1. ~SavesTo(NoEffect, f) /\ NoEffect.kind # "save_field"
  BY DEF SavesTo, NoEffect
<1>2. /\ Resumed(state) \in FlowState /\ Resumed(state).answers = state.answers
      /\ [Resumed(state) EXCEPT !.offered = 0] \in FlowState
      /\ [Resumed(state) EXCEPT !.offered = 0].answers = state.answers
  BY ResumedType DEF Resumed, FlowState
<1>3. Records(Walk(flow, Resumed(state), NoEffect), state.answers, f)
  BY <1>2, SilentWalkRecords
<1>4. Records(ResumeBooking(flow, state), state.answers, f)
  BY <1>2, SilentWalkRecords DEF ResumeBooking
<1>5. Records(Quietly(state, NoEffect, state.status = "active"), state.answers, f)
  BY <1>1, QuietRecords, NoEffectType
<1> QED
  BY <1>3, <1>4, <1>5 DEF ResumeDelay

LEMMA RefusedRecords ==
  ASSUME NEW state \in FlowState, NEW f \in Fields
  PROVE  Records(Refused(state), state.answers, f)
<1> DEFINE prompt == [NoEffect EXCEPT !.kind = "send_message", !.node = state.node]
           over == [NoEffect EXCEPT !.kind = "handoff_to_human"]
           again == [state EXCEPT !.retries = @ + 1]
           handed == [state EXCEPT !.retries = @ + 1, !.status = "handoff"]
<1>1. /\ prompt \in Effect /\ prompt.kind # "save_field"
      /\ over \in Effect /\ over.kind # "save_field"
  BY DEF NoEffect, Effect, EffectKind, FlowState
<1>2. again \in FlowState /\ again.answers = state.answers
  BY DEF FlowState
<1>3. handed \in FlowState /\ handed.answers = state.answers
  <2>1. state.retries + 1 \in Nat
    BY DEF FlowState
  <2> QED
    BY <2>1 DEF FlowState
<1>4. Refused(state) \in {Quietly(handed, over, FALSE), Quietly(again, prompt, TRUE)}
  BY Zenon DEF Refused
<1> HIDE DEF prompt, over, again, handed
<1> QED
  BY <1>1, <1>2, <1>3, <1>4, QuietRecords

LEMMA AnsweredRecords ==
  ASSUME NEW flow, IsFlowDefinition(flow), NEW state \in FlowState,
         NEW node \in QuestionNode, NEW value \in Texts, NEW f \in Fields,
         NotWritten(flow, f)
  PROVE  Records(Answered(flow, state, node, value), state.answers, f)
<1> DEFINE first == [kind |-> "save_field", node |-> NULL, field |-> node.field,
                     value |-> value]
           answered == [state EXCEPT !.answers[node.field] = value, !.retries = 0,
                                     !.node = Branch(node, value)]
<1>1. node.field \in Fields /\ Branch(node, value) \in Target
  BY BranchType DEF QuestionNode
<1>2. first \in Effect /\ first.value # NULL
  BY <1>1, EngineAssumption DEF EngineAssumption, Effect, EffectKind
<1>3. answered \in FlowState
  BY <1>1 DEF FlowState
<1>4. SavesTo(first, f) <=> node.field = f
  BY DEF SavesTo
<1>5. answered.answers[f] = IF SavesTo(first, f) THEN first.value ELSE state.answers[f]
  BY <1>1, <1>4 DEF FlowState
<1>6. Answered(flow, state, node, value) = Walk(flow, answered, first)
  BY DEF Answered
<1> HIDE DEF first, answered
<1> QED
  BY <1>2, <1>3, <1>5, <1>6, WalkRecords

LEMMA StepRecords ==
  ASSUME NEW flow, IsFlowDefinition(flow), NEW state \in FlowState, NEW text \in Texts,
         NEW f \in Fields, NotWritten(flow, f)
  PROVE  Records(Step(flow, state, text), state.answers, f)
<1> DEFINE node == flow.nodes[state.node]
           atQuestion == state.node \in DOMAIN flow.nodes /\ IsQuestion(node)
<1>1. ~SavesTo(NoEffect, f) /\ NoEffect.kind # "save_field"
  BY DEF SavesTo, NoEffect
<1>2. CASE state.awaiting = "booking"
  BY <1>1, <1>2, QuietRecords, NoEffectType DEF Step
<1>3. CASE state.awaiting = "delay"
  BY <1>3, ResumeRecords DEF Step
<1>4. CASE state.awaiting \notin {"booking", "delay"} /\ IsOver(state)
  BY <1>1, <1>4, QuietRecords, NoEffectType DEF Step
<1>5. CASE state.awaiting \notin {"booking", "delay"} /\ ~IsOver(state) /\ ~atQuestion
  <2>1. /\ [state EXCEPT !.retries = 0] \in FlowState
        /\ [state EXCEPT !.retries = 0].answers = state.answers
    BY DEF FlowState
  <2>2. Records(Walk(flow, [state EXCEPT !.retries = 0], NoEffect), state.answers, f)
    BY <2>1, SilentWalkRecords
  <2> QED
    BY <1>5, <2>2 DEF Step
<1>6. CASE state.awaiting \notin {"booking", "delay"} /\ ~IsOver(state) /\ atQuestion
  <2>1. node \in QuestionNode
    BY <1>6, QuestionType
  <2>2. Coerce(text, node) \in Answer
    BY <2>1, CoerceType
  <2>3. Records(Refused(state), state.answers, f)
    BY RefusedRecords
  <2>4. ASSUME Coerce(text, node) # NULL
        PROVE  Records(Answered(flow, state, node, Coerce(text, node)), state.answers, f)
    BY <2>1, <2>2, <2>4, AnsweredRecords DEF Answer
  <2> QED
    BY <1>6, <2>3, <2>4 DEF Step
<1> QED
  BY <1>2, <1>3, <1>4, <1>5, <1>6

\* A step that takes over such a result keeps the record in step with the answers.
LEMMA ApplyRecords ==
  ASSUME EngineInv, SavedFieldsAreAnswers, NEW call, Apply(call),
         \A f \in Fields : NotWritten(script, f) => Records(call, run.answers, f)
  PROVE  SavedFieldsAreAnswers'
<1>1. /\ run' = call.state /\ script' = script
      /\ recorded' = [f \in Fields |-> IF LastSaved(call.actions, f) # NULL
                                    THEN LastSaved(call.actions, f) ELSE recorded[f]]
  BY DEF Apply
<1>2. ASSUME NEW f \in Fields, NotWritten(script, f)
      PROVE  recorded'[f] = run'.answers[f]
  <2>1. recorded[f] = run.answers[f]
    BY <1>2 DEF SavedFieldsAreAnswers, NotWritten
  <2>2. Records(call, run.answers, f)
    BY <1>2
  <2> QED
    BY <1>1, <2>1, <2>2 DEF Records
<1> QED
  BY <1>1, <1>2 DEF SavedFieldsAreAnswers, NotWritten

-------------------------------------------------------------------------------
(* Flows that do not come back *)

\* The nodes a run may go to from a node it has been at.
Exits(node) ==
  IF IsFinal(node) THEN {}
  ELSE IF IsQuestion(node) THEN {node.next} \cup {node.branches[t] : t \in DOMAIN node.branches}
  ELSE IF node.type = "condition" THEN {node.then, node.else}
  ELSE {node.next}

\* Every way out of a node of the flow leads down.
Descends(flow, rank) ==
  /\ rank \in [Target -> Nat]
  /\ \A id \in DOMAIN flow.nodes : \A to \in Exits(flow.nodes[id]) : rank[to] < rank[id]

\* The run has left the pauses that resume at "to" behind, and no longer waits
\* in one of them.
Past(rank, state, to) ==
  IF state.awaiting = "none"
  THEN state.status # "active" \/ (state.node # NULL /\ rank[state.node] <= rank[to])
  ELSE rank[state.resume] < rank[to]

\* A run that waits in a pause is live and at a node.
Sound(state) == state.awaiting # "none" => state.status = "active" /\ state.node # NULL

\* What is behind a run stays behind it, and so does a timed pause it was in.
Onward(rank, before, after) ==
  /\ \A to \in Target : Past(rank, before, to) => Past(rank, after, to)
  /\ before.awaiting = "delay" => Past(rank, after, before.resume)

\* The path of a walk begins at the state's node and goes from each node to its
\* successor.
LEMMA PathExists ==
  ASSUME NEW next \in [Target -> Target], NEW start \in Target
  PROVE  \E path \in [0..GUARD_MAX -> Target] :
           path = [n \in 0..GUARD_MAX |-> IF n = 0 THEN start ELSE next[path[n - 1]]]
<1> DEFINE Follows(path, m) == /\ path \in [0..m -> Target] /\ path[0] = start
                               /\ \A n \in 1..m : path[n] = next[path[n - 1]]
           stuck == {m \in Nat : ~\E path \in [0..m -> Target] : Follows(path, m)}
<1>1. stuck = {}
  <2> SUFFICES ASSUME stuck # {} PROVE FALSE
    OBVIOUS
  <2>1. stuck \subseteq Nat
    OBVIOUS
  <2>2. PICK m \in stuck : \A k \in stuck : m <= k
    BY <2>1, LeastNatural
  <2>3. CASE m = 0
    <3> DEFINE path == [n \in 0..0 |-> start]
    <3>1. path \in [0..0 -> Target] /\ path[0] = start /\ 1..0 = {}
      OBVIOUS
    <3>2. Follows(path, 0)
      BY <3>1
    <3> QED
      BY <2>3, <3>1, <3>2
  <2>4. CASE m # 0
    <3>1. m \in Nat /\ m - 1 \in Nat /\ ~(m <= m - 1)
      BY <2>4
    <3>2. m - 1 \notin stuck
      BY <2>2, <3>1
    <3>3. PICK path \in [0..(m - 1) -> Target] : Follows(path, m - 1)
      BY <3>1, <3>2
    <3> DEFINE longer == [n \in 0..m |-> IF n = m THEN next[path[m - 1]] ELSE path[n]]
    <3>4. \A n \in 0..m : n # m => n \in 0..(m - 1)
      BY <3>1
    <3>5. path[m - 1] \in Target
      BY <3>1
    <3>6. longer \in [0..m -> Target]
      BY <3>4, <3>5
    <3>7. longer[0] = start
      BY <2>4, <3>1, <3>3
    <3>8. ASSUME NEW n \in 1..m PROVE longer[n] = next[longer[n - 1]]
      <4>1. n - 1 \in 0..m /\ n - 1 # m /\ n \in 0..m
        BY <3>1
      <4>2. longer[n - 1] = path[n - 1]
        BY <4>1
      <4>3. CASE n = m
        BY <4>1, <4>2, <4>3
      <4>4. CASE n # m
        <5>1. n \in 1..(m - 1)
          BY <3>1, <4>4
        <5>2. path[n] = next[path[n - 1]]
          BY <3>3, <5>1
        <5> QED
          BY <4>1, <4>2, <4>4, <5>2
      <4> QED
        BY <4>3, <4>4
    <3> HIDE DEF longer
    <3>9. Follows(longer, m)
      BY <3>6, <3>7, <3>8
    <3> QED
      BY <3>1, <3>6, <3>9
  <2> QED
    BY <2>3, <2>4
<1>2. GUARD_MAX \in Nat
  BY EngineAssumption DEF EngineAssumption
<1>3. PICK path \in [0..GUARD_MAX -> Target] : Follows(path, GUARD_MAX)
  BY <1>1, <1>2
<1>4. \A n \in 0..GUARD_MAX : n # 0 => n \in 1..GUARD_MAX
  BY <1>2
<1>5. 0 \in 0..GUARD_MAX
  BY <1>2
<1>6. \A n \in 0..GUARD_MAX : path[n] = IF n = 0 THEN start ELSE next[path[n - 1]]
  BY <1>3, <1>4
<1> DEFINE again == [n \in 0..GUARD_MAX |-> IF n = 0 THEN start ELSE next[path[n - 1]]]
<1>7. DOMAIN path = 0..GUARD_MAX /\ path = [n \in 0..GUARD_MAX |-> path[n]]
  OBVIOUS
<1>8. path = again
  BY <1>6, <1>7
<1> QED
  BY <1>8

\* A walk does not leave the flow's nodes, and goes down until it stops.
LEMMA SuccessorDescends ==
  ASSUME NEW flow, IsFlowDefinition(flow), NEW rank, Descends(flow, rank),
         NEW id \in Target, NEW answers
  PROVE  /\ Successor(flow, id, answers) \in Target
         /\ rank[Successor(flow, id, answers)] <= rank[id]
         /\ Passes(flow, id) => rank[Successor(flow, id, answers)] < rank[id]
<1> DEFINE node == flow.nodes[id]
<1>1. rank \in [Target -> Nat]
  BY DEF Descends
<1>2. CASE ~Passes(flow, id)
  <2>1. rank[id] <= rank[id]
    BY <1>1
  <2> QED
    BY <1>2, <2>1 DEF Successor
<1>3. CASE Passes(flow, id)
  <2>1. id \in DOMAIN flow.nodes /\ IsFlowNode(node)
    BY <1>3 DEF Passes, IsFlowDefinition
  <2>2. ~IsFinal(node) /\ ~IsQuestion(node)
    BY <1>3 DEF Passes, IsFinal, IsQuestion
  <2>3. CASE node.type = "condition"
    <3>1. node.then \in Target /\ node.else \in Target
      BY <2>1, <2>3 DEF IsFlowNode, MessageNode, QuestionNode, DelayNode, ConditionNode, ActionNode
    <3>2. Exits(node) = {node.then, node.else}
      BY <2>2, <2>3 DEF Exits
    <3>3. Successor(flow, id, answers) \in {node.then, node.else}
      BY <1>3, <2>3 DEF Successor
    <3>4. \A to \in {node.then, node.else} : rank[to] < rank[id]
      BY <2>1, <3>2 DEF Descends
    <3> QED
      BY <1>1, <3>1, <3>3, <3>4
  <2>4. CASE node.type # "condition"
    <3>1. node.next \in Target
      BY <2>1, <2>4 DEF IsFlowNode, MessageNode, QuestionNode, DelayNode, ConditionNode, ActionNode
    <3>2. Exits(node) = {node.next}
      BY <2>2, <2>4 DEF Exits
    <3>3. Successor(flow, id, answers) = node.next
      BY <1>3, <2>4 DEF Successor
    <3>4. rank[node.next] < rank[id]
      BY <2>1, <3>2 DEF Descends
    <3> QED
      BY <1>1, <3>1, <3>3, <3>4
  <2> QED
    BY <2>3, <2>4
<1> QED
  BY <1>2, <1>3

LEMMA PathTurns ==
  ASSUME NEW flow, IsFlowDefinition(flow), NEW rank, Descends(flow, rank), NEW state \in FlowState
  PROVE  /\ Path(flow, state)[0] = state.node
         /\ \A n \in 1..GUARD_MAX :
              Path(flow, state)[n] = Successor(flow, Path(flow, state)[n - 1], state.answers)
         /\ \A n \in 0..GUARD_MAX : Path(flow, state)[n] \in Target
<1> DEFINE next == [id \in Target |-> Successor(flow, id, state.answers)]
           Is(p) == p = [n \in 0..GUARD_MAX |-> IF n = 0 THEN state.node ELSE next[p[n - 1]]]
           path == CHOOSE p : Is(p)
<1>1. \A id \in Target : next[id] = Successor(flow, id, state.answers) /\ next[id] \in Target
  BY SuccessorDescends
<1>2. next \in [Target -> Target]
  BY <1>1
<1>3. state.node \in Target
  BY DEF FlowState
<1>4. Path(flow, state) = path
  BY DEF Path
<1> HIDE DEF next
<1>5. \E p \in [0..GUARD_MAX -> Target] : Is(p)
  BY <1>2, <1>3, PathExists
<1>6. Is(path)
  BY <1>5, Zenon
<1> HIDE DEF path
<1>7. GUARD_MAX \in Nat
  BY EngineAssumption DEF EngineAssumption
<1>8. path[0] = state.node /\ \A n \in 1..GUARD_MAX : path[n] = next[path[n - 1]]
  BY <1>6, <1>7
<1> DEFINE astray == {n \in 0..GUARD_MAX : path[n] \notin Target}
<1>9. astray = {}
  <2> SUFFICES ASSUME astray # {} PROVE FALSE
    OBVIOUS
  <2>1. astray \subseteq Nat
    BY <1>7
  <2>2. PICK n \in astray : \A m \in astray : n <= m
    BY <2>1, LeastNatural
  <2>3. n # 0
    BY <1>3, <1>8, <2>2
  <2>4. n \in 1..GUARD_MAX /\ n - 1 \in 0..GUARD_MAX /\ ~(n <= n - 1)
    BY <1>7, <2>2, <2>3
  <2>5. path[n - 1] \in Target /\ path[n] = next[path[n - 1]]
    BY <1>8, <2>2, <2>4
  <2> QED
    BY <1>1, <2>2, <2>5
<1>10. \A n \in 1..GUARD_MAX : n - 1 \in 0..GUARD_MAX
  BY <1>7
<1>11. \A n \in 0..GUARD_MAX : path[n] \in Target
  BY <1>9
<1> QED
  BY <1>1, <1>4, <1>8, <1>10, <1>11

LEMMA PathDescends ==
  ASSUME NEW flow, IsFlowDefinition(flow), NEW rank, Descends(flow, rank),
         NEW state \in FlowState, NEW last \in 0..GUARD_MAX
  PROVE  /\ Path(flow, state)[last] \in Target
         /\ rank[Path(flow, state)[last]] <= rank[state.node]
<1> DEFINE path == Path(flow, state)
           Down(n) == rank[path[n]] <= rank[state.node]
           astray == {n \in 0..GUARD_MAX : ~Down(n)}
<1>1. GUARD_MAX \in Nat /\ rank \in [Target -> Nat] /\ state.node \in Target
  BY EngineAssumption DEF EngineAssumption, Descends, FlowState
<1>2. /\ path[0] = state.node
      /\ \A n \in 1..GUARD_MAX : path[n] = Successor(flow, path[n - 1], state.answers)
      /\ \A n \in 0..GUARD_MAX : path[n] \in Target
  BY PathTurns
<1> HIDE DEF path
<1>3. astray = {}
  <2> SUFFICES ASSUME astray # {} PROVE FALSE
    OBVIOUS
  <2>1. astray \subseteq Nat
    BY <1>1
  <2>2. PICK n \in astray : \A m \in astray : n <= m
    BY <2>1, LeastNatural
  <2>3. n # 0
    BY <1>1, <1>2, <2>2
  <2>4. n \in 1..GUARD_MAX /\ n - 1 \in 0..GUARD_MAX /\ ~(n <= n - 1)
    BY <1>1, <2>2, <2>3
  <2>5. Down(n - 1)
    BY <2>2, <2>4
  <2>6. rank[path[n]] <= rank[path[n - 1]]
    BY <1>2, <2>4, SuccessorDescends
  <2>7. Down(n)
    BY <1>1, <1>2, <2>4, <2>5, <2>6
  <2> QED
    BY <2>2, <2>7
<1>4. Down(last)
  BY <1>3
<1> QED
  BY <1>2, <1>4 DEF path

\* A walk that goes on goes down with each turn, so that it stops before the guard
\* trips when it starts low enough.
LEMMA WalkReturns ==
  ASSUME NEW flow, IsFlowDefinition(flow), NEW rank, Descends(flow, rank),
         NEW state \in FlowState, rank[state.node] < GUARD_MAX, NEW first
  PROVE  ~Walk(flow, state, first).throws
<1> DEFINE path == Path(flow, state)
           Low(n) == rank[path[n]] + n <= rank[state.node]
           high == {n \in 0..GUARD_MAX : ~Low(n)}
<1> SUFFICES ASSUME Stops(flow, path) = {} PROVE FALSE
  BY DEF Walk
<1>1. GUARD_MAX \in Nat /\ rank \in [Target -> Nat] /\ state.node \in Target
  BY EngineAssumption DEF EngineAssumption, Descends, FlowState
<1>2. /\ path[0] = state.node
      /\ \A n \in 1..GUARD_MAX : path[n] = Successor(flow, path[n - 1], state.answers)
      /\ \A n \in 0..GUARD_MAX : path[n] \in Target
  BY PathTurns
<1>3. \A n \in 0..GUARD_MAX : n < GUARD_MAX => Passes(flow, path[n])
  BY DEF Stops
<1> HIDE DEF path
<1>4. high = {}
  <2> SUFFICES ASSUME high # {} PROVE FALSE
    OBVIOUS
  <2>1. high \subseteq Nat
    BY <1>1
  <2>2. PICK n \in high : \A m \in high : n <= m
    BY <2>1, LeastNatural
  <2>3. n # 0
    BY <1>1, <1>2, <2>2
  <2>4. n \in 1..GUARD_MAX /\ n - 1 \in 0..GUARD_MAX /\ ~(n <= n - 1) /\ n - 1 < GUARD_MAX
    BY <1>1, <2>2, <2>3
  <2>5. Low(n - 1)
    BY <2>2, <2>4
  <2>6. rank[path[n]] < rank[path[n - 1]]
    BY <1>2, <1>3, <2>4, SuccessorDescends
  <2>7. rank[path[n]] \in Nat /\ rank[path[n - 1]] \in Nat /\ rank[state.node] \in Nat
    BY <1>1, <1>2, <2>4
  <2>8. Low(n)
    BY <2>4, <2>5, <2>6, <2>7
  <2> QED
    BY <2>2, <2>8
<1>5. GUARD_MAX \in 0..GUARD_MAX
  BY <1>1
<1>6. Low(GUARD_MAX)
  BY <1>4, <1>5
<1>7. rank[path[GUARD_MAX]] \in Nat /\ rank[state.node] \in Nat
  BY <1>1, <1>2, <1>5
<1> QED
  BY <1>1, <1>6, <1>7

\* A walk leads on to where its path ends, or past it.
LEMMA StateAtPast ==
  ASSUME NEW flow, IsFlowDefinition(flow), NEW rank, Descends(flow, rank),
         NEW state \in FlowState, state.awaiting = "none", NEW at \in Target
  PROVE  /\ Sound(StateAt(flow, state, at))
         /\ \A to \in Target : rank[at] <= rank[to] => Past(rank, StateAt(flow, state, at), to)
<1> DEFINE node == flow.nodes[at]
           st == StateAt(flow, state, at)
<1> SUFFICES Sound(st) /\ \A to \in Target : rank[at] <= rank[to] => Past(rank, st, to)
  OBVIOUS
<1>1. rank \in [Target -> Nat]
  BY DEF Descends
<1>2. ASSUME st.awaiting = "none", st.status # "active"
      PROVE  Sound(st) /\ \A to \in Target : Past(rank, st, to)
  BY <1>2 DEF Sound, Past
<1>3. CASE at = NULL \/ at \notin DOMAIN flow.nodes
  <2>1. st.awaiting = "none" /\ st.status # "active"
    BY <1>3 DEF StateAt, Finish, FlowState
  <2> HIDE DEF st
  <2> QED
    BY <1>2, <2>1
<1>4. CASE at # NULL /\ at \in DOMAIN flow.nodes /\ IsQuestion(node)
  <2>1. st.awaiting = "none" /\ st.node = at
    BY <1>4 DEF StateAt, FlowState, IsQuestion, IsBooking
  <2> HIDE DEF st
  <2> QED
    BY <1>4, <2>1 DEF Sound, Past
<1>5. CASE at # NULL /\ at \in DOMAIN flow.nodes /\ (node.type = "delay" \/ IsBooking(node))
  <2>1. /\ st.awaiting \in {"delay", "booking"} /\ st.status = "active"
        /\ st.node = at /\ st.resume = node.next
    BY <1>5 DEF StateAt, Pause, FlowState, IsQuestion, IsBooking
  <2>2. node.next \in Target
    BY <1>5 DEF IsFlowDefinition, IsFlowNode, IsBooking, MessageNode, QuestionNode, DelayNode,
       ConditionNode, ActionNode
  <2>3. Exits(node) = {node.next}
    BY <1>5 DEF Exits, IsFinal, IsQuestion, IsBooking
  <2>4. rank[node.next] < rank[at]
    BY <1>5, <2>3 DEF Descends
  <2> HIDE DEF st
  <2>5. ASSUME NEW to \in Target, rank[at] <= rank[to] PROVE rank[st.resume] < rank[to]
    BY <1>1, <2>1, <2>2, <2>4, <2>5
  <2>6. Sound(st)
    BY <1>5, <2>1 DEF Sound
  <2> QED
    BY <2>1, <2>5, <2>6 DEF Past
<1>6. CASE /\ at # NULL /\ at \in DOMAIN flow.nodes
           /\ ~IsQuestion(node) /\ node.type # "delay" /\ ~IsBooking(node)
  <2>1. st \in {Finish([state EXCEPT !.status = "handoff"]),
                Finish([state EXCEPT !.status = "completed"])}
    BY <1>6 DEF StateAt
  <2>2. st.awaiting = "none" /\ st.status # "active"
    BY <2>1 DEF Finish, FlowState
  <2> HIDE DEF st
  <2> QED
    BY <1>2, <2>2
<1> QED
  BY <1>3, <1>4, <1>5, <1>6

LEMMA WalkPast ==
  ASSUME NEW flow, IsFlowDefinition(flow), NEW rank, Descends(flow, rank),
         NEW state \in FlowState, state.awaiting = "none", NEW first
  PROVE  /\ Sound(Walk(flow, state, first).state)
         /\ \A to \in Target : rank[state.node] <= rank[to]
                                 => Past(rank, Walk(flow, state, first).state, to)
<1> DEFINE path == Path(flow, state)
           last == LastTurn(Stops(flow, path))
           at == path[last]
<1>1. last \in 0..GUARD_MAX
  BY StopsType, LastTurnType
<1>2. Walk(flow, state, first).state = StateAt(flow, state, at)
  BY DEF Walk
<1> HIDE DEF last
<1>3. at \in Target /\ rank[at] <= rank[state.node]
  BY <1>1, PathDescends
<1>4. rank \in [Target -> Nat] /\ state.node \in Target
  BY DEF Descends, FlowState
<1> HIDE DEF at
<1>5. ASSUME NEW to \in Target, rank[state.node] <= rank[to] PROVE rank[at] <= rank[to]
  BY <1>3, <1>4, <1>5
<1> QED
  BY <1>2, <1>3, <1>5, StateAtPast

LEMMA StartSound ==
  ASSUME NEW flow, IsFlowDefinition(flow), NEW rank, Descends(flow, rank)
  PROVE  Sound(Start(flow).state)
<1>1. [EmptyState EXCEPT !.node = flow.start] \in FlowState
  BY EmptyStateType DEF FlowState, IsFlowDefinition
<1>2. [EmptyState EXCEPT !.node = flow.start].awaiting = "none"
  BY DEF EmptyState
<1> QED
  BY <1>1, <1>2, WalkPast DEF Start

LEMMA ResumeBookingPast ==
  ASSUME NEW flow, IsFlowDefinition(flow), NEW rank, Descends(flow, rank),
         NEW state \in FlowState, state.awaiting = "booking"
  PROVE  /\ Sound(ResumeBooking(flow, state).state)
         /\ Onward(rank, state, ResumeBooking(flow, state).state)
<1> DEFINE onto == [Resumed(state) EXCEPT !.offered = 0]
<1>1. onto \in FlowState /\ onto.awaiting = "none" /\ onto.node = state.resume
  BY ResumedType DEF FlowState, Resumed
<1>2. ResumeBooking(flow, state) = Walk(flow, onto, NoEffect)
  BY DEF ResumeBooking
<1>3. rank \in [Target -> Nat] /\ state.resume \in Target
  BY DEF Descends, FlowState
<1> HIDE DEF onto
<1>4. ASSUME NEW to \in Target, Past(rank, state, to) PROVE rank[onto.node] <= rank[to]
  BY <1>1, <1>3, <1>4 DEF Past
<1> QED
  BY <1>1, <1>2, <1>4, WalkPast DEF Onward

LEMMA ResumeDelayPast ==
  ASSUME NEW flow, IsFlowDefinition(flow), NEW rank, Descends(flow, rank),
         NEW state \in FlowState, Sound(state)
  PROVE  /\ Sound(ResumeDelay(flow, state).state)
         /\ Onward(rank, state, ResumeDelay(flow, state).state)
<1>1. CASE state.awaiting # "delay"
  <2>1. ResumeDelay(flow, state).state = state
    BY <1>1 DEF ResumeDelay, Quietly
  <2> QED
    BY <1>1, <2>1 DEF Onward
<1>2. CASE state.awaiting = "delay"
  <2> DEFINE onto == Resumed(state)
  <2>1. onto \in FlowState /\ onto.awaiting = "none" /\ onto.node = state.resume
    BY ResumedType DEF FlowState, Resumed
  <2>2. ResumeDelay(flow, state) = Walk(flow, onto, NoEffect)
    BY <1>2 DEF ResumeDelay
  <2>3. rank \in [Target -> Nat] /\ state.resume \in Target
    BY DEF Descends, FlowState
  <2> HIDE DEF onto
  <2>4. ASSUME NEW to \in Target, Past(rank, state, to) PROVE rank[onto.node] <= rank[to]
    BY <1>2, <2>1, <2>3, <2>4 DEF Past
  <2>5. rank[onto.node] <= rank[state.resume]
    BY <2>1, <2>3
  <2> QED
    BY <2>1, <2>2, <2>3, <2>4, <2>5, WalkPast DEF Onward
<1> QED
  BY <1>1, <1>2

LEMMA StepPast ==
  ASSUME NEW flow, IsFlowDefinition(flow), NEW rank, Descends(flow, rank),
         NEW state \in FlowState, Sound(state), NEW text \in Texts
  PROVE  /\ Sound(Step(flow, state, text).state)
         /\ Onward(rank, state, Step(flow, state, text).state)
<1> DEFINE node == flow.nodes[state.node]
           atQuestion == state.node \in DOMAIN flow.nodes /\ IsQuestion(node)
           next == Step(flow, state, text).state
<1> SUFFICES Sound(next) /\ Onward(rank, state, next)
  OBVIOUS
<1>1. rank \in [Target -> Nat] /\ state.node \in Target
  BY DEF Descends, FlowState
<1>2. CASE state.awaiting = "booking" \/ (state.awaiting \notin {"booking", "delay"} /\ IsOver(state))
  <2>1. next = state /\ state.awaiting # "delay"
    BY <1>2 DEF Step, Quietly
  <2> HIDE DEF next
  <2> QED
    BY <2>1 DEF Onward
<1>3. CASE state.awaiting = "delay"
  BY <1>3, ResumeDelayPast DEF Step
<1>4. CASE state.awaiting \notin {"booking", "delay"} /\ ~IsOver(state) /\ ~atQuestion
  <2> DEFINE onto == [state EXCEPT !.retries = 0]
  <2>1. onto \in FlowState /\ onto.awaiting = "none" /\ onto.node = state.node
    BY <1>4 DEF FlowState
  <2>2. Step(flow, state, text) = Walk(flow, onto, NoEffect)
    BY <1>4 DEF Step
  <2> HIDE DEF onto
  <2>3. state.awaiting = "none" /\ state.status = "active"
    BY <1>4 DEF FlowState, IsOver
  <2>4. ASSUME NEW to \in Target, Past(rank, state, to) PROVE rank[onto.node] <= rank[to]
    BY <2>1, <2>3, <2>4 DEF Past
  <2> QED
    BY <2>1, <2>2, <2>3, <2>4, WalkPast DEF Onward
<1>5. CASE state.awaiting \notin {"booking", "delay"} /\ ~IsOver(state) /\ atQuestion
  <2> DEFINE value == Coerce(text, node)
             first == [kind |-> "save_field", node |-> NULL,
                       field |-> node.field, value |-> value]
             answered == [state EXCEPT !.answers[node.field] = value, !.retries = 0,
                                       !.node = Branch(node, value)]
             again == [state EXCEPT !.retries = @ + 1]
             handed == [state EXCEPT !.retries = @ + 1, !.status = "handoff"]
  <2>1. node \in QuestionNode /\ state.awaiting = "none" /\ state.status = "active"
    BY <1>5, QuestionType DEF FlowState, IsOver
  <2>2. Step(flow, state, text) = IF value = NULL THEN Refused(state)
                                  ELSE Answered(flow, state, node, value)
    BY <1>5 DEF Step
  <2>3. CASE value = NULL
    <3>1. Refused(state) \in {Quietly(handed, [NoEffect EXCEPT !.kind = "handoff_to_human"], FALSE),
                             Quietly(again, [NoEffect EXCEPT !.kind = "send_message",
                                                             !.node = state.node], TRUE)}
      BY Zenon DEF Refused
    <3>2. /\ again.awaiting = "none" /\ again.status = "active" /\ again.node = state.node
          /\ handed.awaiting = "none" /\ handed.status = "handoff"
      BY <2>1 DEF FlowState
    <3> HIDE DEF again, handed
    <3>3. next \in {again, handed}
      BY <2>2, <2>3, <3>1 DEF Quietly
    <3> HIDE DEF next
    <3> QED
      BY <2>1, <3>2, <3>3 DEF Onward, Past, Sound
  <2>4. CASE value # NULL
    <3>1. value \in Answer /\ Branch(node, value) \in Target /\ node.field \in Fields
      BY <2>1, CoerceType, BranchType DEF QuestionNode
    <3>2. answered \in FlowState /\ answered.awaiting = "none" /\ answered.node = Branch(node, value)
      BY <2>1, <3>1 DEF FlowState
    <3>3. Step(flow, state, text) = Walk(flow, answered, first)
      BY <2>2, <2>4 DEF Answered
    <3> HIDE DEF answered, first, value
    <3>4. Branch(node, value) \in Exits(node)
      BY <1>5 DEF Branch, Exits, IsQuestion, IsFinal
    <3>5. rank[answered.node] < rank[state.node]
      BY <1>5, <3>2, <3>4 DEF Descends
    <3>6. ASSUME NEW to \in Target, Past(rank, state, to) PROVE rank[answered.node] <= rank[to]
      BY <1>1, <2>1, <3>1, <3>2, <3>5, <3>6 DEF Past
    <3> QED
      BY <2>1, <3>2, <3>3, <3>6, WalkPast DEF Onward
  <2> QED
    BY <2>3, <2>4
<1> QED
  BY <1>2, <1>3, <1>4, <1>5

\* A call has led the run on: to its end, further down its flow, or to one more
\* refusal, of which there is a last one, at the question it was at.
Headway(rank, before, after) ==
  \/ after.status # "active"
  \/ rank[after.node] < rank[before.node]
  \/ after.node = before.node /\ before.retries < after.retries /\ after.retries <= MAX_RETRIES

\* A walk ends the run or leaves it no higher than where it began.
LEMMA WalkGoesDown ==
  ASSUME NEW flow, IsFlowDefinition(flow), NEW rank, Descends(flow, rank),
         NEW state \in FlowState, NEW first
  PROVE  LET st == Walk(flow, state, first).state
         IN  st.status # "active" \/ (st.node \in Target /\ rank[st.node] <= rank[state.node])
<1> DEFINE path == Path(flow, state)
           last == LastTurn(Stops(flow, path))
           at == path[last]
           st == StateAt(flow, state, at)
<1>1. last \in 0..GUARD_MAX
  BY StopsType, LastTurnType
<1>2. Walk(flow, state, first).state = st
  BY DEF Walk
<1> HIDE DEF last
<1>3. at \in Target /\ rank[at] <= rank[state.node]
  BY <1>1, PathDescends
<1> HIDE DEF at
<1>4. st.status # "active" \/ st.node = at
  <2> DEFINE node == flow.nodes[at]
  <2>1. CASE at = NULL \/ at \notin DOMAIN flow.nodes
    BY <2>1 DEF StateAt, Finish, FlowState
  <2>2. CASE at # NULL /\ at \in DOMAIN flow.nodes /\ IsQuestion(node)
    BY <2>2 DEF StateAt, FlowState, IsQuestion, IsBooking
  <2>3. CASE at # NULL /\ at \in DOMAIN flow.nodes /\ (node.type = "delay" \/ IsBooking(node))
    BY <2>3 DEF StateAt, Pause, FlowState, IsQuestion, IsBooking
  <2>4. CASE /\ at # NULL /\ at \in DOMAIN flow.nodes
             /\ ~IsQuestion(node) /\ node.type # "delay" /\ ~IsBooking(node)
    <3>1. st \in {Finish([state EXCEPT !.status = "handoff"]),
                  Finish([state EXCEPT !.status = "completed"])}
      BY <2>4 DEF StateAt
    <3>2. st.status # "active"
      BY <3>1 DEF Finish, FlowState
    <3> QED
      BY <3>2
  <2> QED
    BY <2>1, <2>2, <2>3, <2>4
<1> HIDE DEF st
<1> QED
  BY <1>2, <1>3, <1>4

\* Going on after a pause leads down.
LEMMA ResumedDown ==
  ASSUME NEW flow, IsFlowDefinition(flow), NEW rank, Descends(flow, rank),
         NEW state \in FlowState, NEW heard, state.status = "active", Waits(flow, state, heard),
         NEW onto \in FlowState, state.awaiting # "none", onto.node = state.resume
  PROVE  Headway(rank, state, Walk(flow, onto, NoEffect).state)
<1> DEFINE node == flow.nodes[state.node]
           st == Walk(flow, onto, NoEffect).state
<1>1. /\ state.node \in DOMAIN flow.nodes /\ state.resume = node.next
      /\ node.type = "delay" \/ IsBooking(node)
  BY DEF Waits
<1>2. Exits(node) = {node.next}
  BY <1>1 DEF Exits, IsFinal, IsQuestion, IsBooking
<1>3. rank[state.resume] < rank[state.node]
  BY <1>1, <1>2 DEF Descends
<1>4. rank \in [Target -> Nat] /\ state.node \in Target /\ state.resume \in Target
  BY DEF Descends, FlowState
<1>5. st.status # "active" \/ (st.node \in Target /\ rank[st.node] <= rank[state.resume])
  BY WalkGoesDown
<1> HIDE DEF st
<1>6. st.status # "active" \/ rank[st.node] < rank[state.node]
  BY <1>3, <1>4, <1>5
<1> QED
  BY <1>6 DEF Headway, st

LEMMA DelayHeadway ==
  ASSUME NEW flow, IsFlowDefinition(flow), NEW rank, Descends(flow, rank),
         NEW state \in FlowState, NEW heard, state.status = "active", Waits(flow, state, heard),
         state.awaiting = "delay"
  PROVE  Headway(rank, state, ResumeDelay(flow, state).state)
<1>1. ResumeDelay(flow, state) = Walk(flow, Resumed(state), NoEffect)
  BY DEF ResumeDelay
<1>2. Resumed(state) \in FlowState /\ Resumed(state).node = state.resume
  BY ResumedType DEF FlowState, Resumed
<1> QED
  BY <1>1, <1>2, ResumedDown

LEMMA BookingHeadway ==
  ASSUME NEW flow, IsFlowDefinition(flow), NEW rank, Descends(flow, rank),
         NEW state \in FlowState, NEW heard, state.status = "active", Waits(flow, state, heard),
         state.awaiting = "booking"
  PROVE  Headway(rank, state, ResumeBooking(flow, state).state)
<1> DEFINE onto == [Resumed(state) EXCEPT !.offered = 0]
<1>1. onto \in FlowState /\ onto.node = state.resume
  BY ResumedType DEF FlowState, Resumed
<1>2. ResumeBooking(flow, state) = Walk(flow, onto, NoEffect)
  BY DEF ResumeBooking
<1> HIDE DEF onto
<1> QED
  BY <1>1, <1>2, ResumedDown

\* So does an answer, and a refusal uses up a retry.
LEMMA StepHeadway ==
  ASSUME NEW flow, IsFlowDefinition(flow), NEW rank, Descends(flow, rank),
         NEW state \in FlowState, NEW heard, state.status = "active", Waits(flow, state, heard),
         state.awaiting # "booking", NEW text \in Texts
  PROVE  Headway(rank, state, Step(flow, state, text).state)
<1> DEFINE node == flow.nodes[state.node]
           value == Coerce(text, node)
<1>1. CASE state.awaiting = "delay"
  BY <1>1, DelayHeadway DEF Step
<1>2. CASE state.awaiting # "delay"
  <2>1. /\ state.awaiting = "none" /\ state.retries \in Nat /\ state.node \in Target
        /\ state.node \in DOMAIN flow.nodes /\ IsQuestion(node) /\ state.retries <= MAX_RETRIES
    BY <1>2 DEF FlowState, Waits
  <2>2. node \in QuestionNode /\ state.node # NULL
    BY <2>1, QuestionType, EngineAssumption DEF EngineAssumption
  <2>3. Step(flow, state, text) = IF value = NULL THEN Refused(state)
                                  ELSE Answered(flow, state, node, value)
    BY <2>1, <2>2 DEF Step, IsOver
  <2>4. CASE value = NULL
    <3>1. CASE GivesUp(state.retries + 1)
      <4>1. Refused(state).state = [state EXCEPT !.retries = @ + 1, !.status = "handoff"]
        BY <3>1 DEF Refused, Quietly
      <4>2. Refused(state).state.status = "handoff"
        BY <4>1 DEF FlowState
      <4> QED
        BY <2>3, <2>4, <4>2 DEF Headway
    <3>2. CASE ~GivesUp(state.retries + 1)
      <4>1. Refused(state).state = [state EXCEPT !.retries = @ + 1]
        BY <3>2 DEF Refused, Quietly
      <4>2. Refused(state).state.node = state.node /\ Refused(state).state.retries = state.retries + 1
        BY <4>1 DEF FlowState
      <4>3. state.retries + 1 <= MAX_RETRIES /\ state.retries < state.retries + 1
        BY <2>1, <3>2, EngineAssumption DEF GivesUp, EngineAssumption
      <4> QED
        BY <2>3, <2>4, <4>2, <4>3 DEF Headway
    <3> QED
      BY <3>1, <3>2
  <2>5. CASE value # NULL
    <3> DEFINE answered == [state EXCEPT !.answers[node.field] = value, !.retries = 0,
                                         !.node = Branch(node, value)]
               first == [kind |-> "save_field", node |-> NULL, field |-> node.field, value |-> value]
               st == Walk(flow, answered, first).state
    <3>1. value \in Answer /\ Branch(node, value) \in Target /\ node.field \in Fields
      BY <2>2, CoerceType, BranchType DEF QuestionNode
    <3>2. answered \in FlowState /\ answered.node = Branch(node, value)
      BY <3>1 DEF FlowState
    <3>3. Step(flow, state, text).state = st
      BY <2>3, <2>5 DEF Answered
    <3> HIDE DEF answered, first, value
    <3>4. Branch(node, value) \in Exits(node)
      BY <2>1 DEF Branch, Exits, IsQuestion, IsFinal
    <3>5. rank[answered.node] < rank[state.node]
      BY <2>1, <3>2, <3>4 DEF Descends
    <3>6. st.status # "active" \/ (st.node \in Target /\ rank[st.node] <= rank[answered.node])
      BY <3>2, WalkGoesDown
    <3>7. rank \in [Target -> Nat] /\ answered.node \in Target
      BY <3>1, <3>2 DEF Descends
    <3> HIDE DEF st
    <3>8. st.status # "active" \/ rank[st.node] < rank[state.node]
      BY <2>1, <3>5, <3>6, <3>7
    <3> QED
      BY <3>3, <3>8 DEF Headway
  <2> QED
    BY <2>4, <2>5
<1> QED
  BY <1>1, <1>2

-------------------------------------------------------------------------------
(* The theorems *)

\* Every state, effect and flag the engine hands to the runtime has its type,
\* whatever the flow and the texts (types.ts:112-154).
THEOREM RunTypeCorrect == RunSpec => []RunTypeOK
<1>1. EngineInv => RunTypeOK
  BY DEF EngineInv
<1> QED
  BY <1>1, Invariance, PTL

\* A live run waits for an answer, a timer or a booking that can still come, and
\* a run that is over waits for nothing (step.ts:152-259).
THEOREM LiveRunsWait == RunSpec => []LiveRunWaits
<1>1. EngineInv => LiveRunWaits
  <2> SUFFICES ASSUME EngineInv, begun PROVE LiveRunWaits
    BY DEF LiveRunWaits
  <2>1. /\ Waits(script, run, listening) /\ (run.awaiting = "none" => run.resume = NULL)
        /\ run.awaiting \in {"none", "booking", "delay"}
    BY DEF EngineInv, RunTypeOK, Contract, FlowState
  <2>2. CASE run.status = "active"
    BY <2>1, <2>2 DEF Waits, LiveRunWaits
  <2>3. CASE run.status # "active"
    BY <2>1, <2>3 DEF Waits, LiveRunWaits, AtQuestion
  <2> QED
    BY <2>2, <2>3
<1> QED
  BY <1>1, Invariance, PTL

\* The engine pauses for a delay exactly when it requests the timer that ends
\* the pause (types.ts:146).
THEOREM TimersMatchPauses == RunSpec => []TimerMatchesPause
<1>1. EngineInv => TimerMatchesPause
  <2> SUFFICES ASSUME EngineInv PROVE TimerMatchesPause
    OBVIOUS
  <2>1. CASE begun
    BY <2>1 DEF EngineInv, Contract, TellsTimer, TimerMatchesPause
  <2>2. CASE ~begun
    BY <2>2 DEF EngineInv, TimerMatchesPause, Said, EmptyState, NoEffect
  <2> QED
    BY <2>1, <2>2
<1> QED
  BY <1>1, Invariance, PTL

\* Whenever the run is at a question, the lead has just been asked it
\* (step.ts:98-126, 173-180).
THEOREM QuestionsAreAsked == RunSpec => []NeverWaitsSilently
<1>1. EngineInv => NeverWaitsSilently
  BY DEF EngineInv, Contract, Asks, NeverWaitsSilently, AtQuestion
<1> QED
  BY <1>1, Invariance, PTL

\* Together: whatever the flow, every call leaves the runtime something that can
\* still come, its timer and its question (types.ts:112-154).
THEOREM ContractIsKept == RunSpec => []RuntimeContract
BY LiveRunsWait, TimersMatchPauses, QuestionsAreAsked, PTL DEF RuntimeContract

\* Nothing changes or is said after the end of a run (step.ts:84-90).
THEOREM EndIsFinal == RunSpec => OverIsFinal
<1>1. EngineInv /\ [RunNext]_runVars =>
        [begun /\ run.status # "active"
           => run' = run /\ \A n \in DOMAIN actions' : actions'[n].kind = "none"]_runVars
  <2> SUFFICES ASSUME EngineInv, RunNext, begun, run.status # "active"
               PROVE  run' = run /\ \A n \in DOMAIN actions' : actions'[n].kind = "none"
    BY DEF runVars
  <2>1. run.awaiting = "none"
    BY DEF EngineInv, Contract, Waits
  <2>2. PICK text \in Texts : Reply(text)
    BY <2>1 DEF RunNext, Begin, TimerFires, BookingHandled
  <2>3. Step(script, run, text) = Quietly(run, NoEffect, FALSE)
    BY <2>1 DEF Step, IsOver
  <2>4. run' = run /\ actions' = [n \in 0..GUARD_MAX |-> IF n = 0 THEN NoEffect ELSE NoEffect]
    BY <2>2, <2>3 DEF Reply, Apply, Quietly
  <2> QED
    BY <2>4 DEF NoEffect
<1> QED
  BY <1>1, Invariance, PTL DEF RunSpec, OverIsFinal

\* In flows that do not come back no call of the runtime is in vain: it ends the
\* run, leads it further down its flow, or is one of the MAX_RETRIES refusals of
\* a question; only a text during a booking, which the runtime handles, leaves
\* the run as it is (step.ts:73-143).  So a run is over after a bounded
\* number of calls (none of which throws, see below), which is why RunEnds needs no
\* more than that they come.
THEOREM RunsMakeHeadway ==
  ASSUME NEW rank, \A f \in Flows : Descends(f, rank[f])
  PROVE  RunSpec => [][begun /\ run.status = "active"
                         => \/ run' = run /\ run.awaiting = "booking"
                            \/ Headway(rank[script], run, run')]_runVars
<1>1. EngineInv /\ [RunNext]_runVars =>
        [begun /\ run.status = "active"
           => \/ run' = run /\ run.awaiting = "booking"
              \/ Headway(rank[script], run, run')]_runVars
  <2> SUFFICES ASSUME EngineInv, RunNext, begun, run.status = "active"
               PROVE  \/ run' = run /\ run.awaiting = "booking"
                      \/ Headway(rank[script], run, run')
    BY DEF runVars
  <2>1. /\ IsFlowDefinition(script) /\ Descends(script, rank[script]) /\ run \in FlowState
        /\ Waits(script, run, listening)
    BY FlowsAssumption DEF EngineInv, RunTypeOK, Contract, FlowsAssumption
  <2>2. ASSUME NEW text \in Texts, Reply(text)
        PROVE  \/ run' = run /\ run.awaiting = "booking"
               \/ Headway(rank[script], run, run')
    <3>1. run' = Step(script, run, text).state
      BY <2>2 DEF Reply, Apply
    <3>2. CASE run.awaiting = "booking"
      BY <3>1, <3>2 DEF Step, Quietly
    <3>3. CASE run.awaiting # "booking"
      BY <2>1, <3>1, <3>3, StepHeadway
    <3> QED
      BY <3>2, <3>3
  <2>3. CASE TimerFires
    BY <2>1, <2>3, DelayHeadway DEF TimerFires, Apply
  <2>4. CASE BookingHandled
    BY <2>1, <2>4, BookingHeadway DEF BookingHandled, Apply
  <2> QED
    BY <2>2, <2>3, <2>4 DEF RunNext, Begin
<1> QED
  BY <1>1, Invariance, PTL DEF RunSpec

\* The cycle guard of walk is for cycles only: in a flow that does not come back
\* and is less deep than the guard, no call of the engine throws, in whatever
\* state a conversation row is (step.ts:159-164).
THEOREM GuardIsForCycles ==
  ASSUME NEW flow, IsFlowDefinition(flow), NEW rank, Descends(flow, rank),
         \A id \in Target : rank[id] < GUARD_MAX
  PROVE  /\ ~Start(flow).throws
         /\ \A state \in FlowState : /\ ~ResumeBooking(flow, state).throws
                                    /\ ~ResumeDelay(flow, state).throws
                                    /\ \A text \in Texts : ~Step(flow, state, text).throws
<1>1. ASSUME NEW state \in FlowState, NEW first PROVE ~Walk(flow, state, first).throws
  BY WalkReturns DEF FlowState
<1>2. ~Start(flow).throws
  <2>1. [EmptyState EXCEPT !.node = flow.start] \in FlowState
    BY EmptyStateType DEF FlowState, IsFlowDefinition
  <2> QED
    BY <1>1, <2>1 DEF Start
<1>3. ASSUME NEW state \in FlowState
      PROVE  /\ ~ResumeBooking(flow, state).throws
             /\ ~ResumeDelay(flow, state).throws
             /\ \A text \in Texts : ~Step(flow, state, text).throws
  <2>1. ~ResumeDelay(flow, state).throws
    <3>1. Resumed(state) \in FlowState
      BY ResumedType
    <3> QED
      BY <1>1, <3>1 DEF ResumeDelay, Quietly
  <2>2. ~ResumeBooking(flow, state).throws
    <3>1. [Resumed(state) EXCEPT !.offered = 0] \in FlowState
      BY ResumedType DEF FlowState
    <3> QED
      BY <1>1, <3>1 DEF ResumeBooking
  <2>3. ASSUME NEW text \in Texts PROVE ~Step(flow, state, text).throws
    <3> DEFINE node == flow.nodes[state.node]
               value == Coerce(text, node)
    <3>1. CASE state.awaiting \in {"booking", "delay"} \/ IsOver(state)
      BY <2>1, <3>1 DEF Step, Quietly
    <3>2. CASE /\ state.awaiting \notin {"booking", "delay"} /\ ~IsOver(state)
               /\ ~(state.node \in DOMAIN flow.nodes /\ IsQuestion(node))
      <4>1. [state EXCEPT !.retries = 0] \in FlowState
        BY DEF FlowState
      <4> QED
        BY <1>1, <3>2, <4>1 DEF Step
    <3>3. CASE /\ state.awaiting \notin {"booking", "delay"} /\ ~IsOver(state)
               /\ state.node \in DOMAIN flow.nodes /\ IsQuestion(node)
      <4>1. ~Refused(state).throws
        BY DEF Refused, Quietly
      <4>2. node \in QuestionNode
        BY <3>3, QuestionType
      <4>3. ~Answered(flow, state, node, value).throws
        <5> DEFINE answered == [state EXCEPT !.answers[node.field] = value, !.retries = 0,
                                             !.node = Branch(node, value)]
        <5>1. value \in Answer /\ Branch(node, value) \in Target /\ node.field \in Fields
          BY <4>2, CoerceType, BranchType DEF QuestionNode
        <5>2. answered \in FlowState
          BY <5>1 DEF FlowState
        <5> HIDE DEF answered
        <5>3. \A first : ~Walk(flow, answered, first).throws
          BY <1>1, <5>2
        <5> QED
          BY <5>3 DEF Answered, answered
      <4>4. Step(flow, state, text) \in {Refused(state), Answered(flow, state, node, value)}
        BY <3>3 DEF Step
      <4> HIDE DEF value, node
      <4> QED
        BY <4>1, <4>3, <4>4
    <3> QED
      BY <3>1, <3>2, <3>3
  <2> QED
    BY <2>1, <2>2, <2>3
<1> QED
  BY <1>2, <1>3

\* A field no save_field action writes holds in the contact record what the run's
\* answers say, across pauses, branches, refusals and resumed bookings
\* (step.ts:102-136, 214-259): the inductive invariant is the engine's with it.
THEOREM RecordsAreAnswers == RunSpec => []SavedFieldsAreAnswers
<1>1. RunInit => SavedFieldsAreAnswers
  BY DEF RunInit, SavedFieldsAreAnswers, EmptyState
<1>2. EngineInv /\ SavedFieldsAreAnswers /\ [RunNext]_runVars => SavedFieldsAreAnswers'
  <2> SUFFICES ASSUME EngineInv, SavedFieldsAreAnswers, [RunNext]_runVars
               PROVE  SavedFieldsAreAnswers'
    OBVIOUS
  <2>1. IsFlowDefinition(script) /\ run \in FlowState
    BY FlowsAssumption DEF EngineInv, RunTypeOK, FlowsAssumption
  <2>2. CASE Begin
    <3>1. run = EmptyState
      BY <2>2 DEF Begin, EngineInv
    <3> QED
      BY <2>1, <2>2, <3>1, StartRecords, ApplyRecords DEF Begin
  <2>3. ASSUME NEW text \in Texts, Reply(text) PROVE SavedFieldsAreAnswers'
    BY <2>1, <2>3, StepRecords, ApplyRecords DEF Reply
  <2>4. CASE TimerFires
    BY <2>1, <2>4, ResumeRecords, ApplyRecords DEF TimerFires
  <2>5. CASE BookingHandled
    BY <2>1, <2>5, ResumeRecords, ApplyRecords DEF BookingHandled
  <2>6. CASE UNCHANGED runVars
    BY <2>6 DEF runVars, SavedFieldsAreAnswers
  <2> QED
    BY <2>2, <2>3, <2>4, <2>5, <2>6 DEF RunNext
<1> QED
  BY <1>1, <1>2, Invariance, PTL DEF RunSpec
=============================================================================

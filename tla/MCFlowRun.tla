------------------------------- MODULE MCFlowRun -------------------------------
(***************************************************************************)
(* Every flow of up to three nodes over a small choice of node kinds, with *)
(* dangling references, silent cycles, branches and pauses, for FlowRun.   *)
(***************************************************************************)
EXTENDS FlowRun, FiniteSets, TLC

MCNodes == 1..3
MCTexts == {"a", "b", "2", "z"}
MCNumberOf == [t \in MCTexts |-> IF t = "2" THEN 2 ELSE 0]
\* An address is "a"; everything else is text only.
MCParse == [e \in ExpectType |->
             [t \in MCTexts |-> IF e = "text" \/ t = "a" THEN t ELSE NULL]]

MCTarget == MCNodes \cup {NULL}
Menu(next, onA) == [type |-> "question", field |-> "f", expect |-> "choice",
                    choices |-> <<"a", "b">>, branches |-> [t \in {"a"} |-> onA],
                    next |-> next]
Email(next) == [type |-> "question", field |-> "f", expect |-> "email",
                choices |-> << >>, branches |-> << >>, next |-> next]
Act(action, field, next) == [type |-> "action", action |-> action, field |-> field,
                             value |-> "z", next |-> next]

MCNodesTo(targets) ==
  {[type |-> "message", next |-> t] : t \in targets}
    \cup {[type |-> "delay", next |-> t] : t \in targets}
    \cup {Act("book_appointment", NULL, t) : t \in targets}
    \cup {Act("save_field", "g", t) : t \in targets}
    \cup {Email(t) : t \in targets}
    \cup {Menu(t, u) : t \in targets, u \in {NULL}}
    \cup {[type |-> "condition", field |-> "f", holds |-> {"a"}, then |-> t, else |-> NULL] :
            t \in targets}
    \cup {Act("end", NULL, NULL), Act("handoff_to_human", NULL, NULL)}

AnyTrigger == [type |-> "any", keywords |-> {}]

\* Flows of two nodes with any edges; edges to node 3 dangle, or node 2 does.
MCLoopFlows ==
  {[start |-> 1, nodes |-> nodes, trigger |-> AnyTrigger] :
     nodes \in UNION {[S -> MCNodesTo(MCTarget)] : S \in {1..2, {1, 3}}}}

\* Flows of three nodes that only lead forward.
MCForwardFlows ==
  {[start |-> 1, nodes |-> (1 :> a @@ 2 :> b @@ 3 :> c), trigger |-> AnyTrigger] :
     a \in MCNodesTo({2}), b \in MCNodesTo({3, NULL}), c \in MCNodesTo({NULL})}

MCFlows == MCLoopFlows \cup MCForwardFlows
=============================================================================

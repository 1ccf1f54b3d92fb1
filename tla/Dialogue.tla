------------------------------- MODULE Dialogue -------------------------------
(***************************************************************************)
(* What the conversation runtime promises a lead: one conversation at a    *)
(* time, which moves by whole exchanges.  An exchange takes the message    *)
(* and the run as it stands, and leaves the run its own flow makes of      *)
(* them, the answers it recorded and the status they call for, all at      *)
(* once; nothing else moves a run, and a conversation that is closed is    *)
(* out of reach.  What a flow makes of a message is a parameter.           *)
(* Conversations is shown to implement it.                                 *)
(***************************************************************************)
CONSTANTS
  Convs,                  \* conversations that can be begun
  FlowIds, Texts, Fields, NULL,
  NewRun,                 \* the run of a conversation nobody has answered yet
  Older, OlderTalk,       \* conversations an older release may have left, and how
  Outcomes(_, _, _),      \* [run, saved] a flow may make of a run and a text
  Standing(_)             \* the status a run calls for

VARIABLES
  talk,    \* talk[c]: the status, flow and run of a conversation
  fields,  \* what is stored of the lead
  flows    \* the flows that exist

Unused == [status |-> "unused", flow |-> NULL, run |-> NewRun]

InProgress(c) == talk[c].status = "ACTIVE"

Init ==
  /\ \E left \in SUBSET Older :
       talk = [c \in Convs |-> IF c \in left THEN OlderTalk ELSE Unused]
  /\ fields = [x \in Fields |-> NULL]
  /\ flows = FlowIds

Begin(c, f) ==
  /\ talk[c].status = "unused" /\ ~\E d \in Convs : InProgress(d)
  /\ talk' = [talk EXCEPT ![c] = [status |-> "ACTIVE", flow |-> f, run |-> NewRun]]
  /\ UNCHANGED <<fields, flows>>

\* The flow is the conversation's own as long as that exists.  An exchange that
\* changes nothing is none.
Exchange(c, f, text) ==
  /\ InProgress(c) /\ <<talk, fields>>' # <<talk, fields>>
  /\ talk[c].flow \in flows => f = talk[c].flow
  /\ \E outcome \in Outcomes(f, talk[c].run, text) :
       /\ talk' = [talk EXCEPT ![c].run = outcome.run,
                               ![c].status = Standing(outcome.run)]
       /\ fields' = [x \in Fields |-> IF outcome.saved[x] # NULL THEN outcome.saved[x]
                                      ELSE fields[x]]
  /\ UNCHANGED flows

\* A limit on replies, a run too many, a keyword for another flow, or the end of
\* an older release's run.
Close(c) ==
  /\ InProgress(c)
  /\ \E status \in {"COMPLETED", "HANDOFF", "ABANDONED"} :
       talk' = [talk EXCEPT ![c].status = status]
  /\ UNCHANGED <<fields, flows>>

LoseFlow(f) ==
  /\ flows' = flows \ {f}
  /\ talk' = [c \in Convs |-> IF talk[c].flow = f THEN [talk[c] EXCEPT !.flow = NULL]
                              ELSE talk[c]]
  /\ UNCHANGED fields

Next ==
  \/ \E c \in Convs : \/ \E f \in FlowIds : Begin(c, f)
                      \/ \E f \in FlowIds, text \in Texts : Exchange(c, f, text)
                      \/ Close(c)
  \/ \E f \in FlowIds : LoseFlow(f)

Spec == Init /\ [][Next]_<<talk, fields, flows>>
=============================================================================

------------------------------- MODULE FlowEditor -------------------------------
(***************************************************************************)
(* A scenario while it is written: its row, the tab that edits it as a     *)
(* sequence of steps (flows/[id]/edit/SequenceEditor.tsx), the actions     *)
(* behind it (flows/actions.ts) and the columns the CRM derives from it    *)
(* (flow-engine/src/fields.ts, schemaOf of lib/leads.ts).                  *)
(*                                                                         *)
(* A definition may be any graph: the editor shows it as one line and      *)
(* saves that line.  Prompts, labels, tags and the people to assign are    *)
(* left out, as nothing here depends on them.                              *)
(***************************************************************************)
EXTENDS Naturals, Sequences, FiniteSets, SequencesExt

CONSTANTS
  NodeIds,      \* ids of nodes
  FieldNames,   \* what is typed as the name of a field, spaces included
  Trim,         \* Trim[f]: f without the spaces around it
  ChoiceSets,   \* what the choices of a question may be set to, without their order
  Scripts,      \* definitions the row may hold when the editor is opened first
  MaxEdits      \* bound: edits of the steps

\* A question that expects an email or a phone number is like one for a text
\* that refuses more.
Expects == {"text", "number", "date", "choice"}
Silent == {"assign", "notify", "tag"}
StepKinds == {"message", "question", "book", "delay"} \cup Silent
NodeKinds == StepKinds \cup {"condition", "save_field", "end", "handoff_to_human", "webhook"}
None == "none"   \* no node
NodeOrNone == NodeIds \cup {None}

\* next is a condition's then; field, expect and choices are a question's.
Node == [kind: NodeKinds, next: NodeOrNone, other: NodeOrNone, field: FieldNames \cup {""},
         expect: Expects, choices: ChoiceSets]
IsScript(def) == /\ def.start \in NodeIds /\ DOMAIN def.nodes \subseteq NodeIds
                 /\ \A id \in DOMAIN def.nodes : def.nodes[id] \in Node

ASSUME EditorAssumption ==
  /\ None \notin NodeIds /\ "n1" \in NodeIds /\ IsFiniteSet(NodeIds)
  /\ "field" \in FieldNames /\ "" \notin FieldNames /\ Trim \in [FieldNames \cup {""} -> FieldNames \cup {""}]
  /\ \A f \in DOMAIN Trim : Trim[Trim[f]] = Trim[f]
  /\ {} \in ChoiceSets /\ MaxEdits \in Nat
  /\ \A def \in Scripts : IsScript(def)

VARIABLES
  scenario,  \* the Flow row
  steps,     \* the steps in the tab, as <<id, node>>
  edits

scenarioVars == <<scenario, steps, edits>>

-------------------------------------------------------------------------------
(* fields.ts: the columns of a definition *)

\* One turn of the walk: the first node of the queue, and where it leads.
Turn(def, walk) ==
  IF walk.queue = << >> THEN walk
  ELSE LET id == Head(walk.queue)
           rest == Tail(walk.queue)
           to(target) == IF target = None THEN << >> ELSE <<target>>
       IN  IF id \notin DOMAIN def.nodes \/ Contains(walk.ordered, id)
           THEN [walk EXCEPT !.queue = rest]
           ELSE [queue |-> to(def.nodes[id].next) \o rest \o
                             (IF def.nodes[id].kind = "condition" THEN to(def.nodes[id].other) ELSE << >>),
                 ordered |-> Append(walk.ordered, id)]

ReachableInOrder(def) ==
  LET turns == 2 * Cardinality(DOMAIN def.nodes) + 1
      walk[n \in 0..turns] == IF n = 0 THEN [queue |-> <<def.start>>, ordered |-> << >>]
                              ELSE Turn(def, walk[n - 1])
  IN  walk[turns].ordered

\* A save_field expects text; the same field asked more than once is one column.
AddColumn(columns, node) ==
  LET key == Trim[node.field]
      old == {i \in DOMAIN columns : columns[i].key = key}
  IN  IF node.kind \notin {"question", "save_field"} \/ key = "" THEN columns
      ELSE IF old = {} THEN Append(columns, [key |-> key, expect |-> node.expect, choices |-> node.choices])
      ELSE [columns EXCEPT ![CHOOSE i \in old : TRUE].choices = @ \cup node.choices]

\* What cannot be reached comes last, in an order nothing here depends on.
DeriveFieldSchema(def) ==
  LET order == ReachableInOrder(def)
      all == order \o SetToSeq(DOMAIN def.nodes \ ToSet(order))
      columns[n \in 0..Len(all)] == IF n = 0 THEN << >> ELSE AddColumn(columns[n - 1], def.nodes[all[n]])
  IN  columns[Len(all)]

\* A row without a schema is read by its definition.  A scenario that is gone
\* has no columns.
SchemaOf(row) == IF ~row.there THEN << >>
                 ELSE IF row.schema # << >> THEN row.schema
                 ELSE DeriveFieldSchema(row.definition)

-------------------------------------------------------------------------------
(* SequenceEditor.tsx: definitions and steps *)

\* The first branch of a condition, or its other one.
After(node) == IF node.kind = "condition" /\ node.next = None THEN node.other ELSE node.next

\* One turn of the walk along the line: a step of the node it is at, up to one
\* that is missing or was there.
Pass(def, walk) ==
  IF walk.cur \notin DOMAIN def.nodes \ walk.seen THEN walk
  ELSE LET node == def.nodes[walk.cur]
       IN  [cur |-> After(node), seen |-> walk.seen \cup {walk.cur},
            shown |-> IF node.kind \in StepKinds
                      THEN Append(walk.shown, <<walk.cur, [node EXCEPT !.next = None, !.other = None]>>)
                      ELSE walk.shown]

DefToSteps(def) ==
  LET turns == Cardinality(DOMAIN def.nodes)
      walk[n \in 0..turns] == IF n = 0 THEN [cur |-> def.start, seen |-> {}, shown |-> << >>]
                              ELSE Pass(def, walk[n - 1])
  IN  walk[turns].shown

\* A question whose name was left empty.
Named(field) == IF field = "" THEN "field" ELSE field

\* Every step leads to the next one.
StepsToDef(seq) ==
  [start |-> IF seq = << >> THEN "n1" ELSE seq[1][1],
   nodes |-> [id \in {seq[i][1] : i \in DOMAIN seq} |->
                LET i == CHOOSE j \in DOMAIN seq : seq[j][1] = id
                IN  [seq[i][2] EXCEPT !.next = IF i = Len(seq) THEN None ELSE seq[i + 1][1],
                                      !.field = IF seq[i][2].kind = "question" THEN Named(@) ELSE ""]]]

Blank(kind) == [kind |-> kind, next |-> None, other |-> None, field |-> "", expect |-> "text", choices |-> {}]

EditorInit ==
  /\ \E def \in Scripts : \E schema \in {<< >>, DeriveFieldSchema(def)} :
       scenario = [there |-> TRUE, live |-> FALSE, definition |-> def, schema |-> schema]
  /\ steps = << >> /\ edits = 0

\* The tab is loaded, or loaded again.
OpenEditor ==
  /\ scenario.there
  /\ steps' = DefToSteps(scenario.definition)
  /\ UNCHANGED <<scenario, edits>>

Becomes(seq) == edits < MaxEdits /\ edits' = edits + 1 /\ steps' = seq /\ UNCHANGED scenario

Patch(i, part, value) == Becomes([steps EXCEPT ![i][2] = [steps[i][2] EXCEPT ![part] = value]])

\* The name, the expectation and, while it is a choice, the choices.
PatchQuestion(i) ==
  /\ steps[i][2].kind = "question"
  /\ \/ \E f \in FieldNames : Patch(i, "field", f)
     \/ \E e \in Expects : Patch(i, "expect", e)
     \/ steps[i][2].expect = "choice" /\ \E c \in ChoiceSets : Patch(i, "choices", c)

RemoveStep(i) == Becomes(RemoveAt(steps, i))

MoveStep(i, j) == j \in DOMAIN steps /\ Becomes([steps EXCEPT ![i] = steps[j], ![j] = steps[i]])

\* After a step, or first of all.  newId() makes up an id that is nowhere in use.
AddStep(kind, at) ==
  /\ at = 0 => steps = << >>
  /\ \E id \in NodeIds \ ({steps[i][1] : i \in DOMAIN steps} \cup DOMAIN scenario.definition.nodes) :
       Becomes(InsertAt(steps, at + 1, <<id, Blank(kind)>>))

\* (mutant) the columns stay those of the definition before
SaveFlowOnly(covered) ==
  \E def \in {StepsToDef(steps)} :
      /\ scenario.there /\ def.start \in DOMAIN def.nodes
      /\ scenario' = [scenario EXCEPT !.definition = def, !.live = @ \/ ~covered]
      /\ UNCHANGED <<steps, edits>>

\* covered: another live scenario answers on its number.
SaveFlow(covered) ==
  \E def \in {StepsToDef(steps)} :
      /\ scenario.there /\ def.start \in DOMAIN def.nodes
      /\ scenario' = [scenario EXCEPT !.definition = def, !.schema = DeriveFieldSchema(def),
                                      !.live = @ \/ ~covered]
      /\ UNCHANGED <<steps, edits>>

ToggleFlow == scenario.there /\ scenario' = [scenario EXCEPT !.live = ~@] /\ UNCHANGED <<steps, edits>>

\* Leads keep their answers and lose the link to the scenario.
DeleteFlow == scenario.there /\ scenario' = [scenario EXCEPT !.there = FALSE] /\ UNCHANGED <<steps, edits>>

EditorNext ==
  \/ OpenEditor
  \/ \E i \in DOMAIN steps : PatchQuestion(i) \/ RemoveStep(i) \/ MoveStep(i, i + 1)
  \/ \E kind \in StepKinds : \E at \in 0..Len(steps) : AddStep(kind, at)
  \/ \E covered \in BOOLEAN : SaveFlow(covered)
  \/ ToggleFlow
  \/ DeleteFlow
=============================================================================

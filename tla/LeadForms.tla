-------------------------------- MODULE LeadForms --------------------------------
(***************************************************************************)
(* The collected answers of one lead: saved by the bot as its questions    *)
(* coerce them (flow-engine/src/step.ts), shown on the lead page as a form *)
(* (leads/[id]/page.tsx, lib/leads.ts), corrected there by an agent        *)
(* (saveFieldsAction) and exported (leads/export/route.ts), while the      *)
(* scenario they belong to is edited (FlowEditor).                         *)
(*                                                                         *)
(* A text is told apart by what the code reads in it, given in tables.     *)
(* Writings that get here are trimmed.  That a save reads the row in one   *)
(* call and writes it in another is in Leads; here it is one step.         *)
(***************************************************************************)
EXTENDS FlowEditor

CONSTANTS
  Writings,    \* what leads and agents write, and what controls show
  NumberRead,  \* NumberRead[t]: the number t reads as, in decimal, or ""
  Grouped,     \* texts that read as a number only without their spaces
  Stamp,       \* Stamp[t]: the timestamp t parses to as a date, or ""
  Day,         \* Day[t]: the yyyy-mm-dd of t, for t that parse as a date, or ""
  OneLine,     \* OneLine[t]: t without its line breaks
  NumberLike,  \* texts a number input can show
  DateLike,    \* texts a date input can show
  Literals,    \* values that save_field actions store, null and "" as Unset
  Pages,       \* tabs on the lead page
  MaxAnswers   \* bound: answers the bot saves

Blanks == Writings \cup {""}
Value == [kind: {"text", "number", "object"}, text: Writings]
Unset == [kind |-> "unset", text |-> ""]

ASSUME FormsAssumption ==
  /\ NumberRead \in [Blanks -> Blanks] /\ NumberRead[""] = ""
  /\ \A t \in Writings : NumberRead[t] # "" => NumberRead[t] \in NumberLike /\ NumberRead[NumberRead[t]] = NumberRead[t]
  /\ Stamp \in [Writings -> Blanks] /\ Day \in [Writings -> Blanks] /\ OneLine \in [Writings -> Writings]
  /\ \A t \in Writings : Day[t] # "" => Day[t] \in DateLike /\ Day[Day[t]] = Day[t]
  /\ Grouped \subseteq Writings /\ NumberLike \subseteq Writings /\ DateLike \subseteq Writings
  /\ \A t \in NumberLike \cup DateLike : OneLine[t] = t
  /\ \A c \in ChoiceSets : c \subseteq Writings
  /\ "" \notin Writings /\ Literals \subseteq Value \cup {Unset}
  /\ MaxAnswers \in Nat

VARIABLES
  bag,      \* Contact.fields
  page,     \* what each tab shows and what was typed there
  answers   \* how many the bot has saved

formVars == <<bag, page, answers>>

-------------------------------------------------------------------------------
(* Values and controls: lib/leads.ts *)

TextOf(t) == IF t = "" THEN Unset ELSE [kind |-> "text", text |-> t]
Numeric(t) == [kind |-> "number", text |-> NumberRead[t]]

NoSpec == [key |-> "", expect |-> "text", choices |-> {}]
SpecIn(columns, k) ==
  LET at == {i \in DOMAIN columns : columns[i].key = k}
  IN  IF at = {} THEN NoSpec ELSE columns[CHOOSE i \in at : TRUE]
Specs == SchemaOf(scenario)
Known == {Specs[i].key : i \in DOMAIN Specs}
SpecOf(k) == SpecIn(Specs, k)

\* One value as the text its control holds: a date narrowed to its day.
FieldInputValue(spec, value) ==
  IF spec.expect = "date" /\ value # Unset /\ Day[value.text] # "" THEN Day[value.text] ELSE value.text

Representable(type, t) ==
  CASE t = "" -> TRUE
    [] type = "number" -> t \in NumberLike
    [] type = "date" -> t \in DateLike
    [] OTHER -> TRUE

\* email, tel and text inputs show any text.
FieldInputType(spec, value) ==
  IF spec.expect \in {"number", "date"} /\ Representable(spec.expect, FieldInputValue(spec, value))
  THEN spec.expect ELSE "text"

\* The options of a menu, with whatever the lead already has.
ChoiceOptions(spec, value) ==
  IF value = Unset THEN spec.choices ELSE spec.choices \cup {value.text}

\* What a submitted text is stored as.
ParseFieldInput(spec, raw) ==
  IF spec.expect = "number" /\ NumberRead[raw] # "" THEN Numeric(raw) ELSE TextOf(raw)

\* What is displayed in lists and exports.
FormatFieldValue(spec, value) ==
  IF spec.expect = "date" /\ value # Unset /\ Day[value.text] # "" THEN Day[value.text] ELSE value.text

-------------------------------------------------------------------------------
(* The lead page *)

Held == {k \in FieldNames : bag[k] # Unset}
Extras == Held \ Known

\* How often the answer k has a row of its own: among the scenario's, or after.
RowsOf(k) == Cardinality({i \in DOMAIN Specs : Specs[i].key = k}) + (IF k \in Extras THEN 1 ELSE 0)

\* The browser's part: a menu shows the option selected, an input without what
\* its type cannot show and without line breaks.
Shown(spec, value) ==
  LET t == FieldInputValue(spec, value)
  IN  CASE spec.choices # {} -> t
        [] ~Representable(FieldInputType(spec, value), t) -> ""
        [] t = "" -> ""
        [] OTHER -> OneLine[t]

\* What a control can be made to hold.
Typeable(spec, value) ==
  IF spec.choices # {} THEN ChoiceOptions(spec, value) \cup {""}
  ELSE CASE FieldInputType(spec, value) = "number" -> NumberLike \cup {""}
         [] FieldInputType(spec, value) = "date" -> DateLike \cup {""}
         [] OTHER -> {OneLine[t] : t \in Writings} \cup {""}

\* touched: the controls the agent has changed; aged: those whose answer or
\* column has changed since; broken: those that show a text on one line.
Page == [on: SUBSET FieldNames, typed: [FieldNames -> Blanks], offers: [FieldNames -> SUBSET Blanks],
         touched: SUBSET FieldNames, aged: SUBSET FieldNames, broken: SUBSET FieldNames]
Closed == [on |-> {}, typed |-> [k \in FieldNames |-> ""], offers |-> [k \in FieldNames |-> {}],
           touched |-> {}, aged |-> {}, broken |-> {}]

FormsTypeOK ==
  /\ bag \in [FieldNames -> Value \cup {Unset}]
  /\ page \in [Pages -> Page]
  /\ scenario.definition.start \in NodeIds /\ answers \in 0..MaxAnswers /\ edits \in 0..MaxEdits

FormsInit ==
  /\ EditorInit
  /\ bag = [k \in FieldNames |-> Unset] /\ page = [p \in Pages |-> Closed] /\ answers = 0

\* Pages that are open age with what they were rendered from.
Ages ==
  \E columns \in {SchemaOf(row) : row \in {scenario'}} :
    page' = [p \in Pages |-> [page[p] EXCEPT
               !.aged = @ \cup {k \in page[p].on : bag'[k] # bag[k] \/ SpecIn(columns, k) # SpecOf(k)}]]

OpenPage(p) ==
  /\ page' = [page EXCEPT ![p] =
       [on |-> Known \cup Extras, touched |-> {}, aged |-> {},
        typed |-> [k \in FieldNames |-> IF k \in Known \cup Extras THEN Shown(SpecOf(k), bag[k]) ELSE ""],
        offers |-> [k \in FieldNames |-> IF k \in Known \cup Extras THEN Typeable(SpecOf(k), bag[k]) ELSE {}],
        broken |-> {k \in Known \cup Extras : SpecOf(k).choices = {} /\ bag[k] # Unset
                      /\ LET t == FieldInputValue(SpecOf(k), bag[k]) IN OneLine[t] # t}]]
  /\ UNCHANGED <<scenarioVars, bag, answers>>

Type(p, k, t) ==
  /\ k \in page[p].on /\ t \in page[p].offers[k] \ {page[p].typed[k]}
  /\ page' = [page EXCEPT ![p].typed[k] = t, ![p].touched = @ \cup {k}]
  /\ UNCHANGED <<scenarioVars, bag, answers>>

-------------------------------------------------------------------------------
(* saveFieldsAction *)

\* (mutant) "touched" is answered against what is stored
DiffersFromStored(k, raw) == raw # bag[k].text

\* "Did the agent touch this?" is answered against what the form shows now.
Differs(k, raw) == raw # FieldInputValue(SpecOf(k), bag[k])

\* A choice may only become one the scenario offers.
Allowed(spec, next) == spec.choices # {} /\ next # Unset => next.text \in spec.choices

SaveField(k, raw) ==
  LET next == ParseFieldInput(SpecOf(k), raw)
  IN  IF Differs(k, raw) /\ Allowed(SpecOf(k), next) THEN next ELSE bag[k]

\* The names of the scenario and of the answers decide; the rest of the form is
\* ignored, and what is not on the form is left alone.
SaveFields(p) ==
  /\ page[p].on # {}
  /\ bag' = [k \in FieldNames |-> IF k \in page[p].on /\ k \in Known \cup Held
                                  THEN SaveField(k, page[p].typed[k]) ELSE bag[k]]
  /\ page' = [q \in Pages |->
       IF q = p THEN Closed
       ELSE [page[q] EXCEPT !.aged = @ \cup {k \in page[q].on : bag'[k] # bag[k]}]]
  /\ UNCHANGED <<scenarioVars, answers>>

-------------------------------------------------------------------------------
(* The bot: coerce of step.ts, and save_field *)

Coerced(node, t) ==
  CASE node.expect = "number" -> IF NumberRead[t] # "" /\ t \notin Grouped THEN Numeric(t) ELSE Unset
    [] node.expect = "date" -> TextOf(Stamp[t])
    [] node.expect = "choice" /\ node.choices # {} ->
         IF t \in node.choices THEN TextOf(t) ELSE Unset
    [] OTHER -> TextOf(t)

Stores(field, value) ==
  /\ answers < MaxAnswers /\ answers' = answers + 1
  /\ bag' = [bag EXCEPT ![field] = value]
  /\ UNCHANGED scenarioVars /\ Ages

BotSaves ==
  \E id \in DOMAIN scenario.definition.nodes : LET node == scenario.definition.nodes[id] IN
    /\ node.field # ""
    /\ \/ /\ node.kind = "question"
          /\ \E t \in Writings : Coerced(node, t) # Unset /\ Stores(node.field, Coerced(node, t))
       \/ node.kind = "save_field" /\ \E v \in Literals : Stores(node.field, v)

FormsNext ==
  \/ \E p \in Pages : \/ OpenPage(p) \/ SaveFields(p)
                      \/ \E k \in FieldNames : \E t \in Blanks : Type(p, k, t)
  \/ BotSaves
  \/ EditorNext /\ UNCHANGED <<bag, answers>> /\ Ages

FormsSpec == FormsInit /\ [][FormsNext]_<<scenarioVars, formVars>>

-------------------------------------------------------------------------------
\* Saving the form changes no answer its agent has not touched.  The two ways
\* it still does: the answer or its column changed after the page was rendered
\* (the form is compared with what is stored by now, not with what it showed),
\* and an answer of several lines, which an input joins into one.
\* (leads/actions.ts, saveFieldsAction; lib/leads.ts, fieldInputType.)
OnlyTouchedChange ==
  [][\A p \in Pages : \A k \in FieldNames :
       /\ page[p].on # {} /\ page'[p] = Closed /\ bag'[k] # bag[k]
       => k \in page[p].touched \cup page[p].aged \cup page[p].broken]_<<scenarioVars, formVars>>

\* Whatever happens to the scenario, an answer is on the lead page, once; while
\* a question or save_field of that name is in the script, reachable or not, it
\* is in a column of the scenario, and so in the export, and is not blank there.
\* (Names with spaces around them are the exception: the column's are trimmed,
\* the answer's are not.)
AnswersKeepColumns ==
  \A k \in Held :
    /\ RowsOf(k) = 1
    /\ LET asked == {id \in DOMAIN scenario.definition.nodes :
                       scenario.definition.nodes[id].kind \in {"question", "save_field"}
                         /\ scenario.definition.nodes[id].field = k}
       IN  scenario.there /\ asked # {} /\ Trim[k] = k
             => k \in Known /\ FormatFieldValue(SpecOf(k), bag[k]) # ""
=============================================================================

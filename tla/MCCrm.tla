--------------------------------- MODULE MCCrm ---------------------------------
(***************************************************************************)
(* Small instance of Appointments, and with it of Leads: two leads, a      *)
(* manager and an agent.  And one of LeadForms, which shares no variable   *)
(* with them and is explored with the leads at rest: the answers of one    *)
(* lead under three scripts of one or two steps.                           *)
(***************************************************************************)
EXTENDS Appointments, LeadForms, TLC

CONSTANTS l1, l2, boss, ann, p1, t1, t2, k1, k2, a1

MCJoined == <<boss, ann>>

edit(kind, col, to) == [kind |-> kind, col |-> col, to |-> to]
Lose == edit("set", "status", "LOST")
MCForms ==
  {Lose, edit("set", "product", p1), edit("set", "summary", "text"), edit("note", NULL, NULL),
   edit("tag", t1, NULL), edit("untag", t1, NULL), edit("field", k1, a1), edit("bulk", "status", "LOST")}
  \cup {edit("set", "owner", o) : o \in {ann, boss, NULL}} \cup {edit("bulk", "owner", ann)}
MCFinds == {<<k2, a1>>}

\* Two slots next to each other, a second rule's across both, and Cal.com's.
MCRules == {[start |-> 0, end |-> 4, length |-> 2, buffer |-> 0], [start |-> 1, end |-> 4, length |-> 2, buffer |-> 1]}
MCGoogleBusy == {<<0, 1>>}
MCTimes == {<<0, 3>>, <<4, 6>>}

NoChase == /\ chased = [l \in LeadIds |-> [quiet |-> FALSE, rested |-> TRUE, count |-> 0, sent |-> 0, cut |-> 0]]
           /\ \A s \in Sweeps : ~Sweeping(s)
NoJobs == \A j \in Jobs : job[j] = New
NoTasks == (\A r \in Requests : request[r] = New) /\ NoJobs
AllThere == members = Users /\ products = Products
AllNew == NoTasks /\ AllThere /\ lead = [l \in LeadIds |-> NewLead]

\* At most two requests or jobs, on l1 or on both leads, with one mishap.
FewTasks ==
  /\ Cardinality({r \in Requests : request'[r] # New} \cup {j \in Jobs : job'[j] # New}) <= 2
  /\ Cardinality(Users \ members') + Cardinality(Products \ products') + deaths' + Cardinality(notes') <= 1
  /\ \A r \in Requests : request'[r].pc \notin {"new", "done"} => request'[r].on # {l2}
  /\ \A j \in Jobs : job'[j].pc \notin {"new", "done"} => job'[j].on = l1

\* A request that closes l1, while Cal.com has one booking, at most.
Closing == \E r \in Requests : OpenLead(r, boss, l1, Lose) \/ WriteLead(r) \/ LogEdit(r)
OneBooking == /\ \A u \in Uids : Len(booking'[u]) <= 1
              /\ Cardinality({d \in Calls : call'[d] # New}) <= 1
              /\ Cardinality({r \in Requests : request'[r] # New}) <= 1
              /\ deaths' = 0 /\ mixed \subseteq {l1}
              /\ \A l \in LeadIds : lead[l] = [NewLead EXCEPT !.status = lead[l].status]

NoSlots == slotVars = <<[l \in LeadIds |-> NoMenu], [o \in Offers |-> New], [x \in Replies |-> New], {}>>
NoCalls == (\A u \in Uids : booking[u] = <<>>) /\ \A d \in Calls : call[d] = New

\* Reminders fire between replies; meanwhile Cal.com has one booking, at most.
Between == timers \ timers' # {} => \A x \in Replies : reply[x].pc \in {"new", "done"}
Slotting == /\ NoTasks /\ AllThere /\ OneBooking
            /\ \A u \in Uids : booking'[u] # <<>> => booker'[u].known
            /\ Cardinality({x \in Replies : reply'[x] # New} \cup {u \in Uids : booking'[u] # <<>>}) <= 2

-------------------------------------------------------------------------------
MCTrim == [f \in {"city", "city ", "field", ""} |-> IF f = "city " THEN "city" ELSE f]
MCChoiceSets == {{}, {"north"}, {"north", "digits"}}

\* One question; a menu that is asked for ever beside a question that cannot be
\* reached; an answer of the scenario's own before a date.
Ask(f, e, c) == [Blank("question") EXCEPT !.field = f, !.expect = e, !.choices = c]
Plain == [start |-> "n1", nodes |-> "n1" :> Ask("city", "text", {})]
MCScripts ==
  {Plain,
   [start |-> "n1", nodes |-> "n1" :> [Ask("city ", "choice", {"north"}) EXCEPT !.next = "n2"]
      @@ "n2" :> [Blank("condition") EXCEPT !.next = "n1", !.other = "n3"]
      @@ "n3" :> Blank("end") @@ "n4" :> Ask("city", "number", {})],
   [start |-> "n1", nodes |-> "n1" :> [Blank("condition") EXCEPT !.other = "n2"]
      @@ "n2" :> [Blank("save_field") EXCEPT !.field = "field", !.next = "n3"]
      @@ "n3" :> Ask("field", "date", {})]}

\* A text per way to read it.
MCWritings == {"north", "digits", "grouped", "prose", "lines", "line", "stamp", "day"}
MCNumberRead == [t \in MCWritings \cup {""} |-> IF t \in {"digits", "grouped"} THEN "digits" ELSE ""]
MCStamp == [t \in MCWritings |-> IF t \in {"stamp", "day"} THEN "stamp" ELSE ""]
MCDay == [t \in MCWritings |-> IF t \in {"stamp", "day"} THEN "day" ELSE ""]
MCOneLine == [t \in MCWritings |-> IF t = "lines" THEN "line" ELSE t]
MCLiterals == {TextOf("prose"), Unset, [kind |-> "object", text |-> "north"]}

\* Unsaved steps are saved, or loaded again, before anything else; a scenario
\* goes live before it has answers; one control is touched; n5 is the id that is
\* made up.
Unsaved == steps \notin {<< >>, DefToSteps(scenario.definition)}
FewForms ==
  /\ Unsaved => bag' = bag /\ answers' = answers /\ \A p \in Pages : page'[p] = Closed <=> page[p] = Closed
  /\ scenario'.live => answers' = 0 /\ \A p \in Pages : page'[p] = Closed
  /\ \A p \in Pages : /\ Cardinality(page'[p].touched) <= 1
                      /\ \A k \in page'[p].touched : page'[p].typed[k] \in {"digits", "prose", ""}
  /\ \A i \in DOMAIN steps' : steps'[i][2].kind \in {"question", "message"}
  /\ Len(steps') <= 2
  /\ \A i \in DOMAIN steps' : steps'[i][1] \in DOMAIN scenario.definition.nodes \cup {"n5"}

formsAll == <<scenarioVars, formVars>>
FormsAtRest == /\ scenario = [there |-> TRUE, live |-> FALSE, definition |-> Plain, schema |-> << >>]
               /\ steps = << >> /\ edits = 0 /\ answers = 0
               /\ \A k \in FieldNames : bag[k] = Unset
               /\ \A p \in Pages : page[p] = Closed
LeadsAtRest == AllNew /\ Init

-------------------------------------------------------------------------------
\* Tasks with each other; the follow-up sweeps; the slot menus, with a booking
\* of Cal.com's or with a death; Cal.com's calls alone, and with a request that
\* closes the lead.
CrmNext ==
  \/ NoChase /\ NoSlots /\ NoCalls /\ LeadsNext /\ FewTasks /\ UNCHANGED apptVars
  \/ NoSlots /\ NoCalls /\ AllNew /\ FollowUpsNext /\ UNCHANGED apptVars
  \/ NoChase /\ (BotNext \/ CalcomNext) /\ Slotting /\ Between
  \/ NoChase /\ NoCalls /\ AllNew /\ BotNext /\ Between
  \/ NoChase /\ NoSlots /\ NoTasks /\ AllThere /\ CalcomNext
  \/ NoChase /\ NoSlots /\ NoJobs /\ AllThere /\ (CalcomNext \/ (Closing /\ UNCHANGED apptVars)) /\ OneBooking

MCInit == Init /\ FormsInit

MCNext == \/ FormsAtRest /\ CrmNext /\ UNCHANGED formsAll
          \/ LeadsAtRest /\ FormsNext /\ FewForms /\ UNCHANGED vars

MCSpec == MCInit /\ [][MCNext]_<<vars, formsAll>>

Symmetry == Permutations(Requests) \cup Permutations(Calls) \cup Permutations(Replies) \cup Permutations(Offers)
=============================================================================

--------------------------------- MODULE Leads ---------------------------------
(***************************************************************************)
(* The leads of one organization, and everybody who writes to them: agents *)
(* in the dashboard (leads/actions.ts), the bot's flow actions             *)
(* (agent-routing.ts, process-inbound.ts) and the follow-up sweep          *)
(* (process-followups.ts).                                                 *)
(*                                                                         *)
(* Every one of them reads the row in one call and writes it in another.   *)
(* What was read travels with the request or the job; reading[l] holds who *)
(* has read l and is not done yet, and a lead is mixed once it is written  *)
(* while somebody else was in between.                                     *)
(***************************************************************************)
EXTENDS Naturals, FiniteSets, Sequences

CONSTANTS
  NULL,
  Joined,     \* the members, in the order their accounts were created
  Agents,     \* those whose role is AGENT
  LeadIds,
  Products, Tags, Keys, Answers,
  Forms,      \* the edits tried in the dashboard
  Finds,      \* the answers the bot saves: <<key, answer>>
  Requests,   \* one-shot requests of the dashboard
  Jobs,       \* one-shot jobs of the bot
  Sweeps,     \* follow-up sweeps that can overlap
  FollowUpMax,
  MaxDeaths   \* bound: deaths of the web process and of the worker

Users == {Joined[i] : i \in DOMAIN Joined}
Managers == Users \ Agents
Open == {"NEW", "CONTACTED", "QUALIFIED"}
Statuses == Open \cup {"MEETING_SET", "WON", "LOST"}

VARIABLES
  lead,       \* the Contact rows
  members,    \* who has not been removed
  products,   \* those that exist
  notes,      \* <<lead, author>>
  timeline,   \* for each column, the value its last LeadActivity leads to
  request, job,
  reading, mixed,  \* history
  unlogged,   \* history: leads with an entry missing from their timeline
  deaths,
  sweep, chased

rowVars == <<lead, timeline, reading, mixed, unlogged>>
botVars == <<job>>
chaseVars == <<sweep, chased>>
teamVars == <<members, products, notes>>
leadsVars == <<rowVars, request, botVars, chaseVars, teamVars, deaths>>

-------------------------------------------------------------------------------
Columns == {"status", "owner", "product", "summary"}
Ranges == [status |-> Statuses, owner |-> Users \cup {NULL}, product |-> Products \cup {NULL},
           summary |-> {NULL, "text"}]
Row == [status: Statuses, owner: Users \cup {NULL}, product: Products \cup {NULL}, summary: {NULL, "text"},
        tags: SUBSET Tags, fields: [Keys -> Answers \cup {NULL}]]
NewLead == [status |-> "NEW", owner |-> NULL, product |-> NULL, summary |-> NULL,
            tags |-> {}, fields |-> [k \in Keys |-> NULL]]

\* What a process, an answer or a name is called tells what it is.
ASSUME LeadsAssumption ==
  /\ Agents \subseteq Users /\ Finds \subseteq Keys \X Answers
  /\ NULL \notin Users \cup Products \cup Answers \cup Statuses \cup LeadIds \cup Requests \cup Jobs \cup Columns
  /\ Columns \cap (Tags \cup Keys) = {} /\ Requests \cap Jobs = {}
  /\ FollowUpMax \in Nat /\ MaxDeaths \in Nat /\ IsFiniteSet(Sweeps) /\ Sweeps # {}

\* What one form asks for.  A summary is there or not; its text is left out.
Edit == (UNION {[kind: {"set", "bulk"}, col: {c}, to: Ranges[c]] : c \in Columns})
        \cup [kind: {"tag", "untag"}, col: Tags, to: {NULL}]
        \cup [kind: {"field"}, col: Keys, to: Answers \cup {NULL}]
        \cup [kind: {"note"}, col: {NULL}, to: {NULL}]

ASSUME EditsAssumption == Forms \subseteq Edit

New == [pc |-> "new"]
Done == [pc |-> "done"]

\* on: the leads of the form; seen: what of the row it is written from;
\* todo: entries to log.
Request == [pc: {"check", "before", "write", "log"}, by: Users, edit: Edit,
            on: SUBSET LeadIds, todo: SUBSET LeadIds,
            seen: [tags: SUBSET Tags, fields: [Keys -> Answers \cup {NULL}]]] \cup {New, Done}

\* One inbound or delay job: owner and fields as read at its start (owner is
\* the new one once the job assigned it), the flow actions still to come.
Job == [pc: {"next", "tag", "pick", "give", "logTag", "logOwner"}, on: LeadIds, owner: Users \cup {NULL},
        fields: [Keys -> Answers \cup {NULL}], tags: SUBSET Tags, to: Users \cup Tags \cup {NULL},
        todo: SUBSET {"tag", "owner", "notify"}, told: SUBSET Users] \cup {New, Done}

\* todo: the leads still to nudge; sent: the one just nudged, until it is counted.
NoSweep == [pc |-> "idle"]
Sweep == [pc: {"nudge"}, todo: SUBSET LeadIds, sent: LeadIds \cup {NULL}] \cup {NoSweep}
Chased == [quiet: BOOLEAN, rested: BOOLEAN, count: Nat, sent: Nat, cut: Nat]

LeadsTypeOK ==
  /\ lead \in [LeadIds -> Row]
  /\ members \subseteq Users /\ products \subseteq Products
  /\ notes \subseteq LeadIds \X Users
  /\ request \in [Requests -> Request]
  /\ job \in [Jobs -> Job]
  /\ timeline \in [LeadIds -> Row] /\ mixed \subseteq LeadIds /\ unlogged \subseteq LeadIds
  /\ sweep \in [Sweeps -> Sweep] /\ chased \in [LeadIds -> Chased]
  /\ deaths \in Nat

LeadsInit ==
  /\ lead = [l \in LeadIds |-> NewLead]
  /\ members = Users /\ products = Products /\ notes = {}
  /\ timeline = [l \in LeadIds |-> NewLead]
  /\ request = [r \in Requests |-> New] /\ job = [j \in Jobs |-> New]
  /\ reading = [l \in LeadIds |-> {}] /\ mixed = {} /\ unlogged = {} /\ deaths = 0
  /\ sweep = [s \in Sweeps |-> NoSweep]
  /\ chased = [l \in LeadIds |-> [quiet |-> FALSE, rested |-> TRUE, count |-> 0, sent |-> 0, cut |-> 0]]

-------------------------------------------------------------------------------
(* Rows, readers and writers *)

Reads(p, ls) == reading' = [l \in LeadIds |-> IF l \in ls THEN reading[l] \cup {p} ELSE reading[l]]
Leaves(p) == reading' = [l \in LeadIds |-> reading[l] \ {p}]

\* The rows of ls become new[l], by p.
Writes(p, ls, new) ==
  /\ lead' = [l \in LeadIds |-> IF l \in ls THEN new[l] ELSE lead[l]]
  /\ mixed' = mixed \cup {l \in ls : reading[l] \ {p} # {}}
KeepsRows == UNCHANGED <<lead, mixed>>

\* logActivity: a failure is swallowed.  The actor is a foreign key, so that
\* what a removed member does with a session still valid is never logged.
Logs(by, ls, col, value) ==
  IF by \in members \cup {NULL}
  THEN /\ \/ timeline' = [l \in LeadIds |-> IF l \in ls THEN [timeline[l] EXCEPT ![col] = value] ELSE timeline[l]]
             /\ UNCHANGED <<unlogged, deaths>>
          \/ deaths < MaxDeaths /\ deaths' = deaths + 1
             /\ unlogged' = unlogged \cup ls /\ UNCHANGED timeline
  ELSE unlogged' = unlogged \cup ls /\ UNCHANGED <<timeline, deaths>>

-------------------------------------------------------------------------------
(* The dashboard: leads/actions.ts *)

\* leadVisibility: an agent sees their own leads and the pool.
Visible(u, l) == u \in Agents => lead[l].owner \in {u, NULL}
MayAssign(u, v) == u \in Agents => v \in {u, NULL}
Exists(col, v) == CASE col = "owner" -> v \in members \cup {NULL}
                    [] col = "product" -> v \in products \cup {NULL}
                    [] OTHER -> TRUE

\* The actions' early returns for a form that changes nothing.
Asks(row, e) == CASE e.kind \in {"set", "bulk"} -> row[e.col] # e.to
                  [] e.kind = "tag" -> e.col \notin row.tags
                  [] e.kind = "untag" -> e.col \in row.tags
                  [] e.kind = "field" -> row.fields[e.col] # e.to
                  [] OTHER -> TRUE

\* What of the row an edit is written from: tags and fields are written whole.
Whole(row, e) == [tags |-> IF e.kind \in {"tag", "untag"} THEN row.tags ELSE {},
                  fields |-> IF e.kind = "field" THEN row.fields ELSE NewLead.fields]

\* The columns an update names.
Update(row, seen, e) ==
  CASE e.kind = "tag" -> [row EXCEPT !.tags = seen.tags \cup {e.col}]
    [] e.kind = "untag" -> [row EXCEPT !.tags = seen.tags \ {e.col}]
    [] e.kind = "field" -> [row EXCEPT !.fields = [seen.fields EXCEPT ![e.col] = e.to]]
    [] e.kind = "note" -> row
    [] OTHER -> [row EXCEPT ![e.col] = e.to]

Ends(r) == request' = [request EXCEPT ![r] = Done] /\ Leaves(r)
To(r, pc) == request' = [request EXCEPT ![r].pc = pc]
At(r, pc) == request[r].pc = pc
RequestRest == UNCHANGED <<botVars, chaseVars>>
Checked(e) == e.col \in {"owner", "product"} /\ e.to # NULL

\* ownLead and the form's early returns.
OpenLead(r, u, l, e) ==
  /\ At(r, "new") /\ e.kind # "bulk"
  /\ Visible(u, l) /\ Asks(lead[l], e)
  /\ (e.kind = "set" /\ e.col = "owner") => MayAssign(u, e.to)
  /\ request' = [request EXCEPT ![r] =
       [pc |-> IF Checked(e) THEN "check" ELSE "write", by |-> u, edit |-> e, on |-> {l},
        seen |-> Whole(lead[l], e), todo |-> {l}]]
  /\ Reads(r, {l})
  /\ KeepsRows /\ RequestRest /\ UNCHANGED <<timeline, unlogged, teamVars, deaths>>

\* bulkAction, which reads its leads only after the member check.
OpenBulk(r, u, ls, e) ==
  /\ At(r, "new") /\ e.kind = "bulk" /\ e.col \in {"status", "owner"}
  /\ e.col = "owner" => MayAssign(u, e.to)
  /\ request' = [request EXCEPT ![r] =
       [pc |-> IF Checked(e) THEN "check" ELSE "before", by |-> u, edit |-> e, on |-> ls,
        seen |-> Whole(NewLead, e), todo |-> {}]]
  /\ KeepsRows /\ RequestRest /\ UNCHANGED <<timeline, unlogged, teamVars, deaths, reading>>

\* The member, or the product, must be there.
CheckTarget(r) ==
  /\ At(r, "check")
  /\ LET e == request[r].edit IN
     IF Exists(e.col, e.to)
     THEN To(r, IF e.kind = "bulk" THEN "before" ELSE "write") /\ UNCHANGED reading
     ELSE Ends(r)
  /\ KeepsRows /\ RequestRest /\ UNCHANGED <<timeline, unlogged, teamVars, deaths>>

\* (mutant) the leads to log are not scoped to what the agent sees
BeforeUnscoped(t) == {l \in t.on : Asks(lead[l], t.edit)}

\* before: the leads the update is going to change, for the timeline.
Before(t) == {l \in t.on : Visible(t.by, l) /\ Asks(lead[l], t.edit)}

BulkBefore(r) ==
  LET t == request[r] IN
  /\ At(r, "before")
  /\ request' = [request EXCEPT ![r].pc = "write", ![r].todo = Before(t)]
  /\ Reads(r, t.on)
  /\ KeepsRows /\ RequestRest /\ UNCHANGED <<timeline, unlogged, teamVars, deaths>>

\* updateMany filters again; an update of one row does not.
Targets(t) == IF t.edit.kind = "bulk" THEN {l \in t.on : Visible(t.by, l)} ELSE t.on

\* The update.  Owner and product are foreign keys: pointing to what has gone
\* meanwhile fails, as does a note of a removed member.
WriteLead(r) ==
  LET t == request[r] IN
  /\ At(r, "write")
  /\ IF Exists(t.edit.col, t.edit.to) /\ (t.edit.kind = "note" => t.by \in members)
     THEN /\ Writes(r, Targets(t), [l \in LeadIds |-> Update(lead[l], t.seen, t.edit)])
          /\ notes' = IF t.edit.kind = "note" THEN notes \cup (t.on \X {t.by}) ELSE notes
          /\ request' = [request EXCEPT ![r].pc = "log"]
          /\ UNCHANGED reading
     ELSE Ends(r) /\ KeepsRows /\ UNCHANGED notes
  /\ RequestRest /\ UNCHANGED <<timeline, unlogged, members, products, deaths>>

\* The timeline names the new status, owner, product or tags; of a summary,
\* an answer or a note it only says that it changed.
LogEdit(r) ==
  LET t == request[r]  e == t.edit IN
  /\ At(r, "log")
  /\ IF e.col \in {"status", "owner", "product"} THEN Logs(t.by, t.todo, e.col, e.to)
     ELSE IF e.kind \in {"tag", "untag"} THEN Logs(t.by, t.todo, "tags", Update(NewLead, t.seen, e).tags)
     ELSE UNCHANGED <<timeline, unlogged, deaths>>
  /\ Ends(r)
  /\ KeepsRows /\ RequestRest /\ UNCHANGED teamVars

\* The web process dies under a request.
WebDies(r) ==
  /\ request[r].pc \notin {"new", "done"} /\ deaths < MaxDeaths
  /\ deaths' = deaths + 1 /\ Ends(r)
  /\ unlogged' = IF request[r].pc = "log" THEN unlogged \cup request[r].todo ELSE unlogged
  /\ KeepsRows /\ RequestRest /\ UNCHANGED <<timeline, teamVars>>

\* A note goes when its author, or a manager, removes it.
DeleteNote(u, n) ==
  /\ n \in notes /\ (u \in Agents => n[2] = u)
  /\ notes' = notes \ {n}
  /\ UNCHANGED <<rowVars, request, members, products, deaths>> /\ RequestRest

\* removeMemberAction and deleteProductAction: onDelete SetNull.
Detach(col, v) == Writes(NULL, {l \in LeadIds : lead[l][col] = v}, [l \in LeadIds |-> [lead[l] EXCEPT ![col] = NULL]])

RemoveMember(u) ==
  /\ u \in members /\ Cardinality(members) > 1
  /\ members' = members \ {u}
  /\ Detach("owner", u)
  /\ UNCHANGED <<timeline, reading, unlogged, request, products, notes, deaths>> /\ RequestRest

DeleteProduct(p) ==
  /\ p \in products
  /\ products' = products \ {p}
  /\ Detach("product", p)
  /\ UNCHANGED <<timeline, reading, unlogged, request, members, notes, deaths>> /\ RequestRest

-------------------------------------------------------------------------------
(* The bot: applyAndPersist and agent-routing.ts *)

JobAt(j, pc) == job[j].pc = pc
JobRest == UNCHANGED <<request, chaseVars, teamVars>>
Finishes(j) == job' = [job EXCEPT ![j] = Done] /\ Leaves(j)
NoLog == UNCHANGED <<timeline, unlogged, deaths>>

\* The contact is read once, at the start of the job.
StartJob(j, l, todo) ==
  /\ JobAt(j, "new")
  /\ job' = [job EXCEPT ![j] = [pc |-> "next", on |-> l, owner |-> lead[l].owner, fields |-> lead[l].fields,
                                tags |-> {}, to |-> NULL, todo |-> todo, told |-> {}]]
  /\ Reads(j, {l}) /\ KeepsRows /\ NoLog /\ JobRest

\* addTag: reads the tags, and writes them with one more.
ReadTags(j, tag) ==
  LET b == job[j] IN
  /\ JobAt(j, "next") /\ "tag" \in b.todo
  /\ job' = [job EXCEPT ![j] = IF tag \in lead[b.on].tags THEN [b EXCEPT !.todo = @ \ {"tag"}]
               ELSE [b EXCEPT !.pc = "tag", !.todo = @ \ {"tag"}, !.to = tag, !.tags = lead[b.on].tags]]
  /\ KeepsRows /\ NoLog /\ JobRest /\ UNCHANGED reading

WriteTags(j) ==
  LET b == job[j] IN
  /\ JobAt(j, "tag")
  /\ Writes(j, {b.on}, [l \in LeadIds |-> [lead[l] EXCEPT !.tags = b.tags \cup {b.to}]])
  /\ job' = [job EXCEPT ![j].pc = "logTag"]
  /\ NoLog /\ JobRest /\ UNCHANGED reading

LogTags(j) ==
  LET b == job[j] IN
  /\ JobAt(j, "logTag")
  /\ Logs(NULL, {b.on}, "tags", b.tags \cup {b.to})
  /\ job' = [job EXCEPT ![j] = [b EXCEPT !.pc = "next", !.to = NULL, !.tags = {}]]
  /\ KeepsRows /\ JobRest /\ UNCHANGED reading

\* (mutant) nothing is asked
Unasked(b) == FALSE

\* Never steal a lead a human has already taken responsibility for.
Owned(b) == lead[b.on].owner # NULL

ReadOwner(j) ==
  LET b == job[j] IN
  /\ JobAt(j, "next") /\ "owner" \in b.todo
  /\ job' = [job EXCEPT ![j] = IF Owned(b) THEN [b EXCEPT !.todo = @ \ {"owner"}, !.owner = lead[b.on].owner]
                               ELSE [b EXCEPT !.pc = "pick", !.todo = @ \ {"owner"}]]
  /\ KeepsRows /\ NoLog /\ JobRest /\ UNCHANGED reading

\* The open leads of u.
Load(u) == Cardinality({l \in LeadIds : lead[l].owner = u /\ lead[l].status \notin {"WON", "LOST"}})
LeastLoaded(u) ==
  \E i \in DOMAIN Joined :
    /\ u = Joined[i] /\ u \in members
    /\ \A k \in DOMAIN Joined : Joined[k] \in members =>
         Load(u) < Load(Joined[k]) \/ (Load(u) = Load(Joined[k]) /\ i <= k)

\* pickAssignee: whom the flow names, if still a member, or the least loaded.
PickAssignee(j, named) ==
  /\ JobAt(j, "pick")
  /\ \E u \in members :
       /\ IF named \in members THEN u = named ELSE LeastLoaded(u)
       /\ job' = [job EXCEPT ![j].pc = "give", ![j].to = u]
  /\ KeepsRows /\ NoLog /\ JobRest /\ UNCHANGED reading

GiveLead(j) ==
  LET b == job[j] IN
  /\ JobAt(j, "give")
  /\ IF b.to \in members
     THEN /\ Writes(j, {b.on}, [l \in LeadIds |-> [lead[l] EXCEPT !.owner = b.to]])
          /\ job' = [job EXCEPT ![j].pc = "logOwner"] /\ UNCHANGED reading
     ELSE Finishes(j) /\ KeepsRows
  /\ NoLog /\ JobRest

\* (mutant) the step goes on with the owner of its start
Forgotten(b) == b.owner

\* ctx.assignedUserId.
Remembered(b) == b.to

LogOwner(j) ==
  LET b == job[j] IN
  /\ JobAt(j, "logOwner")
  /\ Logs(NULL, {b.on}, "owner", b.to)
  /\ job' = [job EXCEPT ![j] = [b EXCEPT !.pc = "next", !.to = NULL, !.owner = Remembered(b)]]
  /\ KeepsRows /\ JobRest /\ UNCHANGED reading

\* notifyAgent: the owner, or the managers of a lead without one.
Recipients(owner) == (IF owner = NULL THEN Managers ELSE {owner}) \cap members

NotifyAgent(j) ==
  LET b == job[j] IN
  /\ JobAt(j, "next") /\ "notify" \in b.todo
  /\ job' = [job EXCEPT ![j].todo = @ \ {"notify"}, ![j].told = Recipients(b.owner)]
  /\ KeepsRows /\ NoLog /\ JobRest /\ UNCHANGED reading

\* persist: the answers of the step, merged into the fields read at the start.
Persist(j, k, v) ==
  LET b == job[j] IN
  /\ JobAt(j, "next") /\ b.todo = {}
  /\ Writes(j, {b.on}, [l \in LeadIds |-> [lead[l] EXCEPT !.fields = [b.fields EXCEPT ![k] = v]]])
  /\ Finishes(j)
  /\ NoLog /\ JobRest

NothingSaved(j) ==
  /\ JobAt(j, "next") /\ job[j].todo = {}
  /\ Finishes(j) /\ KeepsRows /\ NoLog /\ JobRest

-------------------------------------------------------------------------------
(* Follow-ups: processFollowUps *)

ChaseRest == UNCHANGED <<rowVars, request, botVars, teamVars>>

\* The lead writes: the clock of its silence starts again.
Answer(l) ==
  /\ chased[l].quiet
  /\ chased' = [chased EXCEPT ![l].quiet = FALSE]
  /\ ChaseRest /\ UNCHANGED <<sweep, deaths>>

\* followUpAfterHours later.
TimePasses(l) ==
  /\ chased' = [chased EXCEPT ![l].quiet = TRUE, ![l].rested = TRUE]
  /\ chased' # chased
  /\ ChaseRest /\ UNCHANGED <<sweep, deaths>>

\* (mutant) the cap is compared the other way round
AtCap(l) == chased[l].count <= FollowUpMax

UnderCap(l) == chased[l].count < FollowUpMax

Due(l) == lead[l].status \in Open /\ UnderCap(l) /\ chased[l].quiet /\ chased[l].rested

Sweeping(s) == sweep[s].pc = "nudge"

\* The leads that are due, less those whose last conversation is finished.
StartSweep(s, finished) ==
  /\ ~Sweeping(s)
  /\ sweep' = [sweep EXCEPT ![s] = [pc |-> "nudge", todo |-> {l \in LeadIds : Due(l)} \ finished, sent |-> NULL]]
  /\ ChaseRest /\ UNCHANGED <<chased, deaths>>

Nudge(s, l) ==
  /\ Sweeping(s) /\ sweep[s].sent = NULL /\ l \in sweep[s].todo
  /\ chased' = [chased EXCEPT ![l].sent = @ + 1]
  /\ sweep' = [sweep EXCEPT ![s].sent = l]
  /\ ChaseRest /\ UNCHANGED deaths

\* The transaction that counts the nudge and logs it.
CountNudge(s) ==
  LET l == sweep[s].sent IN
  /\ Sweeping(s) /\ l # NULL
  /\ chased' = [chased EXCEPT ![l].count = @ + 1, ![l].rested = FALSE]
  /\ sweep' = [sweep EXCEPT ![s].todo = @ \ {l}, ![s].sent = NULL]
  /\ ChaseRest /\ UNCHANGED deaths

EndSweep(s) ==
  /\ Sweeping(s) /\ sweep[s].todo = {} /\ sweep[s].sent = NULL
  /\ sweep' = [sweep EXCEPT ![s] = NoSweep]
  /\ ChaseRest /\ UNCHANGED <<chased, deaths>>

\* The worker dies: its sweeps are gone, with what they sent and did not count.
\* (Its jobs start again; Conversations models that.)
WorkerDies ==
  /\ deaths < MaxDeaths /\ \E s \in Sweeps : Sweeping(s)
  /\ deaths' = deaths + 1
  /\ sweep' = [s \in Sweeps |-> NoSweep]
  /\ chased' = [l \in LeadIds |->
       [chased[l] EXCEPT !.cut = @ + Cardinality({s \in Sweeps : Sweeping(s) /\ sweep[s].sent = l})]]
  /\ ChaseRest

-------------------------------------------------------------------------------
Edits(r) ==
  \/ \E u \in Users, e \in Forms :
       \/ \E l \in LeadIds : OpenLead(r, u, l, e)
       \/ \E ls \in SUBSET LeadIds \ {{}} : OpenBulk(r, u, ls, e)
  \/ CheckTarget(r) \/ BulkBefore(r) \/ WriteLead(r) \/ LogEdit(r) \/ WebDies(r)

Routes(j) ==
  \/ \E l \in LeadIds, todo \in SUBSET {"tag", "owner", "notify"} : StartJob(j, l, todo)
  \/ \E tag \in Tags : ReadTags(j, tag)
  \/ WriteTags(j) \/ LogTags(j) \/ ReadOwner(j)
  \/ \E named \in Users \cup {NULL} : PickAssignee(j, named)
  \/ GiveLead(j) \/ LogOwner(j) \/ NotifyAgent(j)
  \/ \E f \in Finds : Persist(j, f[1], f[2])
  \/ NothingSaved(j)

Chases(s) ==
  \/ \E finished \in SUBSET LeadIds : StartSweep(s, finished)
  \/ \E l \in LeadIds : Nudge(s, l)
  \/ CountNudge(s) \/ EndSweep(s)

LeadsNext ==
  \/ \E r \in Requests : Edits(r)
  \/ \E u \in Users : \E n \in LeadIds \X Users : DeleteNote(u, n)
  \/ \E u \in Users : RemoveMember(u)
  \/ \E p \in Products : DeleteProduct(p)
  \/ \E j \in Jobs : Routes(j)
FollowUpsNext ==
  \/ \E l \in LeadIds : Answer(l) \/ TimePasses(l)
  \/ \E s \in Sweeps : Chases(s)
  \/ WorkerDies

-------------------------------------------------------------------------------
(* Properties *)

\* What differs between two versions of a row, answer by answer and tag by tag.
Changes(a, b) ==
  {c \in Columns : a[c] # b[c]} \cup ((a.tags \ b.tags) \cup (b.tags \ a.tags))
    \cup {k \in Keys : a.fields[k] # b.fields[k]}

\* Lists and objects are written whole, owners are assigned late and Cal.com's
\* bookings advance a lead read before (leads/actions.ts:270,
\* agent-routing.ts:79, process-inbound.ts:725, calcom route.ts:329): yet unless
\* somebody else wrote to the lead meanwhile, a step changes one thing about it,
\* the bot never takes a lead from its owner, and only people move a lead on
\* once a meeting is set.
EditsAlone ==
  [][\A l \in LeadIds \ mixed' :
       /\ Cardinality(Changes(lead[l], lead'[l])) <= 1
       /\ (job' # job => lead[l].owner \in {NULL, lead'[l].owner})
       /\ (request' = request => lead[l].status \in Open \cup {lead'[l].status})]_leadsVars

\* The timeline ends at what the lead now shows, unless two wrote at once or an
\* entry was lost; an owner or a product that is gone leaves an empty column.
TimelineAccounts ==
  \A l \in LeadIds \ (mixed \cup unlogged) :
    reading[l] = {} =>
      /\ \A c \in {"status", "owner", "product"} :
           lead[l][c] = timeline[l][c] \/ (lead[l][c] = NULL /\ ~Exists(c, timeline[l][c]))
      /\ lead[l].tags = timeline[l].tags

\* An alert reaches the owner the lead has by then, also when the same job has
\* just assigned it, or all managers when it has none (agent-routing.ts:167).
AlertsTheOwner ==
  [][\A j \in Jobs :
       JobAt(j, "next") /\ job'[j].pc = "next" /\ "notify" \in job[j].todo \ job'[j].todo =>
       LET l == job[j].on IN l \in mixed \/ job'[j].told = Recipients(lead[l].owner)]_leadsVars

\* A lead is nudged FollowUpMax times, plus once for every other sweep under way
\* and every nudge a crash kept from being counted (worker/index.ts:66-68).
NudgesBounded ==
  \A l \in LeadIds : chased[l].sent <= FollowUpMax + (Cardinality(Sweeps) - 1) + chased[l].cut
=============================================================================
